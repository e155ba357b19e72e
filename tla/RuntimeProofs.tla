--------------------------- MODULE RuntimeProofs ----------------------------
(* The runtimes, the images, the workspace, the action server and the      *)
(* deployments, and with the lemmas of SandboxProofs the theorems for the  *)
(* specification that MCRuntime checks, whose steps are each one of a part *)
(* and leave the variables of all others alone.                            *)
EXTENDS MCRuntime, SandboxProofs, SequencesExt, FiniteSetTheorems, Integers

-----------------------------------------------------------------------------
(* DockerRuntime: a port is held by the lock on the file its name stands for. *)

\* Where a runtime may have a lock file open, and where its container may be up.
OpenAt == {"flock", "check", "create", "wait", "ready", "failed", "closed", "release"}
UpAt == {"wait", "ready", "failed", "closed"}

\* What a runtime is at, with its port, the lock file it has open and where releasing leads.
DockerStates == [pc : OpenAt \cup {"new", "search", "unlink"}, port : Ports \cup {0},
                 file : Files \cup {0}, tries : Nat, then : {"new", "search", "failed", "closed"}]

\* The kinds of values of the Docker part.
DockerTypeOK ==
  /\ rt \in [Runtimes -> DockerStates]
  /\ dir \in [Ports -> Files \cup {0}]
  /\ holder \in [Files -> Runtimes \cup {Nobody}]
  /\ container \in [Names -> [state : {"absent", "created", "running", "exited"}, port : Ports \cup {0}]]
  /\ met \in [lateUnlink : BOOLEAN, unlocked : BOOLEAN, collided : BOOLEAN, restarts : Nat]

\* Where a runtime may be with a lock file open, and with one locked.
LockSteps(r) ==
  /\ rt[r].file # 0 => rt[r].pc \in OpenAt /\ rt[r].port \in Ports
  /\ rt[r].pc \in {"check", "release"} => Locked(r)
  /\ rt[r].pc = "flock" => rt[r].file # 0
  /\ rt[r].pc = "unlink" => rt[r].port \in Ports
  /\ rt[r].pc = "create" => Locked(r) \/ met.unlocked

\* The lock file a runtime has open is the one its name stands for.
NameStands(r) == rt[r].file # 0 => dir[rt[r].port] = rt[r].file

\* Runtime s holds the lock on the port of container n.
HasPort(n, s) == NameOf[s] = n /\ rt[s].port = container[n].port /\ Locked(s) /\ rt[s].pc \in UpAt

\* The inductive invariant of the Docker part: until a file is unlinked late or a lock is
\* lost, a container that runs is on a port some runtime of its own holds, by a file that
\* the port's name stands for; so no two are on one port.
DockerInv ==
  /\ DockerTypeOK
  /\ \A r \in Runtimes : LockSteps(r) /\ (~met.lateUnlink => NameStands(r))
  /\ ~met.lateUnlink /\ ~met.unlocked =>
       \A n \in Names : container[n].state = "running" => \E s \in Runtimes : HasPort(n, s)
  /\ met.collided => met.lateUnlink \/ met.unlocked

\* At first nothing is locked and no container runs.
LEMMA DockerStarts == DockerInit => DockerInv
  BY DockerAssumption DEF DockerInit, DockerInv, DockerTypeOK, DockerStates, OpenAt, UpAt, LockSteps, NameStands, HasPort, Names, Locked

\* The type invariant, one variable at a time.
RtTyped == rt \in [Runtimes -> DockerStates]
Steps == OpenAt \cup {"new", "search", "unlink"}
ContainerTyped == container \in [Names -> [state : {"absent", "created", "running", "exited"}, port : Ports \cup {0}]]
MetTyped == met \in [lateUnlink : BOOLEAN, unlocked : BOOLEAN, collided : BOOLEAN, restarts : Nat]

\* A runtime that goes to another step keeps its record well formed.
LEMMA GoesTyped ==
  ASSUME RtTyped, NEW r \in Runtimes, NEW pc \in Steps, Goes(r, pc)
  PROVE  RtTyped'
  BY DEF RtTyped, Goes, DockerStates, Steps

\* So does one that gives its lock back.
LEMMA ReleasesTyped ==
  ASSUME RtTyped, NEW r \in Runtimes, NEW then \in {"new", "search", "failed", "closed"}, Releases(r, then)
  PROVE  RtTyped'
<1>1. PICK a \in Steps : rt' = [rt EXCEPT ![r].pc = a, ![r].then = then]
  <2>1. CASE Locked(r)
    BY <2>1 DEF Releases, Steps, OpenAt
  <2>2. CASE ~Locked(r)
    BY <2>2 DEF Releases, Steps, OpenAt
  <2> QED BY <2>1, <2>2
<1>2. rt[r] \in DockerStates
  BY DEF RtTyped
<1>3. [rt[r] EXCEPT !.pc = a, !.then = then] \in DockerStates
  BY <1>2 DEF DockerStates, Steps
<1>4. rt' = [rt EXCEPT ![r] = [rt[r] EXCEPT !.pc = a, !.then = then]]
  BY <1>1, <1>2 DEF RtTyped, DockerStates
<1> QED BY <1>3, <1>4 DEF RtTyped

\* Every step keeps the types.
LEMMA DockerTypes == DockerTypeOK /\ (\A r \in Runtimes : LockSteps(r)) /\ DockerNext => DockerTypeOK'
<1> SUFFICES ASSUME DockerTypeOK, \A r \in Runtimes : LockSteps(r), DockerNext PROVE DockerTypeOK'
  OBVIOUS
<1>0. RtTyped /\ ContainerTyped /\ MetTyped
      /\ \A r \in Runtimes : NameOf[r] \in Names /\ rt[r] \in DockerStates
  BY DEF DockerTypeOK, RtTyped, ContainerTyped, MetTyped, Names
<1>1. ASSUME NEW r \in Runtimes, Flocks(r) \/ FlockTimesOut(r) \/ Unlocks(r) PROVE DockerTypeOK'
  BY <1>1 DEF Flocks, FlockTimesOut, Unlocks, Goes, DockerTypeOK, DockerStates, OpenAt
<1>2. ASSUME NEW r \in Runtimes, Unlinks(r) PROVE DockerTypeOK'
  <2>1. rt[r].then \in Steps /\ Goes(r, rt[r].then) /\ UNCHANGED <<holder, container>>
    BY <1>0, <1>2 DEF Unlinks, DockerStates, Steps, OpenAt
  <2>2. RtTyped'
    BY <1>0, <2>1, GoesTyped
  <2>3. dir' \in [Ports -> Files \cup {0}]
    BY <1>2 DEF Unlinks, DockerTypeOK
  <2>4. PICK late : met' = [met EXCEPT !.lateUnlink = @ \/ late]
    BY <1>2 DEF Unlinks
  <2>5. MetTyped'
    BY <1>0, <2>4 DEF MetTyped
  <2> QED BY <2>1, <2>2, <2>3, <2>5 DEF DockerTypeOK, RtTyped, MetTyped
<1>3. ASSUME NEW r \in Runtimes, Attaches(r) PROVE DockerTypeOK'
  <2>0. NameOf[r] \in Names /\ container[NameOf[r]].port \in Ports \cup {0}
    BY <1>0 DEF ContainerTyped
  <2>1. dir' = dir /\ holder' = holder
    BY <1>3 DEF Attaches
  <2>2. RtTyped'
    <3>1. (\E pc \in Steps : Goes(r, pc)) \/ rt' = [rt EXCEPT ![r].pc = "wait", ![r].port = container[NameOf[r]].port]
      BY <1>3 DEF Attaches, Steps, OpenAt
    <3>2. CASE \E pc \in Steps : Goes(r, pc)
      BY <1>0, <3>2, GoesTyped
    <3>3. CASE rt' = [rt EXCEPT ![r].pc = "wait", ![r].port = container[NameOf[r]].port]
      BY <1>0, <2>0, <3>3 DEF RtTyped, DockerStates, OpenAt
    <3> QED BY <3>1, <3>2, <3>3
  <2>3. ContainerTyped'
    BY <1>0, <1>3, <2>0 DEF Attaches, ContainerTyped
  <2>4. MetTyped'
    BY <1>0, <1>3 DEF Attaches, MetTyped
  <2> QED BY <2>1, <2>2, <2>3, <2>4 DEF DockerTypeOK, RtTyped, MetTyped, ContainerTyped
<1>4. ASSUME NEW r \in Runtimes, Checks(r) PROVE DockerTypeOK'
  <2>1. Releases(r, "search") \/ Goes(r, "create")
    BY <1>4 DEF Checks
  <2>2. RtTyped'
    BY <1>0, <2>1, GoesTyped, ReleasesTyped DEF Steps, OpenAt
  <2> QED BY <1>4, <2>2 DEF DockerTypeOK, RtTyped, Checks
<1>5. ASSUME NEW r \in Runtimes, FallsBack(r) PROVE DockerTypeOK'
  <2>1. PICK p \in Ports : rt' = [rt EXCEPT ![r].pc = "create", ![r].port = p]
    BY <1>5 DEF FallsBack
  <2>2. [rt[r] EXCEPT !.pc = "create", !.port = p] \in DockerStates
    BY <1>0 DEF DockerStates, OpenAt
  <2>3. rt' = [rt EXCEPT ![r] = [rt[r] EXCEPT !.pc = "create", !.port = p]]
    BY <1>0, <2>1 DEF RtTyped, DockerStates
  <2>4. RtTyped'
    BY <1>0, <2>2, <2>3 DEF RtTyped
  <2>5. MetTyped'
    BY <1>0, <1>5 DEF MetTyped, FallsBack
  <2> QED BY <1>5, <2>4, <2>5 DEF FallsBack, DockerTypeOK, RtTyped, MetTyped
<1>6. ASSUME NEW r \in Runtimes, Creates(r) PROVE DockerTypeOK'
  <2>1. NameOf[r] \in Names /\ rt[r].port \in Ports \cup {0}
    BY <1>0 DEF DockerStates
  <2>2. PICK t \in BOOLEAN : t = Taken(rt[r].port, NameOf[r])
    BY DEF Taken
  <2>3. Releases(r, "failed") \/ Goes(r, "failed") \/ Goes(r, "wait")
    BY <1>6, <2>2 DEF Creates
  <2>4. RtTyped'
    BY <1>0, <2>3, GoesTyped, ReleasesTyped DEF Steps, OpenAt
  <2>5. ContainerTyped' /\ MetTyped' /\ UNCHANGED <<dir, holder>>
    BY <1>0, <1>6, <2>1, <2>2 DEF Creates, ContainerTyped, MetTyped
  <2> QED BY <2>4, <2>5 DEF DockerTypeOK, RtTyped, MetTyped, ContainerTyped
<1>7. ASSUME NEW r \in Runtimes, Answers(r) \/ NeverAnswers(r) PROVE DockerTypeOK'
  BY <1>7 DEF Answers, NeverAnswers, Goes, DockerTypeOK, DockerStates, OpenAt
<1>8. ASSUME NEW r \in Runtimes, Closes(r) PROVE DockerTypeOK'
  <2>1. Releases(r, "closed") \/ Goes(r, "closed")
    BY <1>8 DEF Closes
  <2>2. RtTyped'
    BY <1>0, <2>1, GoesTyped, ReleasesTyped DEF Steps, OpenAt
  <2>3. ContainerTyped'
    BY <1>0, <1>8 DEF Closes, ContainerTyped
  <2> QED BY <1>8, <2>2, <2>3 DEF DockerTypeOK, RtTyped, ContainerTyped, Closes
<1>9. ASSUME NEW r \in Runtimes, Resumes(r) PROVE DockerTypeOK'
  <2>1. Goes(r, "wait") \/ Goes(r, "failed")
    BY <1>9 DEF Resumes
  <2>2. RtTyped'
    BY <1>0, <2>1, GoesTyped DEF Steps, OpenAt
  <2>3. PICK t \in BOOLEAN : t = Taken(container[NameOf[r]].port, NameOf[r])
    BY DEF Taken
  <2>4. ContainerTyped' /\ MetTyped'
    BY <1>0, <1>9, <2>3 DEF Resumes, ContainerTyped, MetTyped
  <2> QED BY <1>9, <2>2, <2>4 DEF DockerTypeOK, RtTyped, MetTyped, ContainerTyped, Resumes
<1>10. ASSUME NEW r \in Runtimes, NEW p \in Ports, OpensLock(r, p) PROVE DockerTypeOK'
  <2>1. PICK f \in Files : /\ dir' = [dir EXCEPT ![p] = f]
        /\ rt' = [rt EXCEPT ![r].pc = "flock", ![r].port = p, ![r].file = f, ![r].tries = @ + 1]
    <3>1. CASE dir[p] # 0
      <4>1. dir[p] \in Files
        BY <3>1 DEF DockerTypeOK
      <4> QED BY <1>10, <3>1, <4>1 DEF OpensLock
    <3>2. CASE dir[p] = 0
      <4>1. (CHOOSE g \in Files : g \notin FilesInUse) \in Files
        BY <1>10, <3>2 DEF OpensLock
      <4> QED BY <1>10, <3>2, <4>1 DEF OpensLock
    <3> QED BY <3>1, <3>2
  <2>2. rt[r] \in DockerStates /\ rt[r].tries + 1 \in Nat
    BY <1>0 DEF DockerStates
  <2>3. [pc |-> "flock", port |-> p, file |-> f, tries |-> rt[r].tries + 1, then |-> rt[r].then] \in DockerStates
    BY <2>2 DEF DockerStates, OpenAt
  <2>4. rt' = [rt EXCEPT ![r] = [pc |-> "flock", port |-> p, file |-> f, tries |-> rt[r].tries + 1, then |-> rt[r].then]]
    BY <2>1, <2>2, <1>0 DEF DockerStates, RtTyped
  <2>5. RtTyped'
    BY <1>0, <2>3, <2>4 DEF RtTyped
  <2>6. dir' \in [Ports -> Files \cup {0}]
    BY <2>1 DEF DockerTypeOK
  <2>7. UNCHANGED <<holder, container, met>>
    BY <1>10 DEF OpensLock
  <2> QED BY <2>5, <2>6, <2>7 DEF DockerTypeOK, RtTyped
<1>11. ASSUME NEW n \in Names, Stops(n) PROVE DockerTypeOK'
  BY <1>11 DEF Stops, DockerTypeOK
<1> QED BY <1>1, <1>2, <1>3, <1>4, <1>5, <1>6, <1>7, <1>8, <1>9, <1>10, <1>11 DEF DockerNext

\* What it takes for a step of runtime r to keep the invariant: the others keep their
\* locks and the names of their files, and a container that runs afterwards is on a port
\* of r or was running, on its port, without r's help.
LEMMA DockerStepKeeps ==
  ASSUME DockerInv, DockerTypeOK', NEW r \in Runtimes,
         \A s \in Runtimes \ {r} : rt'[s] = rt[s] /\ (Locked(s) => Locked(s)'),
         met.lateUnlink => met'.lateUnlink, met.unlocked => met'.unlocked,
         LockSteps(r)',
         ~met'.lateUnlink => NameStands(r)',
         ~met'.lateUnlink => \A s \in Runtimes \ {r} : rt[s].file # 0 => dir'[rt[s].port] = dir[rt[s].port],
         ~met'.lateUnlink /\ ~met'.unlocked =>
            \A n \in Names : container'[n].state = "running" =>
              \/ HasPort(n, r)'
              \/ /\ container[n].state = "running" /\ container'[n].port = container[n].port
                 /\ ~HasPort(n, r),
         met'.collided => met.collided \/ met'.lateUnlink \/ met'.unlocked
  PROVE  DockerInv'
<1>1. \A s \in Runtimes : LockSteps(s)'
  <2> SUFFICES ASSUME NEW s \in Runtimes \ {r} PROVE LockSteps(s)'
    OBVIOUS
  <2> QED BY DEF DockerInv, LockSteps
<1>2. ~met'.lateUnlink => \A s \in Runtimes : NameStands(s)'
  <2> SUFFICES ASSUME NEW s \in Runtimes \ {r}, ~met'.lateUnlink PROVE NameStands(s)'
    OBVIOUS
  <2> QED BY DEF DockerInv, NameStands
<1>3. ~met'.lateUnlink /\ ~met'.unlocked =>
       \A n \in Names : container'[n].state = "running" => \E s \in Runtimes : HasPort(n, s)'
  <2> SUFFICES ASSUME ~met'.lateUnlink /\ ~met'.unlocked, NEW n \in Names, container'[n].state = "running",
                      ~HasPort(n, r)'
               PROVE  \E s \in Runtimes : HasPort(n, s)'
    OBVIOUS
  <2>1. container[n].state = "running" /\ container'[n].port = container[n].port /\ ~HasPort(n, r)
    OBVIOUS
  <2>2. PICK s \in Runtimes : HasPort(n, s)
    BY <2>1 DEF DockerInv
  <2>3. s # r /\ rt'[s] = rt[s] /\ Locked(s)'
    BY <2>1, <2>2 DEF HasPort
  <2>4. HasPort(n, s)'
    BY <2>1, <2>2, <2>3 DEF HasPort
  <2> QED BY <2>4
<1>4. met'.collided => met'.lateUnlink \/ met'.unlocked
  BY DEF DockerInv
<1> QED BY <1>1, <1>2, <1>3, <1>4 DEF DockerInv

\* A step that leaves the lock directory, the flocks and the history alone.
LEMMA DockerMoves ==
  ASSUME DockerInv, DockerTypeOK', NEW r \in Runtimes, UNCHANGED <<dir, holder>>,
         rt' = [rt EXCEPT ![r] = rt'[r]], rt'[r].file = rt[r].file,
         met'.lateUnlink = met.lateUnlink, met.unlocked => met'.unlocked,
         met'.collided => met.collided \/ met.lateUnlink \/ met'.unlocked,
         rt[r].file # 0 => rt'[r].port = rt[r].port /\ rt'[r].pc \in OpenAt,
         rt'[r].pc \in {"check", "release"} => Locked(r),
         rt'[r].pc = "create" => Locked(r) \/ met'.unlocked,
         rt'[r].pc \notin {"flock", "unlink"},
         rt[r].pc \in UpAt => rt'[r].pc \in UpAt \/ container'[NameOf[r]].state # "running",
         \A n \in Names : container'[n].state = "running" =>
           \/ met'.unlocked \/ HasPort(n, r)'
           \/ container[n].state = "running" /\ container'[n].port = container[n].port
  PROVE  DockerInv'
<1>1. \A s \in Runtimes \ {r} : rt'[s] = rt[s] /\ (Locked(s) => Locked(s)')
  BY DEF DockerInv, DockerTypeOK, Locked
<1>2. Locked(r)' <=> Locked(r)
  BY DEF DockerInv, DockerTypeOK, Locked
<1>3. rt[r] \in DockerStates /\ LockSteps(r) /\ (~met.lateUnlink => NameStands(r))
  BY DEF DockerInv, DockerTypeOK
<1>4. LockSteps(r)'
  BY <1>2, <1>3 DEF LockSteps
<1>5. ~met'.lateUnlink => NameStands(r)'
  BY <1>3 DEF NameStands
<1>6. ASSUME NEW n \in Names, container'[n].state = "running", ~met'.unlocked
      PROVE  HasPort(n, r)' \/ (container[n].state = "running" /\ container'[n].port = container[n].port /\ ~HasPort(n, r))
  <2> SUFFICES ASSUME container[n].state = "running" /\ container'[n].port = container[n].port, HasPort(n, r)
               PROVE  HasPort(n, r)'
    BY <1>6
  <2>1. NameOf[r] = n /\ Locked(r)' /\ rt[r].pc \in UpAt /\ rt'[r].pc \in UpAt
    BY <1>2, <1>6 DEF HasPort
  <2>2. rt[r].file # 0
    BY DEF HasPort, Locked
  <2> QED BY <2>1, <2>2 DEF HasPort
<1> QED
  <2>1. met'.collided => met.collided \/ met'.lateUnlink \/ met'.unlocked
    OBVIOUS
  <2>2. met.lateUnlink => met'.lateUnlink
    OBVIOUS
  <2>3. ~met'.lateUnlink /\ ~met'.unlocked =>
            \A n \in Names : container'[n].state = "running" =>
              \/ HasPort(n, r)'
              \/ /\ container[n].state = "running" /\ container'[n].port = container[n].port
                 /\ ~HasPort(n, r)
    BY <1>6
  <2>4. \A s \in Runtimes \ {r} : rt[s].file # 0 => dir'[rt[s].port] = dir[rt[s].port]
    OBVIOUS
  <2> QED BY <1>1, <1>4, <1>5, <2>1, <2>2, <2>3, <2>4, DockerStepKeeps

\* What a runtime keeps when it goes to another step.
LEMMA GoesTo ==
  ASSUME DockerTypeOK, NEW r \in Runtimes, NEW pc, Goes(r, pc)
  PROVE  /\ rt' = [rt EXCEPT ![r] = rt'[r]] /\ rt'[r].pc = pc
         /\ rt'[r].file = rt[r].file /\ rt'[r].port = rt[r].port /\ rt'[r].then = rt[r].then
  BY DEF DockerTypeOK, DockerStates, Goes

\* What it keeps when it gives its lock back.
LEMMA ReleasesTo ==
  ASSUME DockerTypeOK, NEW r \in Runtimes, NEW then, Releases(r, then)
  PROVE  /\ rt' = [rt EXCEPT ![r] = rt'[r]]
         /\ rt'[r].pc = IF Locked(r) THEN "release" ELSE then
         /\ rt'[r].file = rt[r].file /\ rt'[r].port = rt[r].port
<1>1. PICK a : /\ a = (IF Locked(r) THEN "release" ELSE then)
               /\ rt' = [rt EXCEPT ![r].pc = a, ![r].then = then]
  BY DEF Releases
<1>2. rt \in [Runtimes -> DockerStates] /\ rt[r] \in DockerStates
  BY DEF DockerTypeOK
<1>3. PICK e : e = [rt[r] EXCEPT !.pc = a, !.then = then]
  OBVIOUS
<1>4. e.pc = a /\ e.file = rt[r].file /\ e.port = rt[r].port
  BY <1>2, <1>3 DEF DockerStates
<1>5. rt' = [rt EXCEPT ![r] = e]
  BY <1>1, <1>2, <1>3 DEF DockerStates
<1> QED BY <1>1, <1>2, <1>4, <1>5

\* What it keeps when it is given a port.
LEMMA PortGiven ==
  ASSUME DockerTypeOK, NEW r \in Runtimes, NEW pc, NEW p, rt' = [rt EXCEPT ![r].pc = pc, ![r].port = p]
  PROVE  /\ rt' = [rt EXCEPT ![r] = rt'[r]]
         /\ rt'[r].pc = pc /\ rt'[r].file = rt[r].file
<1>2. rt \in [Runtimes -> DockerStates] /\ rt[r] \in DockerStates
  BY DEF DockerTypeOK
<1>3. PICK e : e = [rt[r] EXCEPT !.pc = pc, !.port = p]
  OBVIOUS
<1>4. e.pc = pc /\ e.file = rt[r].file
  BY <1>2, <1>3 DEF DockerStates
<1>5. rt' = [rt EXCEPT ![r] = e]
  BY <1>2, <1>3 DEF DockerStates
<1> QED BY <1>2, <1>4, <1>5

\* Until a file is unlinked late no two runtimes hold the lock on one port.
LEMMA OneLockAPort ==
  ASSUME DockerInv, ~met.lateUnlink, NEW r \in Runtimes, NEW s \in Runtimes,
         Locked(r), Locked(s), rt[r].port = rt[s].port
  PROVE  r = s
<1>1. NameStands(r) /\ NameStands(s) /\ rt[r].file # 0 /\ rt[s].file # 0
  BY DEF DockerInv, Locked
<1>2. rt[r].file = rt[s].file
  BY <1>1 DEF NameStands
<1> QED BY <1>2 DEF Locked

\* Attaching, checking the port, falling back and waiting for an answer.
LEMMA DockerConnects ==
  ASSUME DockerInv, DockerTypeOK', NEW r \in Runtimes, Attaches(r) \/ Checks(r) \/ FallsBack(r) \/ Answers(r) \/ NeverAnswers(r)
  PROVE  DockerInv'
<1>0. DockerTypeOK /\ LockSteps(r) /\ (Locked(r) => rt[r].file # 0)
  BY DEF DockerInv, Locked
<1>1. CASE Answers(r) \/ NeverAnswers(r)
  <2>1. PICK pc \in {"ready", "failed"} : Goes(r, pc) /\ rt[r].pc = "wait" /\ UNCHANGED <<dir, holder, container, met>>
    BY <1>1 DEF Answers, NeverAnswers
  <2>2. /\ rt' = [rt EXCEPT ![r] = rt'[r]] /\ rt'[r].pc = pc
        /\ rt'[r].file = rt[r].file /\ rt'[r].port = rt[r].port
    BY <1>0, <2>1, GoesTo
  <2> QED BY <1>0, <2>1, <2>2, DockerMoves DEF LockSteps, OpenAt, UpAt
<1>2. CASE Checks(r)
  <2>1. rt[r].pc = "check" /\ Locked(r) /\ UNCHANGED <<dir, holder, container, met>>
    BY <1>0, <1>2 DEF Checks, LockSteps
  <2>2. PICK pc \in {"release", "create"} :
           /\ rt' = [rt EXCEPT ![r] = rt'[r]] /\ rt'[r].pc = pc
           /\ rt'[r].file = rt[r].file /\ rt'[r].port = rt[r].port
    <3>1. Releases(r, "search") \/ Goes(r, "create")
      BY <1>2 DEF Checks
    <3> QED BY <1>0, <2>1, <3>1, GoesTo, ReleasesTo
  <2> QED BY <1>0, <2>1, <2>2, DockerMoves DEF LockSteps, OpenAt, UpAt
<1>3. CASE FallsBack(r)
  <2>1. PICK p \in Ports : rt' = [rt EXCEPT ![r].pc = "create", ![r].port = p]
    BY <1>3 DEF FallsBack
  <2>2. rt' = [rt EXCEPT ![r] = rt'[r]] /\ rt'[r].pc = "create" /\ rt'[r].file = rt[r].file
    BY <1>0, <2>1, PortGiven
  <2>3. rt[r].pc = "search" /\ UNCHANGED <<dir, holder, container>>
    BY <1>3 DEF FallsBack
  <2>4. met'.unlocked /\ met'.lateUnlink = met.lateUnlink /\ met'.collided = met.collided
    BY <1>0, <1>3 DEF FallsBack, DockerTypeOK
  <2>5. rt[r].file = 0
    BY <1>0, <2>3 DEF LockSteps, OpenAt
  <2> QED BY <1>0, <2>2, <2>3, <2>4, <2>5, DockerMoves DEF UpAt
<1>4. CASE Attaches(r)
  <2>1. rt[r].pc = "new" /\ UNCHANGED <<dir, holder>>
    BY <1>4 DEF Attaches
  <2>2. rt[r].file = 0
    BY <1>0, <2>1 DEF LockSteps, OpenAt
  <2>3. PICK pc \in {"failed", "search", "wait"} : rt' = [rt EXCEPT ![r] = rt'[r]] /\ rt'[r].pc = pc /\ rt'[r].file = rt[r].file
    <3>1. Goes(r, "failed") \/ Goes(r, "search") \/ rt' = [rt EXCEPT ![r].pc = "wait", ![r].port = container[NameOf[r]].port]
      BY <1>4 DEF Attaches
    <3>2. CASE Goes(r, "failed") \/ Goes(r, "search")
      BY <1>0, <3>2, GoesTo
    <3>3. CASE rt' = [rt EXCEPT ![r].pc = "wait", ![r].port = container[NameOf[r]].port]
      BY <1>0, <3>3, PortGiven
    <3> QED BY <3>1, <3>2, <3>3
  <2>4. NameOf[r] \in Names
    BY DEF Names
  <2>5. met'.lateUnlink = met.lateUnlink /\ met'.collided = met.collided /\ (met.unlocked => met'.unlocked)
    BY <1>0, <1>4 DEF Attaches, DockerTypeOK
  <2>6. \A n \in Names : container'[n].state = "running" =>
           met'.unlocked \/ (container[n].state = "running" /\ container'[n].port = container[n].port)
    BY <1>0, <1>4, <2>4 DEF Attaches, DockerTypeOK
  <2> QED BY <1>0, <2>1, <2>2, <2>3, <2>5, <2>6, DockerMoves DEF UpAt
<1> QED BY <1>1, <1>2, <1>3, <1>4

\* Creating a container on the port that was found.
LEMMA DockerCreates ==
  ASSUME DockerInv, DockerTypeOK', NEW r \in Runtimes, Creates(r)
  PROVE  DockerInv'
<1>0. DockerTypeOK /\ LockSteps(r) /\ (Locked(r) => rt[r].file # 0)
  BY DEF DockerInv, Locked
<1>1. PICK t \in BOOLEAN : t = Taken(rt[r].port, NameOf[r])
  BY DEF Taken
<1>2. rt[r].pc = "create" /\ UNCHANGED <<dir, holder>> /\ (Locked(r) \/ met.unlocked)
  BY <1>0 DEF Creates, LockSteps
<1>3. PICK pc \in {"release", "failed", "wait"} :
         /\ rt' = [rt EXCEPT ![r] = rt'[r]] /\ rt'[r].pc = pc
         /\ rt'[r].file = rt[r].file /\ rt'[r].port = rt[r].port
         /\ (pc = "release" => Locked(r)) /\ (~t => pc = "wait")
  <2>1. (t /\ Releases(r, "failed")) \/ (t /\ Goes(r, "failed")) \/ (~t /\ Goes(r, "wait"))
    BY <1>1 DEF Creates
  <2> QED BY <1>0, <2>1, GoesTo, ReleasesTo
<1>4. NameOf[r] \in Names
  BY DEF Names
<1>5. container' = [container EXCEPT ![NameOf[r]] = [state |-> IF t THEN "created" ELSE "running", port |-> rt[r].port]]
  BY <1>1 DEF Creates
<1>6. met'.lateUnlink = met.lateUnlink /\ met'.unlocked = met.unlocked /\ met'.collided = (met.collided \/ t)
  BY <1>0, <1>1 DEF Creates, DockerTypeOK
<1>7. t => met.lateUnlink \/ met.unlocked
  <2> SUFFICES ASSUME t, ~met.lateUnlink, ~met.unlocked PROVE FALSE
    OBVIOUS
  <2>1. PICK n \in Names \ {NameOf[r]} : container[n].state = "running" /\ container[n].port = rt[r].port
    BY <1>1 DEF Taken
  <2>2. PICK s \in Runtimes : HasPort(n, s)
    BY <2>1 DEF DockerInv
  <2>3. s = r
    BY <1>2, <2>1, <2>2, OneLockAPort DEF HasPort
  <2> QED BY <2>1, <2>2, <2>3 DEF HasPort
<1>8. \A n \in Names \ {NameOf[r]} : container'[n] = container[n]
  BY <1>0, <1>4, <1>5 DEF DockerTypeOK
<1>9. container'[NameOf[r]].state = "running" => met'.unlocked \/ HasPort(NameOf[r], r)'
  <2> SUFFICES ASSUME container'[NameOf[r]].state = "running", ~met'.unlocked PROVE HasPort(NameOf[r], r)'
    OBVIOUS
  <2>1. ~t /\ container'[NameOf[r]].port = rt[r].port
    BY <1>0, <1>4, <1>5 DEF DockerTypeOK
  <2>2. Locked(r)'
    BY <1>0, <1>2, <1>3, <1>6 DEF Locked, DockerTypeOK
  <2> QED BY <1>3, <2>1, <2>2 DEF HasPort, UpAt
<1>10. \A n \in Names : container'[n].state = "running" =>
           \/ met'.unlocked \/ HasPort(n, r)'
           \/ container[n].state = "running" /\ container'[n].port = container[n].port
  BY <1>8, <1>9
<1>11. rt[r].pc \notin UpAt /\ pc \in OpenAt /\ pc \notin {"check", "create", "flock", "unlink"}
  BY <1>2 DEF UpAt, OpenAt
<1> QED BY <1>2, <1>3, <1>6, <1>7, <1>10, <1>11, DockerMoves

\* Closing and removing.
LEMMA DockerEnds ==
  ASSUME DockerInv, DockerTypeOK', NEW r \in Runtimes, Closes(r) \/ Resumes(r)
  PROVE  DockerInv'
<1>0. DockerTypeOK /\ LockSteps(r) /\ NameOf[r] \in Names
  BY DEF DockerInv, Names
<1>1. CASE Closes(r)
  <2>1. rt[r].pc \in {"ready", "failed"} /\ UNCHANGED <<dir, holder, met>>
    BY <1>1 DEF Closes
  <2>2. PICK pc \in {"release", "closed"} :
           /\ rt' = [rt EXCEPT ![r] = rt'[r]] /\ rt'[r].pc = pc
           /\ rt'[r].file = rt[r].file /\ rt'[r].port = rt[r].port
           /\ (pc = "release" => Locked(r) /\ container'[NameOf[r]].state # "running")
    <3>1. \/ Goes(r, "closed")
          \/ Releases(r, "closed") /\ container' = [container EXCEPT ![NameOf[r]].state = IF @ = "running" THEN "exited" ELSE @]
      BY <1>1 DEF Closes
    <3>2. container' = [container EXCEPT ![NameOf[r]].state = IF @ = "running" THEN "exited" ELSE @]
          => container'[NameOf[r]].state # "running"
      BY <1>0 DEF DockerTypeOK
    <3> QED BY <1>0, <3>1, <3>2, GoesTo, ReleasesTo
  <2>3. \A n \in Names : container'[n].state = "running" =>
           container[n].state = "running" /\ container'[n].port = container[n].port
    BY <1>0, <1>1 DEF Closes, DockerTypeOK
  <2> QED BY <1>0, <2>1, <2>2, <2>3, DockerMoves DEF UpAt, OpenAt
<1>2. CASE Resumes(r)
  <2>1. rt[r].pc = "ready" /\ UNCHANGED <<dir, holder>>
    BY <1>2 DEF Resumes
  <2>2. PICK pc \in {"wait", "failed"} :
           /\ rt' = [rt EXCEPT ![r] = rt'[r]] /\ rt'[r].pc = pc
           /\ rt'[r].file = rt[r].file /\ rt'[r].port = rt[r].port
    <3>1. Goes(r, "wait") \/ Goes(r, "failed")
      BY <1>2 DEF Resumes
    <3> QED BY <1>0, <3>1, GoesTo
  <2>3. met'.lateUnlink = met.lateUnlink /\ met'.unlocked /\ met'.collided = met.collided
    BY <1>0, <1>2 DEF Resumes, DockerTypeOK
  <2> QED BY <1>0, <2>1, <2>2, <2>3, DockerMoves DEF UpAt, OpenAt
<1> QED BY <1>1, <1>2

\* Locking the file that was opened.
LEMMA DockerLocks ==
  ASSUME DockerInv, DockerTypeOK', NEW r \in Runtimes, Flocks(r) \/ FlockTimesOut(r)
  PROVE  DockerInv'
<1>0. DockerTypeOK /\ LockSteps(r) /\ (~met.lateUnlink => NameStands(r)) /\ rt[r] \in DockerStates
  BY DEF DockerInv, DockerTypeOK
<1>1. rt[r].pc = "flock" /\ UNCHANGED <<dir, container, met>> /\ rt[r].file \in Files
  BY <1>0 DEF Flocks, FlockTimesOut, LockSteps, DockerStates
<1>2. \A n \in Names : ~HasPort(n, r)
  BY <1>1 DEF HasPort, UpAt
<1>3. CASE Flocks(r)
  <2>1. /\ rt' = [rt EXCEPT ![r] = rt'[r]] /\ rt'[r].pc = "check"
        /\ rt'[r].file = rt[r].file /\ rt'[r].port = rt[r].port
    BY <1>0, <1>3, GoesTo DEF Flocks
  <2>2. holder' = [holder EXCEPT ![rt[r].file] = r] /\ holder[rt[r].file] = Nobody
    BY <1>3 DEF Flocks, Flockable
  <2>3. \A s \in Runtimes \ {r} : rt'[s] = rt[s] /\ (Locked(s) => Locked(s)')
    BY <1>0, <2>1, <2>2, DockerAssumption DEF Locked, DockerTypeOK
  <2>4. Locked(r)'
    BY <1>0, <1>1, <2>1, <2>2 DEF Locked, DockerTypeOK, LockSteps
  <2>5. LockSteps(r)' /\ (~met.lateUnlink => NameStands(r)')
    BY <1>0, <1>1, <2>1, <2>4 DEF LockSteps, NameStands, OpenAt
  <2> QED BY <1>1, <1>2, <2>3, <2>5, DockerStepKeeps
<1>4. CASE FlockTimesOut(r)
  <2>1. rt' = [rt EXCEPT ![r].pc = "search", ![r].file = 0] /\ UNCHANGED holder
    BY <1>4 DEF FlockTimesOut
  <2>2. PICK e : e = [rt[r] EXCEPT !.pc = "search", !.file = 0]
    OBVIOUS
  <2>3. rt' = [rt EXCEPT ![r] = e] /\ e.pc = "search" /\ e.file = 0
    BY <1>0, <2>1, <2>2 DEF DockerTypeOK, DockerStates
  <2>4. rt'[r] = e /\ \A s \in Runtimes \ {r} : rt'[s] = rt[s] /\ (Locked(s) => Locked(s)')
    BY <1>0, <2>1, <2>3 DEF DockerTypeOK, Locked
  <2>5. LockSteps(r)' /\ NameStands(r)'
    BY <2>3, <2>4 DEF LockSteps, NameStands
  <2> QED BY <1>1, <1>2, <2>4, <2>5, DockerStepKeeps
<1> QED BY <1>3, <1>4

\* Giving the lock back and unlinking the file, which another may have locked since.
LEMMA DockerUnlocks ==
  ASSUME DockerInv, DockerTypeOK', NEW r \in Runtimes, Unlocks(r) \/ Unlinks(r)
  PROVE  DockerInv'
<1>0. DockerTypeOK /\ LockSteps(r) /\ rt[r] \in DockerStates
  BY DEF DockerInv, DockerTypeOK
<1>1. UNCHANGED container /\ \A n \in Names : ~HasPort(n, r)
  BY DEF Unlocks, Unlinks, HasPort, UpAt
<1>3. CASE Unlocks(r)
  <2>1. /\ rt[r].pc = "release" /\ rt' = [rt EXCEPT ![r].pc = "unlink", ![r].file = 0] /\ UNCHANGED <<dir, met>>
        /\ holder' = [holder EXCEPT ![rt[r].file] = Nobody]
    BY <1>3 DEF Unlocks
  <2>2. PICK e : e = [rt[r] EXCEPT !.pc = "unlink", !.file = 0]
    OBVIOUS
  <2>3. rt' = [rt EXCEPT ![r] = e] /\ e.pc = "unlink" /\ e.file = 0 /\ e.port = rt[r].port
    BY <1>0, <2>1, <2>2 DEF DockerTypeOK, DockerStates
  <2>4. Locked(r)
    BY <1>0, <2>1 DEF LockSteps
  <2>5. rt'[r] = e /\ \A s \in Runtimes \ {r} : rt'[s] = rt[s]
    BY <1>0, <2>3 DEF DockerTypeOK
  <2>6. \A s \in Runtimes \ {r} : Locked(s) => Locked(s)'
    BY <1>0, <2>1, <2>4, <2>5 DEF Locked, DockerTypeOK
  <2>7. LockSteps(r)' /\ NameStands(r)'
    BY <1>0, <2>3, <2>4, <2>5 DEF LockSteps, NameStands, Locked
  <2> QED BY <1>1, <2>1, <2>5, <2>6, <2>7, DockerStepKeeps
<1>4. CASE Unlinks(r)
  <2>1. rt[r].pc = "unlink" /\ Goes(r, rt[r].then) /\ UNCHANGED holder /\ rt[r].port \in Ports
        /\ dir' = [dir EXCEPT ![rt[r].port] = 0]
    BY <1>0, <1>4 DEF Unlinks, LockSteps
  <2>2. /\ rt' = [rt EXCEPT ![r] = rt'[r]] /\ rt'[r].pc = rt[r].then
        /\ rt'[r].file = rt[r].file /\ rt'[r].port = rt[r].port
    BY <1>0, <2>1, GoesTo
  <2>3. rt[r].file = 0 /\ rt[r].then \in {"new", "search", "failed", "closed"}
    BY <1>0, <2>1 DEF LockSteps, OpenAt, DockerStates
  <2>4. \A s \in Runtimes \ {r} : rt'[s] = rt[s] /\ (Locked(s) => Locked(s)')
    BY <1>0, <2>1, <2>2 DEF Locked, DockerTypeOK
  <2>5. PICK late \in BOOLEAN : late = \E s \in Runtimes : rt[s].file # 0 /\ rt[s].file = dir[rt[r].port]
    OBVIOUS
  <2>6. met'.lateUnlink = (met.lateUnlink \/ late) /\ met'.unlocked = met.unlocked /\ met'.collided = met.collided
    BY <1>0, <1>4, <2>5 DEF Unlinks, DockerTypeOK
  <2>7. LockSteps(r)' /\ NameStands(r)'
    BY <2>2, <2>3 DEF LockSteps, NameStands
  <2>8. ~met'.lateUnlink => \A s \in Runtimes \ {r} : rt[s].file # 0 => dir'[rt[s].port] = dir[rt[s].port]
    <3> SUFFICES ASSUME ~met'.lateUnlink, NEW s \in Runtimes \ {r}, rt[s].file # 0
                 PROVE  dir'[rt[s].port] = dir[rt[s].port]
      OBVIOUS
    <3>1. dir[rt[s].port] = rt[s].file /\ rt[s].port \in Ports
      BY <2>6 DEF DockerInv, NameStands, LockSteps
    <3>2. rt[s].port # rt[r].port
      BY <2>5, <2>6, <3>1
    <3> QED BY <1>0, <2>1, <3>1, <3>2 DEF DockerTypeOK
  <2> QED BY <1>1, <2>4, <2>6, <2>7, <2>8, DockerStepKeeps
<1> QED BY <1>3, <1>4

\* Opening the file a port's name stands for.
LEMMA DockerOpens ==
  ASSUME DockerInv, DockerTypeOK', NEW r \in Runtimes, NEW p \in Ports, OpensLock(r, p)
  PROVE  DockerInv'
<1>0. DockerTypeOK /\ LockSteps(r) /\ rt[r] \in DockerStates
  BY DEF DockerInv, DockerTypeOK
<1>1. rt[r].pc = "search" /\ UNCHANGED <<holder, container, met>>
  BY DEF OpensLock
<1>2. PICK f : /\ f = IF dir[p] # 0 THEN dir[p] ELSE CHOOSE g \in Files : g \notin FilesInUse
               /\ dir' = [dir EXCEPT ![p] = f]
               /\ rt' = [rt EXCEPT ![r].pc = "flock", ![r].port = p, ![r].file = f, ![r].tries = @ + 1]
  BY DEF OpensLock
<1>3. f \in Files /\ f # 0
  <2>1. dir[p] = 0 => f \in Files
    BY <1>2 DEF OpensLock
  <2>2. dir[p] # 0 => f \in Files
    BY <1>0, <1>2 DEF DockerTypeOK
  <2> QED BY <2>1, <2>2 DEF Files
<1>4. PICK e : e = [pc |-> "flock", port |-> p, file |-> f, tries |-> rt[r].tries + 1, then |-> rt[r].then]
  OBVIOUS
<1>5. rt' = [rt EXCEPT ![r] = e]
  <2>1. RtTyped /\ rt[r].tries + 1 \in Nat
    BY <1>0 DEF DockerTypeOK, RtTyped, DockerStates
  <2>2. rt' = [rt EXCEPT ![r].pc = "flock", ![r].port = p, ![r].file = f, ![r].tries = @ + 1]
    BY <1>2
  <2>3. rt' = [rt EXCEPT ![r] = [pc |-> "flock", port |-> p, file |-> f, tries |-> rt[r].tries + 1, then |-> rt[r].then]]
    BY <1>0, <2>1, <2>2 DEF DockerStates, RtTyped
  <2> QED BY <1>4, <2>3
<1>6. e.pc = "flock" /\ e.port = p /\ e.file = f
  BY <1>4
<1>7. rt'[r] = e /\ \A s \in Runtimes \ {r} : rt'[s] = rt[s] /\ (Locked(s) => Locked(s)')
  BY <1>0, <1>1, <1>5 DEF DockerTypeOK, Locked
<1>8. LockSteps(r)' /\ NameStands(r)'
  BY <1>0, <1>2, <1>3, <1>6, <1>7 DEF LockSteps, NameStands, OpenAt, DockerTypeOK
<1>9. ~met.lateUnlink => \A s \in Runtimes \ {r} : rt[s].file # 0 => dir'[rt[s].port] = dir[rt[s].port]
  <2> SUFFICES ASSUME ~met.lateUnlink, NEW s \in Runtimes \ {r}, rt[s].file # 0
               PROVE  dir'[rt[s].port] = dir[rt[s].port]
    OBVIOUS
  <2>1. dir[rt[s].port] = rt[s].file /\ rt[s].port \in Ports
    BY DEF DockerInv, NameStands, LockSteps
  <2> QED BY <1>0, <1>2, <2>1 DEF DockerTypeOK
<1>10. \A n \in Names : ~HasPort(n, r)
  BY <1>1 DEF HasPort, UpAt
<1> QED BY <1>1, <1>7, <1>8, <1>9, <1>10, DockerStepKeeps

\* A container that stops on its own, and a server that restarts.
LEMMA DockerStops ==
  ASSUME DockerInv, DockerTypeOK', NEW n \in Names, Stops(n)
  PROVE  DockerInv'
<1>0. DockerTypeOK
  BY DEF DockerInv
<1>1. UNCHANGED <<rt, dir, holder>> /\ met'.lateUnlink = met.lateUnlink
      /\ met'.unlocked = met.unlocked /\ met'.collided = met.collided
  BY <1>0 DEF Stops, DockerTypeOK
<1>2. \A m \in Names : container'[m].state = "running" => container'[m] = container[m]
  BY <1>0 DEF Stops, DockerTypeOK
<1>3. \A s \in Runtimes : LockSteps(s)' /\ (~met'.lateUnlink => NameStands(s)')
  BY <1>1 DEF DockerInv, LockSteps, NameStands, Locked
<1>4. ~met'.lateUnlink /\ ~met'.unlocked =>
       \A m \in Names : container'[m].state = "running" => \E s \in Runtimes : HasPort(m, s)'
  BY <1>1, <1>2 DEF DockerInv, HasPort, Locked
<1> QED BY <1>1, <1>3, <1>4 DEF DockerInv

\* Every step of the Docker part keeps the invariant.
LEMMA DockerSteps == DockerInv /\ DockerNext => DockerInv'
<1> SUFFICES ASSUME DockerInv, DockerNext PROVE DockerInv'
  OBVIOUS
<1>1. DockerTypeOK'
  BY DockerTypes DEF DockerInv
<1> QED
  BY <1>1, DockerConnects, DockerCreates, DockerEnds, DockerLocks, DockerUnlocks, DockerOpens, DockerStops DEF DockerNext

\* So does a step of another part.
LEMMA DockerFrame == DockerInv /\ UNCHANGED dockerVars => DockerInv'
  BY DEF DockerInv, dockerVars, DockerTypeOK, LockSteps, NameStands, HasPort, Locked

\* The invariant gives what the run checks.
LEMMA DockerPorts == DockerInv => CollisionNeedsLateUnlink
  BY OneLockAPort DEF DockerInv, CollisionNeedsLateUnlink, SharedLock

-----------------------------------------------------------------------------
(* LocalServers: somebody keeps every process that is alive.                 *)

\* The server processes made so far.
Processes == 1 .. made

\* What a runtime on a local process is at.
LocalSteps == {"new", "waiting", "ready", "failed", "closed", "gone"}

\* The kinds of values of the local part.
LocalTypeOK ==
  /\ made \in Nat /\ warm \in Seq(Processes) /\ making \subseteq Processes /\ aliveProcs \subseteq Processes
  /\ running \in [LocalConvs -> Processes \cup {NoServer}]
  /\ local \in [LocalRuntimes -> [at : LocalSteps, server : Processes \cup {NoServer}]]

\* Who will end a process: the pool, a thread that makes it, or a runtime of its own.
Kept(p) ==
  \/ p \in ToSet(warm) \cup making \cup orphans
  \/ \E r \in LocalRuntimes \ Attached : local[r].server = p

\* A process that no conversation and no runtime has been given.
ServesNobody(p) ==
  /\ \A s \in LocalConvs : running[s] # p
  /\ \A r \in LocalRuntimes : local[r].server # p

\* A process is in the pool once, and not while it is being made.
WarmOnce ==
  /\ \A i, j \in DOMAIN warm : warm[i] = warm[j] => i = j
  /\ ToSet(warm) \cap making = {}

\* The inductive invariant of the local part: every living process is kept by the pool,
\* by the thread that makes it, by a runtime or on the list of those known to be left
\* behind; and one in the pool serves nobody yet.
ServersInv ==
  /\ LocalTypeOK /\ WarmOnce
  /\ \A r \in LocalRuntimes : local[r].at = "new" => local[r].server = NoServer
  /\ \A p \in aliveProcs : Kept(p)
  /\ \A p \in ToSet(warm) \cup making : ServesNobody(p)

\* At first the pool holds the processes made for it.
LEMMA LocalStarts == LocalInit => ServersInv
<1> SUFFICES ASSUME LocalInit PROVE ServersInv
  OBVIOUS
<1>1. made \in Nat /\ warm = [i \in 1 .. made |-> i]
  BY LocalAssumption DEF LocalInit
<1>2. warm \in Seq(1 .. made) /\ DOMAIN warm = 1 .. made /\ ToSet(warm) = 1 .. made
  BY <1>1 DEF ToSet
<1> QED BY <1>1, <1>2, LocalAssumption
        DEF LocalInit, ServersInv, LocalTypeOK, WarmOnce, Kept, ServesNobody, Processes, LocalSteps

\* What taking the first warm server leaves.
LEMMA TakenWarm ==
  ASSUME LocalTypeOK, WarmOnce, warm # <<>>
  PROVE  /\ Head(warm) \in ToSet(warm) /\ Head(warm) \in Processes /\ Tail(warm) \in Seq(Processes)
         /\ ToSet(Tail(warm)) = ToSet(warm) \ {Head(warm)}
         /\ \A i, j \in DOMAIN Tail(warm) : Tail(warm)[i] = Tail(warm)[j] => i = j
<1> DEFINE w == warm
<1>1. w \in Seq(Processes) /\ w # <<>> /\ (\A i, j \in DOMAIN w : w[i] = w[j] => i = j)
  BY DEF LocalTypeOK, WarmOnce
<1> HIDE DEF w
<1>2. /\ Len(w) \in Nat \ {0} /\ DOMAIN w = 1 .. Len(w) /\ Head(w) = w[1] /\ Tail(w) \in Seq(Processes)
      /\ Len(Tail(w)) = Len(w) - 1 /\ DOMAIN Tail(w) = 1 .. Len(w) - 1
      /\ \A i \in 1 .. Len(w) - 1 : Tail(w)[i] = w[i + 1]
  BY <1>1
<1>3. Head(w) \in ToSet(w) /\ Head(w) \in Processes
  BY <1>1, <1>2 DEF ToSet
<1>4. ToSet(Tail(w)) = ToSet(w) \ {Head(w)}
  <2>1. ASSUME NEW x \in ToSet(Tail(w)) PROVE x \in ToSet(w) \ {Head(w)}
    <3>1. PICK i \in 1 .. Len(w) - 1 : x = w[i + 1]
      BY <1>2, <2>1 DEF ToSet
    <3>2. i + 1 \in 1 .. Len(w) /\ i + 1 # 1 /\ 1 \in 1 .. Len(w)
      BY <1>2, <3>1
    <3> QED BY <1>1, <1>2, <3>1, <3>2 DEF ToSet
  <2>2. ASSUME NEW x \in ToSet(w) \ {Head(w)} PROVE x \in ToSet(Tail(w))
    <3>1. PICK i \in 1 .. Len(w) : x = w[i] /\ i # 1
      BY <1>2, <2>2 DEF ToSet
    <3>2. i - 1 \in 1 .. Len(w) - 1 /\ (i - 1) + 1 = i
      BY <1>2, <3>1
    <3>3. x = Tail(w)[i - 1]
      BY <1>2, <3>1, <3>2
    <3> QED BY <1>2, <3>2, <3>3 DEF ToSet
  <2> QED BY <2>1, <2>2
<1>5. \A i, j \in DOMAIN Tail(w) : Tail(w)[i] = Tail(w)[j] => i = j
  <2> SUFFICES ASSUME NEW i \in 1 .. Len(w) - 1, NEW j \in 1 .. Len(w) - 1, w[i + 1] = w[j + 1] PROVE i = j
    BY <1>2
  <2>1. i + 1 \in 1 .. Len(w) /\ j + 1 \in 1 .. Len(w)
    BY <1>2
  <2>2. i + 1 = j + 1
    BY <1>1, <1>2, <2>1
  <2> QED BY <2>2
<1> QED BY <1>2, <1>3, <1>4, <1>5 DEF w

\* New processes have numbers no earlier one had.
LEMMA MoreServers ==
  ASSUME LocalTypeOK, NEW n \in Nat, CreatesServers(n)
  PROVE  LET fresh == made + 1 .. made + n IN
         /\ made' \in Nat /\ Processes' = Processes \cup fresh /\ aliveProcs' = aliveProcs \cup fresh
         /\ Processes \cap fresh = {} /\ NoServer \notin fresh
         /\ warm \in Seq(Processes')
<1>1. made \in Nat /\ made' = made + n /\ Processes' = 1 .. made + n
  BY DEF LocalTypeOK, CreatesServers, Processes
<1>2. Processes' = Processes \cup (made + 1 .. made + n)
  BY <1>1 DEF Processes
<1> QED BY <1>1, <1>2, LocalAssumption DEF LocalTypeOK, CreatesServers, Processes

\* What putting a runtime to a server changes.
LEMMA Served ==
  ASSUME LocalTypeOK, NEW r \in LocalRuntimes, NEW stage, NEW p, Puts(r, stage, p)
  PROVE  /\ local'[r] = [at |-> stage, server |-> p]
         /\ \A q \in LocalRuntimes \ {r} : local'[q] = local[q]
         /\ DOMAIN local' = LocalRuntimes
         /\ stage \in LocalSteps /\ p \in Processes' \cup {NoServer} /\ Processes \subseteq Processes' =>
              local' \in [LocalRuntimes -> [at : LocalSteps, server : Processes' \cup {NoServer}]]
  BY DEF LocalTypeOK, Puts

\* A runtime that goes on with the server it has, or takes one that nobody keeps warm.
LEMMA KeepsServer ==
  ASSUME ServersInv, NEW r \in LocalRuntimes, NEW stage \in LocalSteps, NEW p,
         Puts(r, stage, p), p \in Processes, ~(p \in ToSet(warm) \cup making),
         local[r].server \in {p, NoServer}, stage # "new",
         UNCHANGED <<warm, making, orphans, made, aliveProcs>>,
         running' \in [LocalConvs -> Processes \cup {NoServer}],
         \A s \in LocalConvs : running'[s] \in {running[s], NoServer}
  PROVE  ServersInv'
<1>1. LocalTypeOK /\ Processes' = Processes
  BY DEF ServersInv, Processes
<1>2. /\ local'[r] = [at |-> stage, server |-> p]
      /\ \A q \in LocalRuntimes \ {r} : local'[q] = local[q]
      /\ local' \in [LocalRuntimes -> [at : LocalSteps, server : Processes' \cup {NoServer}]]
  BY <1>1, Served
<1>3. LocalTypeOK'
  BY <1>1, <1>2 DEF LocalTypeOK
<1>4. WarmOnce'
  BY DEF ServersInv, WarmOnce
<1>5. \A q \in LocalRuntimes : local'[q].at = "new" => local'[q].server = NoServer
  BY <1>2 DEF ServersInv
<1>6. ASSUME NEW x \in aliveProcs' PROVE Kept(x)'
  <2>1. Kept(x) /\ x # NoServer
    BY <1>1, LocalAssumption DEF ServersInv, LocalTypeOK, Processes
  <2> QED BY <1>2, <2>1 DEF Kept
<1>7. ASSUME NEW x \in ToSet(warm') \cup making' PROVE ServesNobody(x)'
  <2>1. x \in ToSet(warm) \cup making
    BY <1>7
  <2>2. ServesNobody(x) /\ x # p /\ x \in Processes
    BY <1>1, <2>1 DEF ServersInv, LocalTypeOK, ToSet
  <2>3. x # NoServer
    BY <2>2, LocalAssumption DEF Processes
  <2> QED BY <1>2, <2>2, <2>3 DEF ServesNobody
<1> QED BY <1>3, <1>4, <1>5, <1>6, <1>7 DEF ServersInv

\* Waiting for the server that is being started.
LEMMA LocalWaits ==
  ASSUME ServersInv, NEW r \in LocalRuntimes,
         Reuses(r) \/ NeverAlive(r) \/ NothingToAttach(r) \/ ActionFindsDead(r)
  PROVE  ServersInv'
<1>0. LocalTypeOK /\ local[r] \in [at : LocalSteps, server : Processes \cup {NoServer}]
      /\ ConvOf[r] \in LocalConvs /\ running[ConvOf[r]] \in Processes \cup {NoServer}
  BY LocalAssumption DEF ServersInv, LocalTypeOK
<1>1. CASE Reuses(r)
  <2>1. running[ConvOf[r]] \in Processes /\ ~(running[ConvOf[r]] \in ToSet(warm) \cup making)
    BY <1>0, <1>1 DEF Reuses, ServersInv, ServesNobody
  <2>2. local[r].server = NoServer /\ Puts(r, "waiting", running[ConvOf[r]])
        /\ UNCHANGED <<running, warm, making, made, aliveProcs, orphans>>
    BY <1>1 DEF Reuses, ServersInv
  <2> QED BY <1>0, <2>1, <2>2, KeepsServer DEF LocalSteps, LocalTypeOK
<1>2. CASE local[r].server \in Processes /\ (NeverAlive(r) \/ ActionFindsDead(r))
  <2>1. ~(local[r].server \in ToSet(warm) \cup making)
    BY DEF ServersInv, ServesNobody
  <2>2. PICK stage \in LocalSteps \ {"new"} : Puts(r, stage, local[r].server)
    <3>1. local[r].server # NoServer
      BY <1>2, LocalAssumption DEF Processes
    <3> QED BY <1>0, <1>2, <3>1 DEF NeverAlive, ActionFindsDead, Executes, LocalSteps
  <2>3. UNCHANGED <<warm, making, made, aliveProcs, orphans>>
        /\ running' \in [LocalConvs -> Processes \cup {NoServer}]
        /\ \A s \in LocalConvs : running'[s] \in {running[s], NoServer}
    BY <1>0, <1>2 DEF NeverAlive, ActionFindsDead, LocalTypeOK
  <2> QED BY <1>0, <1>2, <2>1, <2>2, <2>3, KeepsServer
<1>3. CASE local[r].server = NoServer /\ (NeverAlive(r) \/ NothingToAttach(r))
  <2>1. PICK stage \in LocalSteps \ {"new"} : Puts(r, stage, NoServer)
    BY <1>3 DEF NeverAlive, NothingToAttach, LocalSteps
  <2>2. UNCHANGED <<running, warm, making, made, aliveProcs, orphans>> /\ Processes' = Processes
    BY <1>3 DEF NeverAlive, NothingToAttach, Processes
  <2>3. /\ local'[r] = [at |-> stage, server |-> NoServer]
        /\ \A q \in LocalRuntimes \ {r} : local'[q] = local[q]
        /\ local' \in [LocalRuntimes -> [at : LocalSteps, server : Processes' \cup {NoServer}]]
    BY <1>0, <2>1, <2>2, Served
  <2>4. \A q \in LocalRuntimes : local'[q].server = local[q].server
    BY <1>3, <2>3
  <2>5. LocalTypeOK' /\ WarmOnce'
    BY <2>2, <2>3 DEF ServersInv, LocalTypeOK, WarmOnce
  <2>6. \A x : (Kept(x) <=> Kept(x)') /\ (ServesNobody(x) <=> ServesNobody(x)')
    BY <2>2, <2>4 DEF Kept, ServesNobody
  <2>7. \A q \in LocalRuntimes : local'[q].at = "new" => local'[q].server = NoServer
    BY <2>3 DEF ServersInv
  <2> QED BY <2>2, <2>5, <2>6, <2>7 DEF ServersInv
<1>4. CASE local[r].server = NoServer /\ ActionFindsDead(r)
  <2>1. running[ConvOf[r]] \in Processes /\ ~(running[ConvOf[r]] \in ToSet(warm) \cup making)
    BY <1>0, <1>4 DEF ActionFindsDead, Executes, ServersInv, ServesNobody
  <2>2. PICK stage \in LocalSteps \ {"new"} : Puts(r, stage, running[ConvOf[r]])
    BY <1>4 DEF ActionFindsDead, Executes, LocalSteps
  <2>3. UNCHANGED <<warm, making, made, aliveProcs, orphans>>
        /\ running' \in [LocalConvs -> Processes \cup {NoServer}]
        /\ \A s \in LocalConvs : running'[s] \in {running[s], NoServer}
    BY <1>0, <1>4 DEF ActionFindsDead, LocalTypeOK
  <2> QED BY <1>0, <1>4, <2>1, <2>2, <2>3, KeepsServer
<1>5. CASE NothingToAttach(r)
  BY <1>3, <1>5 DEF NothingToAttach, ServersInv
<1> QED BY <1>0, <1>1, <1>2, <1>3, <1>4, <1>5

\* The thread that makes another warm server.
LEMMA MakesWarm ==
  ASSUME ServersInv, NEW r \in LocalRuntimes, NEW stage \in LocalSteps \ {"new"}, NEW p \in aliveProcs, NEW n \in Nat,
         Puts(r, stage, p), p = Executes(r), CreatesServers(n),
         making' = making \cup made + 1 .. made + n, UNCHANGED <<running, warm, orphans>>
  PROVE  ServersInv'
<1> DEFINE fresh == made + 1 .. made + n
<1>1. LocalTypeOK /\ p \in Processes /\ p # NoServer
  BY LocalAssumption DEF ServersInv, LocalTypeOK, Processes
<1>2. /\ made' \in Nat /\ Processes' = Processes \cup fresh /\ aliveProcs' = aliveProcs \cup fresh
      /\ Processes \cap fresh = {} /\ NoServer \notin fresh /\ warm \in Seq(Processes')
      /\ making' = making \cup fresh
  BY <1>1, MoreServers
<1> HIDE DEF fresh
<1>3. /\ local'[r] = [at |-> stage, server |-> p]
      /\ \A q \in LocalRuntimes \ {r} : local'[q] = local[q]
      /\ local' \in [LocalRuntimes -> [at : LocalSteps, server : Processes' \cup {NoServer}]]
  BY <1>1, <1>2, Served
<1>4. p \notin ToSet(warm) \cup making /\ local[r].server \in {p, NoServer}
  <2>1. p = local[r].server \/ (local[r].server = NoServer /\ p = running[ConvOf[r]] /\ ConvOf[r] \in LocalConvs)
    BY LocalAssumption DEF Executes
  <2> QED BY <2>1 DEF ServersInv, ServesNobody
<1>5. LocalTypeOK'
  BY <1>1, <1>2, <1>3 DEF LocalTypeOK
<1>6. ToSet(warm) \subseteq Processes
  BY <1>1 DEF LocalTypeOK, ToSet
<1>7. WarmOnce'
  BY <1>2, <1>6 DEF ServersInv, WarmOnce
<1>8. \A q \in LocalRuntimes : local'[q].at = "new" => local'[q].server = NoServer
  BY <1>3 DEF ServersInv
<1>9. ASSUME NEW x \in aliveProcs' PROVE Kept(x)'
  <2>1. CASE x \in fresh
    BY <1>2, <2>1 DEF Kept
  <2>2. CASE x \in aliveProcs
    <3>1. Kept(x) /\ x # NoServer
      BY <1>1, <2>2, LocalAssumption DEF ServersInv, LocalTypeOK, Processes
    <3> QED BY <1>2, <1>3, <1>4, <3>1 DEF Kept
  <2> QED BY <1>2, <2>1, <2>2
<1>10. ASSUME NEW x \in ToSet(warm') \cup making' PROVE ServesNobody(x)'
  <2>1. CASE x \in ToSet(warm) \cup making
    <3>1. ServesNobody(x) /\ x # p /\ x \in Processes
      BY <1>1, <1>4, <1>6, <2>1 DEF ServersInv, LocalTypeOK
    <3>2. x # NoServer
      BY <3>1, LocalAssumption DEF Processes
    <3> QED BY <1>3, <3>1, <3>2 DEF ServesNobody
  <2>2. CASE x \in fresh
    <3>1. x \notin Processes \cup {NoServer}
      BY <1>2, <2>2
    <3>2. /\ \A s \in LocalConvs : running[s] \in Processes \cup {NoServer}
          /\ \A q \in LocalRuntimes : local[q].server \in Processes \cup {NoServer}
      BY <1>1 DEF LocalTypeOK
    <3> QED BY <1>1, <1>3, <3>1, <3>2 DEF ServesNobody
  <2> QED BY <1>2, <1>10, <2>1, <2>2
<1> QED BY <1>5, <1>7, <1>8, <1>9, <1>10 DEF ServersInv

\* What a thread made joins the pool, or is ended.
LEMMA LocalWorks ==
  ASSUME ServersInv, NEW r \in LocalRuntimes, Connected(r) \/ ActionRuns(r)
  PROVE  ServersInv'
<1>1. MissingWarm \in Nat
  BY LocalAssumption DEF MissingWarm, ServersInv, LocalTypeOK
<1>2. CASE Connected(r)
  <2>1. local[r].server \in aliveProcs /\ local[r].server # NoServer
    <3>1. local[r].server \in aliveProcs /\ aliveProcs \subseteq 1 .. made /\ made \in Nat
      BY <1>2 DEF Connected, ServersInv, LocalTypeOK, Processes
    <3>2. \A q \in 1 .. made : q \in Nat
      BY <3>1
    <3> QED BY <3>1, <3>2, LocalAssumption
  <2>2. Executes(r) = local[r].server
    BY <2>1 DEF Executes
  <2>3. Puts(r, "ready", local[r].server) /\ CreatesServers(MissingWarm)
        /\ making' = making \cup made + 1 .. made + MissingWarm /\ UNCHANGED <<running, warm, orphans>>
    BY <1>2 DEF Connected
  <2> QED BY <1>1, <2>1, <2>2, <2>3, MakesWarm DEF LocalSteps
<1>3. CASE ActionRuns(r)
  <2>1. PICK n \in {0, 1} : CreatesServers(n) /\ making' = making \cup made + 1 .. made + n
    BY <1>3 DEF ActionRuns
  <2>2. PICK stage \in {"ready", "closed"} : Puts(r, stage, Executes(r))
    BY <1>3 DEF ActionRuns
  <2>3. Executes(r) \in aliveProcs /\ UNCHANGED <<running, warm, orphans>>
    BY <1>3 DEF ActionRuns
  <2> QED BY <2>1, <2>2, <2>3, MakesWarm DEF LocalSteps
<1> QED BY <1>2, <1>3

\* Taking a server from the pool.
LEMMA LocalTakesWarm ==
  ASSUME ServersInv, NEW r \in LocalRuntimes, TakesWarm(r)
  PROVE  ServersInv'
<1>1. LocalTypeOK /\ WarmOnce /\ ConvOf[r] \in LocalConvs /\ Processes' = Processes
  BY LocalAssumption DEF ServersInv, TakesWarm, Processes
<1>2. PICK p : p = Head(warm)
  OBVIOUS
<1>3. /\ p \in ToSet(warm) /\ p \in Processes /\ Tail(warm) \in Seq(Processes)
      /\ ToSet(Tail(warm)) = ToSet(warm) \ {p}
      /\ \A i, j \in DOMAIN Tail(warm) : Tail(warm)[i] = Tail(warm)[j] => i = j
  BY <1>1, <1>2, TakenWarm DEF TakesWarm
<1>4. /\ warm' = Tail(warm) /\ running' = [running EXCEPT ![ConvOf[r]] = p] /\ Puts(r, "waiting", p)
      /\ UNCHANGED <<making, made, aliveProcs, orphans>> /\ local[r].at = "new" /\ r \notin Attached
  BY <1>2 DEF TakesWarm, Starts
<1>5. /\ local'[r] = [at |-> "waiting", server |-> p]
      /\ \A q \in LocalRuntimes \ {r} : local'[q] = local[q]
      /\ local' \in [LocalRuntimes -> [at : LocalSteps, server : Processes' \cup {NoServer}]]
  BY <1>1, <1>3, <1>4, Served DEF LocalSteps
<1>6. ToSet(warm') = ToSet(warm) \ {p}
  BY <1>3, <1>4
<1>7. LocalTypeOK'
  BY <1>1, <1>3, <1>4, <1>5 DEF LocalTypeOK
<1>8. WarmOnce'
  BY <1>1, <1>3, <1>4, <1>6 DEF WarmOnce
<1>9. \A q \in LocalRuntimes : local'[q].at = "new" => local'[q].server = NoServer
  BY <1>5 DEF ServersInv
<1>10. ASSUME NEW x \in aliveProcs' PROVE Kept(x)'
  <2>1. Kept(x) /\ x # NoServer /\ local[r].server = NoServer
    BY <1>1, <1>4, LocalAssumption DEF ServersInv, LocalTypeOK, Processes
  <2> QED BY <1>4, <1>5, <1>6, <2>1 DEF Kept
<1>11. ASSUME NEW x \in ToSet(warm') \cup making' PROVE ServesNobody(x)'
  <2>1. x \in ToSet(warm) \cup making /\ x # p
    BY <1>1, <1>3, <1>4, <1>6, <1>11 DEF WarmOnce
  <2>2. ServesNobody(x)
    BY <2>1 DEF ServersInv
  <2> QED BY <1>1, <1>4, <1>5, <2>1, <2>2 DEF ServesNobody, LocalTypeOK
<1> QED BY <1>7, <1>8, <1>9, <1>10, <1>11 DEF ServersInv

\* Starting a server for a conversation.
LEMMA LocalStartsServer ==
  ASSUME ServersInv, NEW r \in LocalRuntimes, StartsServer(r)
  PROVE  ServersInv'
<1>1. LocalTypeOK /\ WarmOnce /\ ConvOf[r] \in LocalConvs
  BY LocalAssumption DEF ServersInv
<1>2. PICK p : p = made + 1
  OBVIOUS
<1>3. /\ made' \in Nat /\ Processes' = Processes \cup {p} /\ aliveProcs' = aliveProcs \cup {p}
      /\ p \notin Processes /\ p # NoServer /\ warm \in Seq(Processes')
  <2>1. made + 1 .. made + 1 = {p} /\ p \in Nat
    BY <1>1, <1>2 DEF LocalTypeOK
  <2> QED BY <1>1, <2>1, MoreServers DEF StartsServer
<1>4. /\ running' = [running EXCEPT ![ConvOf[r]] = p] /\ Puts(r, "waiting", p)
      /\ UNCHANGED making /\ local[r].at = "new" /\ r \notin Attached
  BY <1>2 DEF StartsServer, Starts
<1>5. /\ local'[r] = [at |-> "waiting", server |-> p]
      /\ \A q \in LocalRuntimes \ {r} : local'[q] = local[q]
      /\ local' \in [LocalRuntimes -> [at : LocalSteps, server : Processes' \cup {NoServer}]]
  BY <1>1, <1>3, <1>4, Served DEF LocalSteps
<1>6. /\ warm' \in Seq(Processes') /\ ToSet(warm') \subseteq ToSet(warm) /\ orphans \subseteq orphans'
      /\ ToSet(warm) \subseteq ToSet(warm') \cup orphans'
      /\ \A i, j \in DOMAIN warm' : warm'[i] = warm'[j] => i = j
  <2>1. CASE warm = <<>>
    BY <1>1, <1>3, <2>1 DEF StartsServer, WarmOnce
  <2>2. CASE warm # <<>>
    <3>1. /\ Tail(warm) \in Seq(Processes)
          /\ ToSet(Tail(warm)) = ToSet(warm) \ {Head(warm)}
          /\ \A i, j \in DOMAIN Tail(warm) : Tail(warm)[i] = Tail(warm)[j] => i = j
      BY <1>1, <2>2, TakenWarm
    <3>2. warm' = Tail(warm) /\ orphans' = orphans \cup {Head(warm)}
      BY <2>2 DEF StartsServer
    <3>3. Tail(warm) \in Seq(Processes')
      BY <1>3, <3>1
    <3> QED BY <3>1, <3>2, <3>3
  <2> QED BY <2>1, <2>2
<1>7. ToSet(warm) \subseteq Processes
  BY <1>1 DEF LocalTypeOK, ToSet
<1>8. LocalTypeOK'
  BY <1>1, <1>3, <1>4, <1>5, <1>6 DEF LocalTypeOK
<1>9. WarmOnce'
  BY <1>1, <1>4, <1>6 DEF WarmOnce
<1>10. \A q \in LocalRuntimes : local'[q].at = "new" => local'[q].server = NoServer
  BY <1>5 DEF ServersInv
<1>11. ASSUME NEW x \in aliveProcs' PROVE Kept(x)'
  <2>1. CASE x = p
    BY <1>4, <1>5, <2>1 DEF Kept
  <2>2. CASE x \in aliveProcs
    <3>1. Kept(x) /\ x # NoServer /\ local[r].server = NoServer
      BY <1>1, <1>4, <2>2, LocalAssumption DEF ServersInv, LocalTypeOK, Processes
    <3> QED BY <1>4, <1>5, <1>6, <3>1 DEF Kept
  <2> QED BY <1>3, <2>1, <2>2
<1>12. ASSUME NEW x \in ToSet(warm') \cup making' PROVE ServesNobody(x)'
  <2>1. x \in ToSet(warm) \cup making /\ x # p
    BY <1>1, <1>3, <1>4, <1>6, <1>7, <1>12 DEF LocalTypeOK
  <2>2. ServesNobody(x)
    BY <2>1 DEF ServersInv
  <2> QED BY <1>1, <1>4, <1>5, <2>1, <2>2 DEF ServesNobody, LocalTypeOK
<1> QED BY <1>8, <1>9, <1>10, <1>11, <1>12 DEF ServersInv

\* A process that ends by itself.
LEMMA LocalProcessSteps ==
  ASSUME ServersInv, NEW p \in 1 .. made, WarmReady(p) \/ WarmFails(p) \/ ServerDies(p)
  PROVE  ServersInv'
<1>1. LocalTypeOK /\ WarmOnce /\ UNCHANGED <<running, made, local, orphans>> /\ Processes' = Processes /\ p \in Processes
  BY DEF ServersInv, WarmReady, WarmFails, ServerDies, Processes
<1>2. /\ warm' \in Seq(Processes) /\ making' \subseteq making /\ aliveProcs' \subseteq aliveProcs
      /\ ToSet(warm') \cup making' \subseteq ToSet(warm) \cup making
      /\ (ToSet(warm) \cup making) \cap aliveProcs' \subseteq ToSet(warm') \cup making'
      /\ WarmOnce'
  <2>1. CASE WarmReady(p)
    <3> DEFINE w == warm
               a == Append(w, p)
    <3>1. w \in Seq(Processes) /\ (\A i, j \in DOMAIN w : w[i] = w[j] => i = j) /\ p \notin ToSet(w)
      BY <1>1, <2>1 DEF LocalTypeOK, WarmOnce, WarmReady
    <3>2. warm' = a /\ making' = making \ {p} /\ aliveProcs' = aliveProcs /\ p \in making /\ ToSet(w) \cap making = {}
      BY <1>1, <2>1 DEF WarmReady, WarmOnce
    <3> HIDE DEF w
    <3>3. /\ a \in Seq(Processes) /\ Len(w) \in Nat /\ DOMAIN a = 1 .. Len(w) + 1 /\ DOMAIN w = 1 .. Len(w)
          /\ (\A i \in 1 .. Len(w) : a[i] = w[i]) /\ a[Len(w) + 1] = p
      BY <1>1, <3>1
    <3> HIDE DEF a
    <3>4. ToSet(a) = ToSet(w) \cup {p}
      <4>1. ASSUME NEW x \in ToSet(a) PROVE x \in ToSet(w) \cup {p}
        BY <3>3, <4>1 DEF ToSet
      <4>2. ASSUME NEW x \in ToSet(w) PROVE x \in ToSet(a)
        <5>1. PICK i \in 1 .. Len(w) : x = w[i]
          BY <3>3, <4>2 DEF ToSet
        <5>2. i \in 1 .. Len(w) + 1 /\ x = a[i]
          BY <3>3, <5>1
        <5> QED BY <3>3, <5>2 DEF ToSet
      <4>3. p \in ToSet(a)
        <5>1. Len(w) + 1 \in 1 .. Len(w) + 1
          BY <3>3
        <5> QED BY <3>3, <5>1 DEF ToSet
      <4> QED BY <4>1, <4>2, <4>3
    <3>5. \A i \in 1 .. Len(w) : w[i] # p
      BY <3>1, <3>3 DEF ToSet
    <3>6. \A i, j \in DOMAIN a : a[i] = a[j] => i = j
      BY <3>1, <3>3, <3>5
    <3> QED BY <1>1, <3>2, <3>3, <3>4, <3>6 DEF WarmOnce, w
  <2>2. CASE WarmFails(p) \/ ServerDies(p)
    BY <1>1, <2>2 DEF WarmFails, ServerDies, WarmOnce, LocalTypeOK
  <2> QED BY <2>1, <2>2
<1>3. LocalTypeOK'
  BY <1>1, <1>2 DEF LocalTypeOK
<1>4. \A x \in aliveProcs' : Kept(x)'
  BY <1>1, <1>2 DEF ServersInv, Kept
<1>5. \A x \in ToSet(warm') \cup making' : ServesNobody(x)'
  BY <1>1, <1>2 DEF ServersInv, ServesNobody
<1> QED BY <1>1, <1>2, <1>3, <1>4, <1>5 DEF ServersInv

\* Closing a runtime.
LEMMA LocalCloses ==
  ASSUME ServersInv, NEW r \in LocalRuntimes, ClosesLocal(r)
  PROVE  ServersInv'
<1>1. LocalTypeOK /\ UNCHANGED <<warm, making, made, orphans>> /\ Processes' = Processes /\ ConvOf[r] \in LocalConvs
  BY LocalAssumption DEF ServersInv, ClosesLocal, Processes
<1>2. PICK stage \in {"closed", "gone"} : Puts(r, stage, NoServer)
  BY DEF ClosesLocal
<1>3. /\ local'[r] = [at |-> stage, server |-> NoServer]
      /\ \A q \in LocalRuntimes \ {r} : local'[q] = local[q]
      /\ local' \in [LocalRuntimes -> [at : LocalSteps, server : Processes' \cup {NoServer}]]
  BY <1>1, <1>2, Served DEF LocalSteps
<1>4. /\ running' \in [LocalConvs -> Processes \cup {NoServer}]
      /\ \A s \in LocalConvs : running'[s] \in {running[s], NoServer}
      /\ aliveProcs' \subseteq aliveProcs /\ (r \notin Attached => local[r].server \notin aliveProcs')
  BY <1>1 DEF ClosesLocal, LocalTypeOK
<1>5. LocalTypeOK' /\ WarmOnce'
  BY <1>1, <1>3, <1>4 DEF ServersInv, LocalTypeOK, WarmOnce
<1>6. \A q \in LocalRuntimes : local'[q].at = "new" => local'[q].server = NoServer
  BY <1>3 DEF ServersInv
<1>7. \A x \in aliveProcs' : Kept(x)'
  BY <1>1, <1>3, <1>4 DEF ServersInv, Kept
<1>8. ASSUME NEW x \in ToSet(warm') \cup making' PROVE ServesNobody(x)'
  <2>1. ServesNobody(x) /\ x \in Processes
    BY <1>1, <1>8 DEF ServersInv, LocalTypeOK, ToSet
  <2>2. x # NoServer
    BY <2>1, LocalAssumption DEF Processes
  <2> QED BY <1>3, <1>4, <2>1, <2>2 DEF ServesNobody
<1> QED BY <1>5, <1>6, <1>7, <1>8 DEF ServersInv

\* Deleting a conversation ends its server.
LEMMA LocalDeletes ==
  ASSUME ServersInv, NEW s \in LocalConvs, DeletesLocal(s)
  PROVE  ServersInv'
<1>1. LocalTypeOK /\ WarmOnce /\ UNCHANGED <<making, made, local, orphans>> /\ Processes' = Processes
      /\ running' = [running EXCEPT ![s] = NoServer]
  BY DEF ServersInv, DeletesLocal, Processes
<1>2. /\ running' \in [LocalConvs -> Processes \cup {NoServer}]
      /\ \A t \in LocalConvs : running'[t] \in {running[t], NoServer}
  BY <1>1 DEF LocalTypeOK
<1>3. PICK last \in BOOLEAN :
        /\ aliveProcs' = aliveProcs \ ({running[s]} \cup (IF last THEN ToSet(warm) ELSE {}))
        /\ warm' = IF last THEN <<>> ELSE warm
  BY DEF DeletesLocal
<1>4. /\ aliveProcs' \subseteq aliveProcs /\ ToSet(warm') \subseteq ToSet(warm) /\ warm' \in Seq(Processes)
      /\ ToSet(warm) \cap aliveProcs' \subseteq ToSet(warm') /\ WarmOnce'
  <2>1. CASE last
    <3>1. warm' = <<>> /\ ToSet(<<>>) = {} /\ DOMAIN <<>> = {}
      BY <1>3, <2>1 DEF ToSet
    <3> QED BY <1>1, <1>3, <2>1, <3>1 DEF WarmOnce
  <2>2. CASE ~last
    BY <1>1, <1>3, <2>2 DEF LocalTypeOK, WarmOnce
  <2> QED BY <2>1, <2>2
<1>5. LocalTypeOK'
  BY <1>1, <1>2, <1>4 DEF LocalTypeOK
<1>6. \A x \in aliveProcs' : Kept(x)'
  BY <1>1, <1>4 DEF ServersInv, Kept
<1>7. ASSUME NEW x \in ToSet(warm') \cup making' PROVE ServesNobody(x)'
  <2>1. ServesNobody(x) /\ x \in Processes
    <3>1. x \in ToSet(warm) \cup making
      BY <1>1, <1>4, <1>7
    <3> QED BY <1>1, <3>1 DEF ServersInv, LocalTypeOK, ToSet
  <2>2. x # NoServer
    BY <2>1, LocalAssumption DEF Processes
  <2> QED BY <1>1, <1>2, <2>1, <2>2 DEF ServesNobody
<1> QED BY <1>1, <1>4, <1>5, <1>6, <1>7 DEF ServersInv

\* Every step of the local part keeps the invariant.
LEMMA LocalServerSteps == ServersInv /\ LocalNext => ServersInv'
<1> SUFFICES ASSUME ServersInv, LocalNext PROVE ServersInv'
  OBVIOUS
<1> QED BY LocalWaits, LocalTakesWarm, LocalStartsServer, LocalWorks, LocalCloses, LocalProcessSteps, LocalDeletes DEF LocalNext

\* So does a step of another part.
LEMMA LocalFrame == ServersInv /\ UNCHANGED localVars => ServersInv'
  BY DEF ServersInv, localVars, LocalTypeOK, Processes, WarmOnce, Kept, ServesNobody

\* The invariant gives what the run checks.
LEMMA NoServerForgotten == ServersInv => ServersAccounted
  BY DEF ServersInv, ServersAccounted, Kept, ServesNobody

-----------------------------------------------------------------------------
(* RemoteRuntime: somebody will put every sandbox that runs to rest.         *)

\* What a runtime behind the API is at.
RemoteSteps == {"new", "start", "resume", "wait", "ready", "failing", "gone"}

\* The kinds of values of the remote part.
RemoteTypeOK ==
  /\ onClose \in {"stopped", "kept", "paused"}
  /\ boxes \in Seq({"running", "paused", "stopped"})
  /\ remote \in [Remotes -> [at : RemoteSteps, id : DOMAIN boxes \cup {NoBoxId}, closed : BOOLEAN]]

\* Who will put a sandbox to rest.
Claims(r, b) == remote[r].id = b /\ ~Careless(r) /\ remote[r].at # "gone"

\* A running sandbox is excused or claimed.
Accounted(b) == boxes[b] = "running" /\ onClose # "kept" => b \in excused \/ \E r \in Remotes : Claims(r, b)

\* The inductive invariant of the remote part: a runtime that has not begun has no sandbox,
\* one that starts another has none but an excused one, and every running sandbox is
\* accounted for.
RemoteInv ==
  /\ RemoteTypeOK
  /\ \A r \in Remotes :
        /\ remote[r].at = "new" => remote[r].id = NoBoxId
        /\ remote[r].at = "start" => remote[r].id = NoBoxId \/ remote[r].id \in excused
  /\ \A b \in DOMAIN boxes : Accounted(b)

\* At first there is no sandbox.
LEMMA RemoteStarts == RemoteInit => RemoteInv
<1> SUFFICES ASSUME RemoteInit PROVE RemoteInv
  OBVIOUS
<1>1. boxes = <<>> /\ DOMAIN <<>> = {} /\ <<>> \in Seq({"running", "paused", "stopped"})
  BY DEF RemoteInit
<1> QED BY <1>1 DEF RemoteInit, RemoteInv, RemoteTypeOK, RemoteSteps

\* What one runtime changes, as far as the others' sandboxes go.
LEMMA RemoteStepKeeps ==
  ASSUME RemoteInv, RemoteTypeOK', NEW r \in Remotes, UNCHANGED onClose,
         remote' = [remote EXCEPT ![r] = remote'[r]],
         DOMAIN boxes \subseteq DOMAIN boxes', excused \subseteq excused',
         remote'[r].at = "new" => remote'[r].id = NoBoxId,
         remote'[r].at = "start" => remote'[r].id = NoBoxId \/ remote'[r].id \in excused',
         \A b \in DOMAIN boxes' :
            \/ b \in excused' \/ Claims(r, b)' \/ boxes'[b] # "running" \/ onClose = "kept"
            \/ b \in DOMAIN boxes /\ boxes[b] = "running" /\ ~Claims(r, b)
  PROVE  RemoteInv'
<1>1. remote'[r] = remote'[r] /\ \A q \in Remotes \ {r} : remote'[q] = remote[q]
  BY DEF RemoteInv, RemoteTypeOK
<1>2. \A q \in Remotes :
        /\ remote'[q].at = "new" => remote'[q].id = NoBoxId
        /\ remote'[q].at = "start" => remote'[q].id = NoBoxId \/ remote'[q].id \in excused'
  <2> SUFFICES ASSUME NEW q \in Remotes \ {r}
               PROVE  /\ remote'[q].at = "new" => remote'[q].id = NoBoxId
                      /\ remote'[q].at = "start" => remote'[q].id = NoBoxId \/ remote'[q].id \in excused'
    OBVIOUS
  <2> QED BY <1>1 DEF RemoteInv
<1>3. ASSUME NEW b \in DOMAIN boxes' PROVE Accounted(b)'
  <2> SUFFICES ASSUME b \in DOMAIN boxes, boxes[b] = "running", onClose # "kept", b \notin excused, ~Claims(r, b)
               PROVE  \E q \in Remotes : Claims(q, b)'
    BY DEF Accounted
  <2>1. PICK q \in Remotes \ {r} : Claims(q, b)
    BY DEF RemoteInv, Accounted
  <2> QED BY <1>1, <2>1 DEF Claims, Careless
<1> QED BY <1>2, <1>3 DEF RemoteInv

\* Setting one sandbox leaves the others.
LEMMA SetsBox ==
  ASSUME RemoteTypeOK, NEW id \in DOMAIN boxes, NEW state \in {"running", "paused", "stopped"}
  PROVE  /\ [boxes EXCEPT ![id] = state] \in Seq({"running", "paused", "stopped"})
         /\ DOMAIN [boxes EXCEPT ![id] = state] = DOMAIN boxes
         /\ [boxes EXCEPT ![id] = state][id] = state
         /\ \A b \in DOMAIN boxes \ {id} : [boxes EXCEPT ![id] = state][b] = boxes[b]
  BY DEF RemoteTypeOK

\* What a call leaves: the box as asked, or as it was or asked and excused.
LEMMA Called ==
  ASSUME RemoteTypeOK, NEW r \in Remotes, NEW state \in {"running", "paused", "stopped"}, NEW failed \in BOOLEAN,
         Call(r, state, failed)
  PROVE  /\ boxes' \in Seq({"running", "paused", "stopped"}) /\ DOMAIN boxes' = DOMAIN boxes /\ excused \subseteq excused'
         /\ \A b \in DOMAIN boxes \ {remote[r].id} : boxes'[b] = boxes[b]
         /\ failed => remote[r].id = NoBoxId \/ remote[r].id \in excused'
         /\ ~failed => /\ remote[r].id \in DOMAIN boxes /\ boxes'[remote[r].id] = state
                       /\ state = "running" /\ Careless(r) => remote[r].id \in excused'
<1>0. remote[r].id \in DOMAIN boxes \cup {NoBoxId} /\ NoBoxId \notin DOMAIN boxes
  BY RemoteAssumption DEF RemoteTypeOK
<1>1. CASE remote[r].id = NoBoxId
  BY <1>0, <1>1 DEF Call, RemoteTypeOK
<1>2. CASE remote[r].id # NoBoxId
  <2>1. PICK id \in DOMAIN boxes : id = remote[r].id
    BY <1>0, <1>2
  <2>2. PICK other : other = [boxes EXCEPT ![id] = state]
    OBVIOUS
  <2>3. /\ other \in Seq({"running", "paused", "stopped"}) /\ DOMAIN other = DOMAIN boxes
        /\ other[id] = state /\ \A b \in DOMAIN boxes \ {id} : other[b] = boxes[b]
    BY <2>2, SetsBox
  <2>4. CASE failed
    <3>1. boxes' \in {boxes, other} /\ excused' = excused \cup {id}
      BY <1>2, <2>1, <2>2, <2>4 DEF Call
    <3> QED BY <2>1, <2>3, <2>4, <3>1 DEF RemoteTypeOK
  <2>5. CASE ~failed
    <3>1. boxes' = other /\ excused' = IF state = "running" /\ Careless(r) THEN excused \cup {id} ELSE excused
      BY <1>2, <2>1, <2>2, <2>5 DEF Call
    <3> QED BY <2>1, <2>3, <2>5, <3>1
  <2> QED BY <2>4, <2>5
<1> QED BY <1>1, <1>2

\* What a runtime keeps when it goes to another step.
LEMMA AtStep ==
  ASSUME RemoteTypeOK, NEW r \in Remotes, NEW stage \in RemoteSteps, At(r, stage)
  PROVE  /\ remote' = [remote EXCEPT ![r] = remote'[r]] /\ remote'[r].at = stage
         /\ remote'[r].id = remote[r].id /\ remote'[r].closed = remote[r].closed
         /\ remote' \in [Remotes -> [at : RemoteSteps, id : DOMAIN boxes \cup {NoBoxId}, closed : BOOLEAN]]
  BY DEF RemoteTypeOK, At

\* The records of runtimes under the two edits the steps make.
LEMMA RemoteEdits ==
  ASSUME NEW A, NEW I, NEW C, NEW e \in [at : A, id : I, closed : C],
         NEW stage \in A, NEW id, NEW closed \in C, NEW J, I \subseteq J, id \in J
  PROVE  /\ [e EXCEPT !.id = id, !.at = stage] \in [at : A, id : J, closed : C]
         /\ [e EXCEPT !.id = id, !.at = stage].id = id
         /\ [e EXCEPT !.id = id, !.at = stage].at = stage
         /\ [e EXCEPT !.id = id, !.at = stage].closed = e.closed
         /\ [e EXCEPT !.at = stage, !.closed = closed] \in [at : A, id : I, closed : C]
         /\ [e EXCEPT !.at = stage, !.closed = closed].at = stage
         /\ [e EXCEPT !.at = stage, !.closed = closed].id = e.id
         /\ [e EXCEPT !.at = stage, !.closed = closed].closed = closed
<1>1. e \in [at : A, id : J, closed : C]
  OBVIOUS
<1> QED BY <1>1

\* What a runtime keeps when it is given a sandbox.
LEMMA GivesBox ==
  ASSUME RemoteTypeOK, NEW r \in Remotes, NEW stage \in RemoteSteps, NEW J, DOMAIN boxes \subseteq J, NEW id \in J,
         remote' = [remote EXCEPT ![r] = [@ EXCEPT !.id = id, !.at = stage]]
  PROVE  /\ remote' = [remote EXCEPT ![r] = remote'[r]]
         /\ remote'[r].at = stage /\ remote'[r].id = id /\ remote'[r].closed = remote[r].closed
         /\ remote' \in [Remotes -> [at : RemoteSteps, id : J \cup {NoBoxId}, closed : BOOLEAN]]
<1>1. remote[r] \in [at : RemoteSteps, id : DOMAIN boxes \cup {NoBoxId}, closed : BOOLEAN]
  BY DEF RemoteTypeOK
<1>2. PICK e : e = [remote[r] EXCEPT !.id = id, !.at = stage]
  OBVIOUS
<1>3. /\ e.at = stage /\ e.id = id /\ e.closed = remote[r].closed
      /\ e \in [at : RemoteSteps, id : J \cup {NoBoxId}, closed : BOOLEAN]
  <2>1. DOMAIN boxes \cup {NoBoxId} \subseteq J \cup {NoBoxId} /\ id \in J \cup {NoBoxId} /\ TRUE \in BOOLEAN
    OBVIOUS
  <2> QED BY <1>1, <1>2, <2>1, RemoteEdits
<1>4. remote' = [remote EXCEPT ![r] = e]
  BY <1>2
<1>5. remote \in [Remotes -> [at : RemoteSteps, id : J \cup {NoBoxId}, closed : BOOLEAN]]
  BY DEF RemoteTypeOK
<1> QED BY <1>3, <1>4, <1>5

\* Looking for the sandbox of the session.
LEMMA RemoteLooks ==
  ASSUME RemoteInv, NEW r \in Remotes,
         FindsNone(r) \/ FindsOne(r) \/ LookUpFails(r) \/ BecomesReady(r) \/ NeverReady(r)
  PROVE  RemoteInv'
<1>1. RemoteTypeOK /\ UNCHANGED <<onClose, boxes, excused>>
  BY DEF RemoteInv, FindsNone, FindsOne, LookUpFails, BecomesReady, NeverReady
<1>2. CASE FindsOne(r)
  <2>1. PICK stage \in {"wait", "resume"} : remote' = [remote EXCEPT ![r] = [@ EXCEPT !.id = current, !.at = stage]]
    BY <1>2 DEF FindsOne
  <2>2. current \in DOMAIN boxes /\ remote[r].id = NoBoxId
    BY <1>2 DEF FindsOne, Usable, RemoteInv
  <2>3. /\ remote' = [remote EXCEPT ![r] = remote'[r]]
        /\ remote'[r].at = stage /\ remote'[r].id = current
        /\ remote' \in [Remotes -> [at : RemoteSteps, id : DOMAIN boxes \cup {NoBoxId}, closed : BOOLEAN]]
    <3>1. stage \in RemoteSteps /\ DOMAIN boxes \subseteq DOMAIN boxes
      BY DEF RemoteSteps
    <3> QED BY <1>1, <2>1, <2>2, <3>1, GivesBox
  <2>4. RemoteTypeOK'
    BY <1>1, <2>3 DEF RemoteTypeOK
  <2>5. \A b \in DOMAIN boxes : ~Claims(r, b)
    BY <2>2, RemoteAssumption, <1>1 DEF Claims, RemoteTypeOK
  <2> QED BY <1>1, <2>3, <2>4, <2>5, RemoteStepKeeps
<1>3. CASE ~FindsOne(r)
  <2>1. PICK stage \in {"failing", "start", "ready"} : At(r, stage) /\ (stage = "start" => remote[r].at = "new") /\ remote[r].at # "gone"
    BY <1>3 DEF FindsNone, LookUpFails, BecomesReady, NeverReady
  <2>2. /\ remote' = [remote EXCEPT ![r] = remote'[r]] /\ remote'[r].at = stage
        /\ remote'[r].id = remote[r].id /\ remote'[r].closed = remote[r].closed
        /\ remote' \in [Remotes -> [at : RemoteSteps, id : DOMAIN boxes \cup {NoBoxId}, closed : BOOLEAN]]
    BY <1>1, <2>1, AtStep DEF RemoteSteps
  <2>3. RemoteTypeOK'
    BY <1>1, <2>2 DEF RemoteTypeOK
  <2>4. \A b \in DOMAIN boxes : Claims(r, b) => Claims(r, b)'
    BY <2>1, <2>2 DEF Claims, Careless
  <2>5. stage = "start" => remote[r].id = NoBoxId
    BY <2>1 DEF RemoteInv
  <2> QED
    <3>1. \A b \in DOMAIN boxes' :
            \/ b \in excused' \/ Claims(r, b)' \/ boxes'[b] # "running" \/ onClose = "kept"
            \/ b \in DOMAIN boxes /\ boxes[b] = "running" /\ ~Claims(r, b)
      BY <1>1, <2>4
    <3> QED BY <1>1, <2>1, <2>2, <2>3, <2>5, <3>1, RemoteStepKeeps
<1> QED BY <1>2, <1>3

\* Starting a sandbox, an answer that gets lost included.
LEMMA RemotePosts ==
  ASSUME RemoteInv, NEW r \in Remotes, PostsStart(r)
  PROVE  RemoteInv'
<1>1. RemoteTypeOK /\ UNCHANGED onClose /\ remote[r].at = "start"
  BY DEF RemoteInv, PostsStart
<1>2. PICK n : n = Len(boxes) + 1
  OBVIOUS
<1>3. /\ boxes' \in Seq({"running", "paused", "stopped"}) /\ n \in Nat
      /\ DOMAIN boxes' = DOMAIN boxes \cup {n} /\ n \notin DOMAIN boxes
      /\ \A b \in DOMAIN boxes : boxes'[b] = boxes[b]
  <2> DEFINE w == boxes
             a == Append(w, "running")
  <2>1. w \in Seq({"running", "paused", "stopped"}) /\ n = Len(w) + 1 /\ boxes' = a
    BY <1>1, <1>2 DEF RemoteTypeOK, PostsStart
  <2> HIDE DEF w
  <2>2. /\ a \in Seq({"running", "paused", "stopped"}) /\ DOMAIN a = 1 .. Len(w) + 1 /\ DOMAIN w = 1 .. Len(w)
        /\ Len(w) \in Nat /\ \A b \in 1 .. Len(w) : a[b] = w[b]
    BY <2>1
  <2> HIDE DEF a
  <2>3. 1 .. Len(w) + 1 = (1 .. Len(w)) \cup {Len(w) + 1}
    BY <2>2
  <2> QED BY <2>1, <2>2, <2>3 DEF w
<1>4. remote[r].id = NoBoxId \/ remote[r].id \in excused
  BY <1>1 DEF RemoteInv
<1>5. \A b \in DOMAIN boxes : Claims(r, b) => b \in excused
  BY <1>1, <1>4, RemoteAssumption DEF Claims, RemoteTypeOK
<1>6. CASE /\ remote' = [remote EXCEPT ![r] = [@ EXCEPT !.id = Len(boxes) + 1, !.at = "wait"]]
           /\ excused' = IF Careless(r) THEN excused \cup {Len(boxes) + 1} ELSE excused
  <2>1. /\ remote' = [remote EXCEPT ![r] = remote'[r]]
        /\ remote'[r].at = "wait" /\ remote'[r].id = n /\ remote'[r].closed = remote[r].closed
        /\ remote' \in [Remotes -> [at : RemoteSteps, id : DOMAIN boxes' \cup {NoBoxId}, closed : BOOLEAN]]
    <3>1. "wait" \in RemoteSteps /\ DOMAIN boxes \subseteq DOMAIN boxes' /\ n \in DOMAIN boxes'
      BY <1>3 DEF RemoteSteps
    <3>2. remote' = [remote EXCEPT ![r] = [@ EXCEPT !.id = n, !.at = "wait"]]
      BY <1>2, <1>6
    <3> QED BY <1>1, <3>1, <3>2, GivesBox
  <2>2. RemoteTypeOK'
    BY <1>1, <1>3, <2>1 DEF RemoteTypeOK
  <2>3. n \in excused' \/ Claims(r, n)'
    BY <1>1, <1>2, <1>6, <2>1 DEF Claims, Careless
  <2>4. \A b \in DOMAIN boxes' :
            \/ b \in excused' \/ Claims(r, b)' \/ boxes'[b] # "running" \/ onClose = "kept"
            \/ b \in DOMAIN boxes /\ boxes[b] = "running" /\ ~Claims(r, b)
    BY <1>3, <1>5, <1>6, <2>3
  <2>5. excused \subseteq excused' /\ DOMAIN boxes \subseteq DOMAIN boxes'
    BY <1>3, <1>6
  <2> QED BY <1>1, <2>1, <2>2, <2>4, <2>5, RemoteStepKeeps
<1>7. CASE At(r, "failing") /\ excused' = excused \cup {Len(boxes) + 1}
  <2>1. /\ remote' = [remote EXCEPT ![r] = remote'[r]] /\ remote'[r].at = "failing"
        /\ remote'[r].id = remote[r].id /\ remote'[r].closed = remote[r].closed
        /\ remote' \in [Remotes -> [at : RemoteSteps, id : DOMAIN boxes \cup {NoBoxId}, closed : BOOLEAN]]
    BY <1>1, <1>7, AtStep DEF RemoteSteps
  <2>2. RemoteTypeOK'
    BY <1>1, <1>3, <2>1 DEF RemoteTypeOK
  <2>3. \A b \in DOMAIN boxes' :
            \/ b \in excused' \/ Claims(r, b)' \/ boxes'[b] # "running" \/ onClose = "kept"
            \/ b \in DOMAIN boxes /\ boxes[b] = "running" /\ ~Claims(r, b)
    BY <1>2, <1>3, <1>5, <1>7
  <2>4. excused \subseteq excused' /\ DOMAIN boxes \subseteq DOMAIN boxes'
    BY <1>3, <1>7
  <2> QED BY <1>1, <2>1, <2>2, <2>3, <2>4, RemoteStepKeeps
<1> QED BY <1>6, <1>7 DEF PostsStart

\* Resuming a sandbox.
LEMMA RemoteResumes ==
  ASSUME RemoteInv, NEW r \in Remotes, PostsResume(r) \/ ResumesForRequest(r)
  PROVE  RemoteInv'
<1>1. RemoteTypeOK /\ UNCHANGED onClose /\ remote[r].at # "gone"
  BY DEF RemoteInv, PostsResume, ResumesForRequest
<1>2. PICK failed \in BOOLEAN :
         /\ Call(r, "running", failed)
         /\ \/ At(r, IF ~failed THEN "wait" ELSE IF r \in AttachedRemotes THEN "failing" ELSE "start")
            \/ UNCHANGED remote /\ remote[r].at = "ready"
  BY DEF PostsResume, ResumesForRequest
<1>3. /\ boxes' \in Seq({"running", "paused", "stopped"}) /\ DOMAIN boxes' = DOMAIN boxes /\ excused \subseteq excused'
      /\ \A b \in DOMAIN boxes \ {remote[r].id} : boxes'[b] = boxes[b]
      /\ failed => remote[r].id = NoBoxId \/ remote[r].id \in excused'
      /\ ~failed => /\ remote[r].id \in DOMAIN boxes /\ boxes'[remote[r].id] = "running"
                    /\ Careless(r) => remote[r].id \in excused'
  BY <1>1, <1>2, Called
<1>4. PICK stage \in {"wait", "failing", "start", "ready"} :
        /\ remote' = [remote EXCEPT ![r] = remote'[r]] /\ remote'[r].at = stage
        /\ remote'[r].id = remote[r].id /\ remote'[r].closed = remote[r].closed
        /\ remote' \in [Remotes -> [at : RemoteSteps, id : DOMAIN boxes \cup {NoBoxId}, closed : BOOLEAN]]
        /\ (stage = "start" => failed)
  <2>1. CASE UNCHANGED remote /\ remote[r].at = "ready"
    BY <1>1, <2>1 DEF RemoteTypeOK
  <2>2. CASE At(r, IF ~failed THEN "wait" ELSE IF r \in AttachedRemotes THEN "failing" ELSE "start")
    <3>1. PICK stage \in {"wait", "failing", "start"} : At(r, stage) /\ (stage = "start" => failed)
      BY <2>2
    <3>2. stage \in RemoteSteps
      BY DEF RemoteSteps
    <3> QED BY <1>1, <3>1, <3>2, AtStep
  <2> QED BY <1>2, <2>1, <2>2
<1>5. RemoteTypeOK'
  BY <1>1, <1>3, <1>4 DEF RemoteTypeOK
<1>6. ASSUME NEW b \in DOMAIN boxes'
      PROVE  \/ b \in excused' \/ Claims(r, b)' \/ boxes'[b] # "running" \/ onClose = "kept"
             \/ b \in DOMAIN boxes /\ boxes[b] = "running" /\ ~Claims(r, b)
  <2>1. CASE b # remote[r].id
    BY <1>3, <2>1 DEF Claims
  <2>2. CASE b = remote[r].id
    <3>1. b # NoBoxId
      BY <1>1, <1>3, RemoteAssumption DEF RemoteTypeOK
    <3>2. ~Careless(r) => Claims(r, b)'
      BY <1>4, <2>2 DEF Claims, Careless
    <3> QED BY <1>3, <2>2, <3>1, <3>2
  <2> QED BY <2>1, <2>2
<1>7. remote'[r].at = "start" => remote'[r].id = NoBoxId \/ remote'[r].id \in excused'
  BY <1>3, <1>4
<1> QED BY <1>1, <1>3, <1>4, <1>5, <1>6, <1>7, RemoteStepKeeps

\* Pausing, stopping and leaving a sandbox.
LEMMA RemoteCloses ==
  ASSUME RemoteInv, NEW r \in Remotes, ClosesFailed(r) \/ ClosesRemote(r) \/ ClosesEarly(r)
  PROVE  RemoteInv'
<1>1. RemoteTypeOK /\ remote[r].at # "new"
  BY DEF RemoteInv, ClosesFailed, ClosesRemote, ClosesEarly
<1>2. PICK failed \in BOOLEAN, stage \in RemoteSteps : CloseEffect(r, stage, failed) /\ (stage = "gone" \/ stage = remote[r].at)
  BY <1>1 DEF ClosesFailed, ClosesRemote, ClosesEarly, RemoteSteps
<1>3. PICK closed \in BOOLEAN : remote' = [remote EXCEPT ![r] = [@ EXCEPT !.at = stage, !.closed = closed]]
  <2>1. (remote[r].closed \/ ~(failed /\ onClose = "paused")) \in BOOLEAN
    BY <1>1 DEF RemoteTypeOK
  <2>2. remote' = [remote EXCEPT ![r] = [@ EXCEPT !.at = stage, !.closed = (remote[r].closed \/ ~(failed /\ onClose = "paused"))]]
    BY <1>2 DEF CloseEffect
  <2> QED BY <2>1, <2>2
<1>4. remote[r] \in [at : RemoteSteps, id : DOMAIN boxes \cup {NoBoxId}, closed : BOOLEAN]
  BY <1>1 DEF RemoteTypeOK
<1>5. PICK e : e = [remote[r] EXCEPT !.at = stage, !.closed = closed]
  OBVIOUS
<1>6. /\ e.at = stage /\ e.id = remote[r].id
      /\ e \in [at : RemoteSteps, id : DOMAIN boxes \cup {NoBoxId}, closed : BOOLEAN]
  <2>1. DOMAIN boxes \cup {NoBoxId} \subseteq DOMAIN boxes \cup {NoBoxId} /\ NoBoxId \in DOMAIN boxes \cup {NoBoxId}
    OBVIOUS
  <2> QED BY <1>4, <1>5, <2>1, RemoteEdits
<1>7. /\ remote' = [remote EXCEPT ![r] = remote'[r]] /\ remote'[r].at = stage /\ remote'[r].id = remote[r].id
      /\ remote' \in [Remotes -> [at : RemoteSteps, id : DOMAIN boxes \cup {NoBoxId}, closed : BOOLEAN]]
  <2>1. remote' = [remote EXCEPT ![r] = e]
    BY <1>3, <1>5
  <2> QED BY <1>1, <1>6, <2>1 DEF RemoteTypeOK
<1>8. stage = "new" => FALSE
  BY <1>1, <1>2
<1>9. stage = "start" => remote[r].id = NoBoxId \/ remote[r].id \in excused
  BY <1>2 DEF RemoteInv
<1>10. CASE Careless(r) \/ onClose = "kept"
  <2>1. UNCHANGED <<boxes, excused, onClose>>
    BY <1>2, <1>10 DEF CloseEffect
  <2>2. RemoteTypeOK'
    BY <1>1, <1>7, <2>1 DEF RemoteTypeOK
  <2>3. \A b \in DOMAIN boxes' : onClose = "kept" \/ ~Claims(r, b)
    BY <1>10 DEF Claims
  <2> QED BY <1>7, <1>8, <1>9, <2>1, <2>2, <2>3, RemoteStepKeeps
<1>11. CASE ~(Careless(r) \/ onClose = "kept")
  <2>1. Call(r, onClose, failed) /\ UNCHANGED onClose /\ onClose \in {"paused", "stopped"}
    BY <1>1, <1>2, <1>11 DEF CloseEffect, RemoteTypeOK
  <2>2. PICK state \in {"paused", "stopped"} : state = onClose
    BY <2>1
  <2>3. /\ boxes' \in Seq({"running", "paused", "stopped"}) /\ DOMAIN boxes' = DOMAIN boxes /\ excused \subseteq excused'
        /\ \A b \in DOMAIN boxes \ {remote[r].id} : boxes'[b] = boxes[b]
        /\ failed => remote[r].id = NoBoxId \/ remote[r].id \in excused'
        /\ ~failed => remote[r].id \in DOMAIN boxes /\ boxes'[remote[r].id] = state
    BY <1>1, <2>1, <2>2, Called
  <2>4. RemoteTypeOK'
    BY <1>1, <1>7, <2>1, <2>3 DEF RemoteTypeOK
  <2>5. ASSUME NEW b \in DOMAIN boxes'
        PROVE  b \in excused' \/ boxes'[b] # "running" \/ (boxes[b] = "running" /\ ~Claims(r, b))
    <3>1. b # NoBoxId
      BY <1>1, <2>3, RemoteAssumption DEF RemoteTypeOK
    <3> QED BY <2>2, <2>3, <3>1 DEF Claims
  <2> QED BY <1>7, <1>8, <1>9, <2>1, <2>3, <2>4, <2>5, RemoteStepKeeps
<1> QED BY <1>10, <1>11

\* Every step of the remote part keeps the invariant.
LEMMA RemoteBoxSteps == RemoteInv /\ RemoteNext => RemoteInv'
<1> SUFFICES ASSUME RemoteInv, RemoteNext PROVE RemoteInv'
  OBVIOUS
<1>1. CASE ApiPauses
  <2>1. PICK b \in DOMAIN boxes : boxes' = [boxes EXCEPT ![b] = "paused"]
    BY <1>1 DEF ApiPauses
  <2>2. RemoteTypeOK /\ UNCHANGED <<onClose, remote, excused>>
    BY <1>1 DEF ApiPauses, RemoteInv
  <2>3. /\ boxes' \in Seq({"running", "paused", "stopped"}) /\ DOMAIN boxes' = DOMAIN boxes
        /\ boxes'[b] = "paused" /\ \A c \in DOMAIN boxes \ {b} : boxes'[c] = boxes[c]
    BY <2>1, <2>2, SetsBox
  <2>4. RemoteTypeOK'
    BY <2>2, <2>3 DEF RemoteTypeOK
  <2>5. \A c \in DOMAIN boxes' : Accounted(c)'
    BY <2>2, <2>3 DEF RemoteInv, Accounted, Claims, Careless
  <2> QED BY <2>2, <2>4, <2>5 DEF RemoteInv
<1> QED BY <1>1, RemoteLooks, RemotePosts, RemoteResumes, RemoteCloses DEF RemoteNext

\* So does a step of another part.
LEMMA RemoteFrame == RemoteInv /\ UNCHANGED remoteVars => RemoteInv'
  BY DEF RemoteInv, remoteVars, RemoteTypeOK, Accounted, Claims, Careless

\* The invariant gives what the run checks.
LEMMA NoBoxForgotten == RemoteInv => RunningIsClaimed
  BY DEF RemoteInv, RunningIsClaimed, Accounted, Claims

-----------------------------------------------------------------------------
(* KubernetesRuntime: the parts of a pod come and go together.               *)

\* No element of a sequence is there twice.
Once(s) == \A i, j \in DOMAIN s : s[i] = s[j] => i = j

\* Without its head a sequence has every element but that one, each once.
LEMMA TailOnce ==
  ASSUME NEW S, NEW w \in Seq(S), w # <<>>, Once(w)
  PROVE  /\ Head(w) \in ToSet(w) /\ Head(w) \in S /\ Tail(w) \in Seq(S)
         /\ ToSet(Tail(w)) = ToSet(w) \ {Head(w)}
         /\ Once(Tail(w))
<1>2. /\ Len(w) \in Nat \ {0} /\ DOMAIN w = 1 .. Len(w) /\ Head(w) = w[1] /\ Tail(w) \in Seq(S)
      /\ Len(Tail(w)) = Len(w) - 1 /\ DOMAIN Tail(w) = 1 .. Len(w) - 1
      /\ \A i \in 1 .. Len(w) - 1 : Tail(w)[i] = w[i + 1]
  OBVIOUS
<1>3. Head(w) \in ToSet(w) /\ Head(w) \in S
  BY <1>2 DEF ToSet
<1>4. ToSet(Tail(w)) = ToSet(w) \ {Head(w)}
  <2>1. ASSUME NEW x \in ToSet(Tail(w)) PROVE x \in ToSet(w) \ {Head(w)}
    <3>1. PICK i \in 1 .. Len(w) - 1 : x = w[i + 1]
      BY <1>2, <2>1 DEF ToSet
    <3>2. i + 1 \in 1 .. Len(w) /\ i + 1 # 1 /\ 1 \in 1 .. Len(w)
      BY <1>2, <3>1
    <3> QED BY <1>2, <3>1, <3>2 DEF ToSet, Once
  <2>2. ASSUME NEW x \in ToSet(w) \ {Head(w)} PROVE x \in ToSet(Tail(w))
    <3>1. PICK i \in 1 .. Len(w) : x = w[i] /\ i # 1
      BY <1>2, <2>2 DEF ToSet
    <3>2. i - 1 \in 1 .. Len(w) - 1 /\ (i - 1) + 1 = i
      BY <1>2, <3>1
    <3>3. x = Tail(w)[i - 1]
      BY <1>2, <3>1, <3>2
    <3> QED BY <1>2, <3>2, <3>3 DEF ToSet
  <2> QED BY <2>1, <2>2
<1>5. Once(Tail(w))
  <2> SUFFICES ASSUME NEW i \in 1 .. Len(w) - 1, NEW j \in 1 .. Len(w) - 1, w[i + 1] = w[j + 1] PROVE i = j
    BY <1>2 DEF Once
  <2>1. i + 1 \in 1 .. Len(w) /\ j + 1 \in 1 .. Len(w)
    BY <1>2
  <2>2. i + 1 = j + 1
    BY <1>2, <2>1 DEF Once
  <2> QED BY <2>2
<1> QED BY <1>2, <1>3, <1>4, <1>5

\* The parts of a pod, and what its conversation keeps beside them.
PodParts == {"pod", "svc", "code", "ingress"}
Resources == PodParts \cup {"pvc"}

\* A list of resources, each once.
Sequenced(s) == s \in Seq(Resources) /\ Once(s)

\* The kinds of values of the Kubernetes part.
KubeTypeOK ==
  /\ cluster \subseteq Resources /\ torn \in BOOLEAN /\ Sequenced(deleting)
  /\ DOMAIN kube = KubeRuntimes
  /\ \A r \in KubeRuntimes : kube[r] = [at |-> kube[r].at, left |-> kube[r].left] /\ Sequenced(kube[r].left)

\* How often a part is there, counting those that runtimes have yet to make, and not
\* those they have yet to delete.
Makers(x) == {r \in KubeRuntimes : kube[r].at = "create" /\ x \in ToSet(kube[r].left)}
Enders(x) == {r \in KubeRuntimes : kube[r].at = "closing" /\ x \in ToSet(kube[r].left)}
One(b) == IF b THEN 1 ELSE 0
Balance(x) ==
  One(x \in cluster) + Cardinality(Makers(x)) - Cardinality(Enders(x)) - One(x \in ToSet(deleting))

\* The inductive invariant of the Kubernetes part: unless a sequence of calls was cut
\* short, every part of the pod comes out the same, counting what is yet to be made and
\* to be deleted.
KubeInv == KubeTypeOK /\ (~torn => \A x, y \in PodParts : Balance(x) = Balance(y))

\* Every resource is made once.
LEMMA CreationOnce == Sequenced(Creation) /\ Sequenced(Tail(Creation))
                      /\ PodParts \subseteq ToSet(Creation) /\ PodParts \subseteq ToSet(Tail(Creation))
<1>1. Creation \in Seq(Resources) /\ Len(Creation) = 5 /\ DOMAIN Creation = 1 .. 5
  BY DEF Creation, Resources, PodParts
<1>2. /\ Creation[1] = "pvc" /\ Creation[2] = "pod" /\ Creation[3] = "svc"
      /\ Creation[4] = "code" /\ Creation[5] = "ingress"
  BY DEF Creation
<1>3. \A i \in 1 .. 5 : i = 1 \/ i = 2 \/ i = 3 \/ i = 4 \/ i = 5
  OBVIOUS
<1>4. Once(Creation)
  BY <1>1, <1>2, <1>3 DEF Once
<1>5. PodParts \subseteq ToSet(Creation)
  BY <1>1, <1>2 DEF ToSet, PodParts
<1>6. Head(Creation) = "pvc" /\ Creation # <<>>
  BY DEF Creation
<1> QED BY <1>1, <1>4, <1>5, <1>6, TailOnce DEF Sequenced, PodParts

\* Every part of the pod is deleted once.
LEMMA CleanUpOnce ==
  ASSUME NEW b \in BOOLEAN
  PROVE  Sequenced(CleanUpSteps(b)) /\ PodParts \subseteq ToSet(CleanUpSteps(b))
<1>1. Tail(Creation) = <<"pod", "svc", "code", "ingress">>
  BY DEF Creation
<1>2. CASE b
  <2>1. CleanUpSteps(b) = <<"pvc">> \o <<"pod", "svc", "code", "ingress">>
    BY <1>2 DEF CleanUpSteps
  <2>2. CleanUpSteps(b) = Creation
    <3> DEFINE t == <<"pod", "svc", "code", "ingress">>
               s == <<"pvc">> \o t
    <3>1. <<"pvc">> \in Seq(Resources) /\ t \in Seq(Resources) /\ Len(t) = 4 /\ Len(<<"pvc">>) = 1
      BY DEF Resources, PodParts
    <3>2. s \in Seq(Resources) /\ Len(s) = 5
      BY <3>1
    <3>3. s[1] = "pvc" /\ s[2] = "pod" /\ s[3] = "svc" /\ s[4] = "code" /\ s[5] = "ingress"
      OBVIOUS
    <3>4. Creation \in Seq(Resources) /\ Len(Creation) = 5
      BY DEF Creation, Resources, PodParts
    <3>5. /\ Creation[1] = "pvc" /\ Creation[2] = "pod" /\ Creation[3] = "svc"
          /\ Creation[4] = "code" /\ Creation[5] = "ingress"
      BY DEF Creation
    <3>6. \A i \in 1 .. 5 : i = 1 \/ i = 2 \/ i = 3 \/ i = 4 \/ i = 5
      OBVIOUS
    <3> HIDE DEF s, t
    <3>7. \A i \in 1 .. 5 : s[i] = Creation[i]
      BY <3>3, <3>5, <3>6
    <3>8. s = Creation
      BY <3>2, <3>4, <3>7, SeqEqual
    <3> QED BY <2>1, <3>8 DEF s, t
  <2> QED BY <2>2, CreationOnce
<1>3. CASE ~b
  <2>1. CleanUpSteps(b) = <<>> \o <<"pod", "svc", "code", "ingress">>
    BY <1>3 DEF CleanUpSteps
  <2>2. <<>> \o <<"pod", "svc", "code", "ingress">> = <<"pod", "svc", "code", "ingress">>
    OBVIOUS
  <2> QED BY <1>1, <2>1, <2>2, CreationOnce
<1> QED BY <1>2, <1>3

\* The counts are numbers.
LEMMA Counts ==
  ASSUME NEW x
  PROVE  /\ IsFiniteSet(Makers(x)) /\ IsFiniteSet(Enders(x))
         /\ Cardinality(Makers(x)) \in Nat /\ Cardinality(Enders(x)) \in Nat /\ Balance(x) \in Int
<1>1. Makers(x) \subseteq KubeRuntimes /\ Enders(x) \subseteq KubeRuntimes
  BY DEF Makers, Enders
<1>2. IsFiniteSet(Makers(x)) /\ IsFiniteSet(Enders(x))
  BY <1>1, KubeAssumption, FS_Subset
<1>3. Cardinality(Makers(x)) \in Nat /\ Cardinality(Enders(x)) \in Nat
  BY <1>2, FS_CardinalityType
<1>4. One(x \in cluster) \in Int /\ One(x \in ToSet(deleting)) \in Int
  BY DEF One
<1> QED BY <1>2, <1>3, <1>4 DEF Balance

\* A step that changes the count of every part by the same number keeps the invariant.
LEMMA KubeStepKeeps ==
  ASSUME KubeInv, KubeTypeOK', torn => torn',
         NEW k \in Int, ~torn' => \A x \in PodParts : Balance(x)' = Balance(x) + k
  PROVE  KubeInv'
<1>1. ASSUME ~torn', NEW x \in PodParts, NEW y \in PodParts PROVE Balance(x)' = Balance(y)'
  <2>1. Balance(x) = Balance(y)
    BY <1>1 DEF KubeInv
  <2> QED BY <1>1, <2>1
<1> QED BY <1>1 DEF KubeInv

\* What a runtime is at after a step of its own.
LEMMA KubeAtStep ==
  ASSUME KubeTypeOK, NEW r \in KubeRuntimes, NEW stage, NEW left, KubeAt(r, stage, left), Sequenced(left)
  PROVE  /\ kube'[r].at = stage /\ kube'[r].left = left
         /\ \A q \in KubeRuntimes \ {r} : kube'[q] = kube[q]
         /\ DOMAIN kube' = KubeRuntimes
         /\ \A q \in KubeRuntimes : kube'[q] = [at |-> kube'[q].at, left |-> kube'[q].left] /\ Sequenced(kube'[q].left)
<1>1. kube' = [kube EXCEPT ![r] = [at |-> stage, left |-> left]] /\ DOMAIN kube = KubeRuntimes
  BY DEF KubeAt, KubeTypeOK
<1>2. kube'[r] = [at |-> stage, left |-> left] /\ DOMAIN kube' = KubeRuntimes
      /\ \A q \in KubeRuntimes \ {r} : kube'[q] = kube[q]
  BY <1>1
<1>3. kube'[r].at = stage /\ kube'[r].left = left
  BY <1>2
<1> QED BY <1>2, <1>3 DEF KubeTypeOK

\* An empty list holds nothing.
LEMMA NothingWaits == Sequenced(<<>>) /\ ToSet(<<>>) = {}
  BY DEF Sequenced, Once, ToSet

\* Steps that make, delete and begin nothing.
LEMMA KubeLooks ==
  ASSUME KubeInv, NEW r \in KubeRuntimes, NEW stage, KubeAt(r, stage, <<>>), stage # "create",
         kube[r].at \in {"create", "closing"} => torn' \/ kube[r].left = <<>>,
         UNCHANGED <<cluster, deleting>>, torn \in BOOLEAN, torn' \in BOOLEAN, torn => torn'
  PROVE  KubeInv'
<1>1. KubeTypeOK
  BY DEF KubeInv
<1>2. /\ kube'[r].at = stage /\ kube'[r].left = <<>>
      /\ \A q \in KubeRuntimes \ {r} : kube'[q] = kube[q]
      /\ DOMAIN kube' = KubeRuntimes
      /\ \A q \in KubeRuntimes : kube'[q] = [at |-> kube'[q].at, left |-> kube'[q].left] /\ Sequenced(kube'[q].left)
  BY <1>1, KubeAtStep, NothingWaits
<1>3. KubeTypeOK'
  BY <1>1, <1>2 DEF KubeTypeOK
<1>4. ASSUME ~torn', NEW x \in PodParts PROVE Balance(x)' = Balance(x) + 0
  <2>1. Makers(x)' = Makers(x) /\ Enders(x)' = Enders(x)
    BY <1>2, <1>4, NothingWaits DEF Makers, Enders
  <2> QED BY <2>1, Counts DEF Balance
<1>5. 0 \in Int
  OBVIOUS
<1> QED BY <1>3, <1>4, <1>5, KubeStepKeeps

\* A runtime begins to create, or to delete: all parts of the pod, or none.
LEMMA KubeBegins ==
  ASSUME KubeInv, NEW r \in KubeRuntimes, NEW stage \in {"create", "closing"}, NEW left, KubeAt(r, stage, left), Sequenced(left),
         kube[r].at \notin {"create", "closing"},
         PodParts \subseteq ToSet(left) \/ left = <<>>, UNCHANGED <<cluster, deleting, torn>>
  PROVE  KubeInv'
<1>1. KubeTypeOK
  BY DEF KubeInv
<1>2. /\ kube'[r].at = stage /\ kube'[r].left = left
      /\ \A q \in KubeRuntimes \ {r} : kube'[q] = kube[q]
      /\ DOMAIN kube' = KubeRuntimes
      /\ \A q \in KubeRuntimes : kube'[q] = [at |-> kube'[q].at, left |-> kube'[q].left] /\ Sequenced(kube'[q].left)
  BY <1>1, KubeAtStep
<1>3. KubeTypeOK'
  BY <1>1, <1>2 DEF KubeTypeOK
<1>4. PICK k \in Int : k = IF left = <<>> THEN 0 ELSE IF stage = "create" THEN 1 ELSE 0 - 1
  OBVIOUS
<1>5. ASSUME NEW x \in PodParts PROVE Balance(x)' = Balance(x) + k
  <2>1. r \notin Makers(x) /\ r \notin Enders(x)
    BY DEF Makers, Enders
  <2>2. CASE left = <<>>
    <3>1. Makers(x)' = Makers(x) /\ Enders(x)' = Enders(x)
      BY <1>2, <2>1, <2>2, NothingWaits DEF Makers, Enders
    <3> QED BY <1>4, <2>2, <3>1, Counts DEF Balance
  <2>3. CASE left # <<>> /\ stage = "create"
    <3>1. Makers(x)' = Makers(x) \cup {r} /\ Enders(x)' = Enders(x)
      BY <1>2, <2>1, <2>3 DEF Makers, Enders
    <3>2. Cardinality(Makers(x)') = Cardinality(Makers(x)) + 1
      BY <2>1, <3>1, Counts, FS_AddElement
    <3>3. PICK m \in Nat, e \in Nat, c \in Int, d \in Int :
            /\ m = Cardinality(Makers(x)) /\ e = Cardinality(Enders(x))
            /\ c = One(x \in cluster) /\ d = One(x \in ToSet(deleting))
      BY Counts DEF One
    <3>4. Balance(x) = c + m - e - d /\ Balance(x)' = c + (m + 1) - e - d
      BY <3>1, <3>2, <3>3 DEF Balance
    <3> QED BY <1>4, <2>3, <3>3, <3>4
  <2>4. CASE left # <<>> /\ stage = "closing"
    <3>1. Makers(x)' = Makers(x) /\ Enders(x)' = Enders(x) \cup {r}
      BY <1>2, <2>1, <2>4 DEF Makers, Enders
    <3>2. Cardinality(Enders(x)') = Cardinality(Enders(x)) + 1
      BY <2>1, <3>1, Counts, FS_AddElement
    <3>3. PICK m \in Nat, e \in Nat, c \in Int, d \in Int :
            /\ m = Cardinality(Makers(x)) /\ e = Cardinality(Enders(x))
            /\ c = One(x \in cluster) /\ d = One(x \in ToSet(deleting))
      BY Counts DEF One
    <3>4. Balance(x) = c + m - e - d /\ Balance(x)' = c + m - (e + 1) - d
      BY <3>1, <3>2, <3>3 DEF Balance
    <3> QED BY <1>4, <2>4, <3>3, <3>4
  <2> QED BY <2>2, <2>3, <2>4
<1> QED BY <1>3, <1>5, KubeStepKeeps

\* Making the next resource.
LEMMA KubeCreates ==
  ASSUME KubeInv, NEW r \in KubeRuntimes, CreatesNext(r)
  PROVE  KubeInv'
<1>1. KubeTypeOK /\ UNCHANGED <<deleting, torn>> /\ kube[r].at = "create"
  BY DEF KubeInv, CreatesNext
<1>2. PICK s : s = kube[r].left
  OBVIOUS
<1>3. PICK h : h = Head(s)
  OBVIOUS
<1>4. s \in Seq(Resources) /\ Once(s) /\ s # <<>>
  BY <1>1, <1>2 DEF KubeTypeOK, Sequenced, CreatesNext
<1>5. /\ h \in ToSet(s) /\ h \in Resources /\ Sequenced(Tail(s)) /\ ToSet(Tail(s)) = ToSet(s) \ {h}
  BY <1>3, <1>4, TailOnce DEF Sequenced
<1>6. h \notin cluster /\ cluster' = cluster \cup {h}
  BY <1>2, <1>3 DEF CreatesNext
<1>7. PICK stage \in {"wait", "create"} : stage = (IF Len(s) = 1 THEN "wait" ELSE "create") /\ KubeAt(r, stage, Tail(s))
  BY <1>2 DEF CreatesNext
<1>8. stage = "wait" => ToSet(Tail(s)) = {}
  <2>1. Len(s) = 1 => Tail(s) \in Seq(Resources) /\ Len(Tail(s)) = 0
    BY <1>4
  <2> QED BY <1>7, <2>1 DEF ToSet
<1>9. /\ kube'[r].at = stage /\ kube'[r].left = Tail(s)
      /\ \A q \in KubeRuntimes \ {r} : kube'[q] = kube[q]
      /\ DOMAIN kube' = KubeRuntimes
      /\ \A q \in KubeRuntimes : kube'[q] = [at |-> kube'[q].at, left |-> kube'[q].left] /\ Sequenced(kube'[q].left)
  BY <1>1, <1>5, <1>7, KubeAtStep
<1>10. KubeTypeOK'
  BY <1>1, <1>5, <1>6, <1>9 DEF KubeTypeOK
<1>11. ASSUME NEW x \in PodParts PROVE Balance(x)' = Balance(x) + 0
  <2>1. Enders(x)' = Enders(x)
    BY <1>1, <1>9 DEF Enders
  <2>2. CASE x # h
    <3>1. Makers(x)' = Makers(x)
      BY <1>1, <1>2, <1>5, <1>8, <1>9, <2>2 DEF Makers
    <3>2. One(x \in cluster)' = One(x \in cluster)
      BY <1>6, <2>2 DEF One
    <3> QED BY <1>1, <2>1, <3>1, <3>2, Counts DEF Balance
  <2>3. CASE x = h
    <3>1. Makers(x)' = Makers(x) \ {r} /\ r \in Makers(x)
      BY <1>1, <1>2, <1>5, <1>9, <2>3 DEF Makers
    <3>2. Cardinality(Makers(x)') = Cardinality(Makers(x)) - 1
      BY <3>1, Counts, FS_RemoveElement
    <3>3. One(x \in cluster) = 0 /\ One(x \in cluster)' = 1
      BY <1>6, <2>3 DEF One
    <3>4. PICK m \in Nat, e \in Nat, d \in Int :
            /\ m = Cardinality(Makers(x)) /\ e = Cardinality(Enders(x)) /\ d = One(x \in ToSet(deleting))
      BY Counts DEF One
    <3>5. Balance(x) = 0 + m - e - d /\ Balance(x)' = 1 + (m - 1) - e - d
      BY <1>1, <2>1, <3>2, <3>3, <3>4 DEF Balance
    <3> QED BY <3>4, <3>5
  <2> QED BY <2>2, <2>3
<1> QED
  <2>1. 0 \in Int
    OBVIOUS
  <2> QED BY <1>1, <1>10, <1>11, <2>1, KubeStepKeeps

\* Deleting the next resource: of the ones to be deleted it is one less, and it is gone.
LEMMA KubeDeletesOne ==
  ASSUME KubeInv, NEW s, Sequenced(s), s # <<>>, NEW rest, DeletesNext(s, rest)
  PROVE  /\ cluster' \subseteq Resources /\ torn' \in BOOLEAN /\ (torn => torn') /\ Sequenced(rest)
         /\ ~torn' => /\ rest = Tail(s) /\ cluster' = cluster \ {Head(s)} /\ Head(s) \in cluster
                      /\ Head(s) \in ToSet(s) /\ ToSet(Tail(s)) = ToSet(s) \ {Head(s)}
<1>1. /\ Head(s) \in ToSet(s) /\ Sequenced(Tail(s)) /\ ToSet(Tail(s)) = ToSet(s) \ {Head(s)}
  BY TailOnce DEF Sequenced
<1> QED BY <1>1, NothingWaits DEF DeletesNext, AfterDeleting, KubeInv, KubeTypeOK

\* A runtime that deletes the next resource as it closes.
LEMMA KubeCloses ==
  ASSUME KubeInv, NEW r \in KubeRuntimes, CloseDeletes(r)
  PROVE  KubeInv'
<1>1. KubeTypeOK /\ UNCHANGED deleting /\ kube[r].at = "closing"
  BY DEF KubeInv, CloseDeletes
<1>2. PICK s : s = kube[r].left
  OBVIOUS
<1>3. PICK rest : DeletesNext(s, rest) /\ KubeAt(r, "closing", rest)
  BY <1>2 DEF CloseDeletes
<1>4. Sequenced(s) /\ s # <<>>
  BY <1>1, <1>2 DEF KubeTypeOK, CloseDeletes
<1>5. PICK h : h = Head(s)
  OBVIOUS
<1>6. /\ cluster' \subseteq Resources /\ torn' \in BOOLEAN /\ (torn => torn') /\ Sequenced(rest)
      /\ ~torn' => /\ rest = Tail(s) /\ cluster' = cluster \ {h} /\ h \in cluster
                   /\ h \in ToSet(s) /\ ToSet(Tail(s)) = ToSet(s) \ {h}
  BY <1>3, <1>4, <1>5, KubeDeletesOne
<1>7. /\ kube'[r].at = "closing" /\ kube'[r].left = rest
      /\ \A q \in KubeRuntimes \ {r} : kube'[q] = kube[q]
      /\ DOMAIN kube' = KubeRuntimes
      /\ \A q \in KubeRuntimes : kube'[q] = [at |-> kube'[q].at, left |-> kube'[q].left] /\ Sequenced(kube'[q].left)
  BY <1>1, <1>3, <1>6, KubeAtStep
<1>8. KubeTypeOK'
  BY <1>1, <1>6, <1>7 DEF KubeTypeOK
<1>9. ASSUME ~torn', NEW x \in PodParts PROVE Balance(x)' = Balance(x) + 0
  <2>1. Makers(x)' = Makers(x)
    BY <1>1, <1>7 DEF Makers
  <2>2. CASE x # h
    <3>1. Enders(x)' = Enders(x)
      BY <1>1, <1>2, <1>6, <1>7, <1>9, <2>2 DEF Enders
    <3>2. One(x \in cluster)' = One(x \in cluster)
      BY <1>6, <1>9, <2>2 DEF One
    <3> QED BY <1>1, <2>1, <3>1, <3>2, Counts DEF Balance
  <2>3. CASE x = h
    <3>1. Enders(x)' = Enders(x) \ {r} /\ r \in Enders(x)
      BY <1>1, <1>2, <1>6, <1>7, <1>9, <2>3 DEF Enders
    <3>2. Cardinality(Enders(x)') = Cardinality(Enders(x)) - 1
      BY <3>1, Counts, FS_RemoveElement
    <3>3. One(x \in cluster) = 1 /\ One(x \in cluster)' = 0
      BY <1>6, <1>9, <2>3 DEF One
    <3>4. PICK m \in Nat, e \in Nat, d \in Int :
            /\ m = Cardinality(Makers(x)) /\ e = Cardinality(Enders(x)) /\ d = One(x \in ToSet(deleting))
      BY Counts DEF One
    <3>5. Balance(x) = 1 + m - e - d /\ Balance(x)' = 0 + m - (e - 1) - d
      BY <1>1, <2>1, <3>2, <3>3, <3>4 DEF Balance
    <3> QED BY <3>4, <3>5
  <2> QED BY <2>2, <2>3
<1> QED
  <2>1. 0 \in Int
    OBVIOUS
  <2> QED BY <1>6, <1>8, <1>9, <2>1, KubeStepKeeps

\* The clean-up of the conversation deletes the next one.
LEMMA KubeDeletes ==
  ASSUME KubeInv, DeletesKube \/ DeleteGoesOn
  PROVE  KubeInv'
<1>1. KubeTypeOK /\ UNCHANGED kube
  BY DEF KubeInv, DeletesKube, DeleteGoesOn
<1>2. \A x : Makers(x)' = Makers(x) /\ Enders(x)' = Enders(x)
  BY <1>1 DEF Makers, Enders
<1>3. CASE DeletesKube
  <2>1. deleting = <<>> /\ deleting' = CleanUpSteps(TRUE) /\ UNCHANGED <<cluster, torn>>
    BY <1>3 DEF DeletesKube
  <2>2. KubeTypeOK'
    BY <1>1, <2>1, CleanUpOnce DEF KubeTypeOK
  <2>3. ASSUME NEW x \in PodParts PROVE Balance(x)' = Balance(x) + (0 - 1)
    <3>1. One(x \in ToSet(deleting)) = 0 /\ One(x \in ToSet(deleting))' = 1
      BY <2>1, CleanUpOnce, NothingWaits DEF One
    <3>2. PICK m \in Nat, e \in Nat, c \in Int :
            /\ m = Cardinality(Makers(x)) /\ e = Cardinality(Enders(x)) /\ c = One(x \in cluster)
      BY Counts DEF One
    <3>3. Balance(x) = c + m - e - 0 /\ Balance(x)' = c + m - e - 1
      BY <1>2, <2>1, <3>1, <3>2 DEF Balance
    <3> QED BY <3>2, <3>3
  <2>4. 0 - 1 \in Int
    OBVIOUS
  <2> QED BY <2>1, <2>2, <2>3, <2>4, KubeStepKeeps
<1>4. CASE DeleteGoesOn
  <2>1. PICK rest : DeletesNext(deleting, rest) /\ deleting' = rest
    BY <1>4 DEF DeleteGoesOn
  <2>2. PICK s : s = deleting
    OBVIOUS
  <2>3. PICK h : h = Head(s)
    OBVIOUS
  <2>4. Sequenced(s) /\ s # <<>>
    BY <1>1, <1>4, <2>2 DEF KubeTypeOK, DeleteGoesOn
  <2>5. /\ cluster' \subseteq Resources /\ torn' \in BOOLEAN /\ (torn => torn') /\ Sequenced(rest)
        /\ ~torn' => /\ rest = Tail(s) /\ cluster' = cluster \ {h} /\ h \in cluster
                     /\ h \in ToSet(s) /\ ToSet(Tail(s)) = ToSet(s) \ {h}
    BY <2>1, <2>2, <2>3, <2>4, KubeDeletesOne
  <2>6. KubeTypeOK'
    BY <1>1, <2>1, <2>5 DEF KubeTypeOK
  <2>7. ASSUME ~torn', NEW x \in PodParts PROVE Balance(x)' = Balance(x) + 0
    <3>1. PICK m \in Nat, e \in Nat :
            /\ m = Cardinality(Makers(x)) /\ e = Cardinality(Enders(x))
      BY Counts
    <3>2. CASE x # h
      <4>1. One(x \in cluster)' = One(x \in cluster) /\ One(x \in ToSet(deleting))' = One(x \in ToSet(deleting))
        BY <2>1, <2>2, <2>5, <2>7, <3>2 DEF One
      <4> QED BY <1>2, <4>1, Counts DEF Balance
    <3>3. CASE x = h
      <4>1. /\ One(x \in cluster) = 1 /\ One(x \in cluster)' = 0
            /\ One(x \in ToSet(deleting)) = 1 /\ One(x \in ToSet(deleting))' = 0
        BY <2>1, <2>2, <2>5, <2>7, <3>3 DEF One
      <4>2. Balance(x) = 1 + m - e - 1 /\ Balance(x)' = 0 + m - e - 0
        BY <1>2, <3>1, <4>1 DEF Balance
      <4> QED BY <3>1, <4>2
    <3> QED BY <3>2, <3>3
  <2>8. 0 \in Int
    OBVIOUS
  <2> QED BY <2>5, <2>6, <2>7, <2>8, KubeStepKeeps
<1> QED BY <1>3, <1>4

\* A step of another part keeps the invariant.
LEMMA KubeFrame == KubeInv /\ UNCHANGED <<cluster, kube, deleting, torn>> => KubeInv'
<1> SUFFICES ASSUME KubeInv, UNCHANGED <<cluster, kube, deleting, torn>> PROVE KubeInv'
  OBVIOUS
<1>1. KubeTypeOK'
  BY DEF KubeInv, KubeTypeOK
<1>2. \A x \in PodParts : Balance(x)' = Balance(x)
  BY DEF Balance, Makers, Enders, One
<1> QED BY <1>1, <1>2 DEF KubeInv

\* Every step of the Kubernetes part keeps the invariant.
LEMMA KubeSteps == KubeInv /\ KubeNext => KubeInv'
<1> SUFFICES ASSUME KubeInv, KubeNext PROVE KubeInv'
  OBVIOUS
<1>0. torn \in BOOLEAN
  BY DEF KubeInv, KubeTypeOK
<1>1. ASSUME NEW r \in KubeRuntimes,
             AttachesToPod(r) \/ NoPod(r) \/ KubeReady(r) \/ KubeNeverReady(r) \/ KubeClosed(r) \/ CreationFails(r)
      PROVE  KubeInv'
  <2>1. PICK stage \in {"wait", "failed", "check", "ready", "gone"} : KubeAt(r, stage, <<>>)
    BY <1>1 DEF AttachesToPod, NoPod, KubeReady, KubeNeverReady, KubeClosed, CreationFails
  <2>2. UNCHANGED <<cluster, deleting>> /\ torn' \in BOOLEAN /\ (torn => torn')
        /\ (kube[r].at \in {"create", "closing"} => torn' \/ kube[r].left = <<>>)
    BY <1>0, <1>1 DEF AttachesToPod, NoPod, KubeReady, KubeNeverReady, KubeClosed, CreationFails
  <2> QED BY <1>0, <2>1, <2>2, KubeLooks
<1>2. ASSUME NEW r \in KubeRuntimes, ChecksPvc(r) PROVE KubeInv'
  <2>1. PICK left \in {Creation, Tail(Creation)} : KubeAt(r, "create", left)
    BY <1>2 DEF ChecksPvc
  <2>2. kube[r].at \notin {"create", "closing"} /\ UNCHANGED <<cluster, deleting, torn>>
    BY <1>2 DEF ChecksPvc
  <2>3. Sequenced(left) /\ PodParts \subseteq ToSet(left)
    BY <2>1, CreationOnce
  <2> QED BY <2>1, <2>2, <2>3, KubeBegins
<1>3. ASSUME NEW r \in KubeRuntimes, ClosesKube(r) PROVE KubeInv'
  <2>1. PICK left \in {CleanUpSteps(FALSE), <<>>} : KubeAt(r, "closing", left)
    BY <1>3 DEF ClosesKube
  <2>2. kube[r].at \notin {"create", "closing"} /\ UNCHANGED <<cluster, deleting, torn>>
    BY <1>3 DEF ClosesKube
  <2>3. Sequenced(left) /\ (PodParts \subseteq ToSet(left) \/ left = <<>>)
    BY <2>1, CleanUpOnce, NothingWaits
  <2> QED BY <2>1, <2>2, <2>3, KubeBegins
<1>4. CASE PodComesUp
  BY <1>4, KubeFrame DEF PodComesUp
<1> QED BY <1>1, <1>2, <1>3, <1>4, KubeCreates, KubeCloses, KubeDeletes DEF KubeNext

\* At first nothing is there and nothing is to be made or deleted.
LEMMA KubeStarts == KubeInit => KubeInv
<1> SUFFICES ASSUME KubeInit PROVE KubeInv
  OBVIOUS
<1>1. KubeTypeOK
  BY NothingWaits DEF KubeInit, KubeTypeOK
<1>2. \A x, y \in PodParts : Balance(x) = Balance(y)
  <2>1. \A x : Makers(x) = {} /\ Enders(x) = {} /\ One(x \in cluster) = 0 /\ One(x \in ToSet(deleting)) = 0
    BY NothingWaits DEF KubeInit, Makers, Enders, One
  <2> QED BY <2>1 DEF Balance
<1> QED BY <1>1, <1>2 DEF KubeInv

\* The invariant gives what the run checks.
LEMMA PodWhole == KubeInv => WholeOrGone
<1> SUFFICES ASSUME KubeInv, KubeIdle, ~torn
             PROVE  cluster \ {"pvc"} \in {{}, {Creation[i] : i \in 2 .. Len(Creation)}}
  BY DEF WholeOrGone
<1>1. \A x : Makers(x) = {} /\ Enders(x) = {} /\ One(x \in ToSet(deleting)) = 0
  BY NothingWaits DEF KubeIdle, Makers, Enders, One
<1>2. \A x : One(x \in cluster) \in {0, 1} /\ Balance(x) = One(x \in cluster) + 0 - 0 - 0
  BY <1>1, FS_EmptySet DEF Balance, One
<1>3. \A x, y \in PodParts : x \in cluster => y \in cluster
  BY <1>2 DEF KubeInv, One
<1>4. {Creation[i] : i \in 2 .. Len(Creation)} = PodParts
  <2>1. Len(Creation) = 5 /\ Creation[2] = "pod" /\ Creation[3] = "svc"
        /\ Creation[4] = "code" /\ Creation[5] = "ingress"
    BY DEF Creation
  <2>2. \A i \in 2 .. 5 : i = 2 \/ i = 3 \/ i = 4 \/ i = 5
    OBVIOUS
  <2>3. 2 \in 2 .. 5 /\ 3 \in 2 .. 5 /\ 4 \in 2 .. 5 /\ 5 \in 2 .. 5
    OBVIOUS
  <2>4. \A i \in 2 .. Len(Creation) : Creation[i] \in PodParts
    BY <2>1, <2>2 DEF PodParts
  <2>5. \A x \in PodParts : \E i \in 2 .. Len(Creation) : x = Creation[i]
    BY <2>1, <2>3 DEF PodParts
  <2> QED BY <2>4, <2>5
<1>5. cluster \subseteq Resources
  BY DEF KubeInv, KubeTypeOK
<1> QED BY <1>3, <1>4, <1>5 DEF Resources, PodParts

-----------------------------------------------------------------------------
(* Images: what a name says holds of the image, and of what is built under it. *)

\* The lists of names a build is given.
NamesListed(r) ==
    LET S == SourceTag(r.q, r.c)
        L == LockTag(r.q, r.c)
        V == VersionedTag(r.q) IN
    \/ r.names = <<S>>
    \/ r.from # "lock" /\ (r.names = <<L>> \/ r.names = <<S, L>>)
    \/ /\ r.from = "scratch"
       /\ r.names = <<V>> \/ r.names = <<S, V>> \/ r.names = <<L, V>> \/ r.names = <<S, L, V>>

\* The image a build is made on top of is there.
BaseFound(r) ==
    /\ r.from = "lock" => Found(LockTag(r.q, r.c))
    /\ r.from = "versioned" => Found(VersionedTag(r.q))

\* An image as a record of its parts, and what makes one.
Image(base, browser, lock, src, extras, layers) ==
    [base |-> base, browser |-> browser, lock |-> lock, src |-> src, extras |-> extras, layers |-> layers]
IsImage(img) ==
    /\ img = Image(img.base, img.browser, img.lock, img.src, img.extras, img.layers)
    /\ img.browser \in BOOLEAN /\ img.layers \in Nat

\* A request as a record of its parts, and what makes one.
BuildRequest(stage, q, c, from, names) == [at |-> stage, q |-> q, c |-> c, from |-> from, names |-> names]
IsRequest(r) ==
    /\ r = BuildRequest(r.at, r.q, r.c, r.from, r.names)
    /\ r.q \in ImageRequests /\ r.from \in {"scratch", "versioned", "lock"}
    /\ r.q.forced => r.from = "scratch"
    /\ BaseFound(r)

\* The first name of a build is the one of the sources, or that is there already.
SourceListed(r) == r.names[1] = SourceTag(r.q, r.c) \/ Found(SourceTag(r.q, r.c))

\* What a builder may rely on at each of its steps.
BuilderSound(b) ==
    LET r == builder[b] IN
    /\ IsRequest(r)
    /\ r.at \in {"lock", "versioned"} => ~r.q.forced
    /\ r.at \in {"build", "retag", "poll"} => NamesListed(r) /\ SourceListed(r)
    /\ r.at = "retag" => /\ builderKind = "docker" /\ Len(r.names) > 1 /\ Found(r.names[1])
                         /\ relabelled \/ images[r.names[1]].layers <= Most(r.names[2].kind)
    /\ r.at \in {"returned", "nothing"} => Found(SourceTag(r.q, r.c))

\* A job of the build server, and what makes one.
JobOf(of, build, status) == [of |-> of, build |-> build, status |-> status]
JobSound(j) ==
    /\ j = JobOf(j.of, j.build, j.status)
    /\ IsRequest(j.build) /\ NamesListed(j.build)
    /\ j.of \in Builders => /\ builder[j.of].at = "poll" /\ builder[j.of].q = j.build.q
                            /\ builder[j.of].c = j.build.c /\ builder[j.of].names = j.build.names
    /\ j.status = "success" => Range(j.build.names) \subseteq DOMAIN images
    /\ \A k \in serverJobs : k.of = j.of /\ k.of \in Builders => k = j

\* The image is what the name says.
Fits(n, img) ==
    /\ img.base = n.base
    /\ n.kind # "versioned" => img.lock = n.lock /\ (n.browser => img.browser)
    /\ n.kind = "source" => img.src = n.src

\* Every image is what its name says, and has few layers unless names were moved.
ImagesSound ==
    /\ relabelled \in BOOLEAN
    /\ \A n \in DOMAIN images : IsImage(images[n]) /\ Fits(n, images[n])
    /\ FewLayers

\* The inductive invariant of the image part.
ImageInv ==
    /\ DOMAIN builder = Builders
    /\ \A n \in published : n.kind = "versioned" \/ (n.kind = "lock" /\ n.lock = 1)
    /\ ImagesSound
    /\ \A b \in Builders : BuilderSound(b)
    /\ \A j \in serverJobs : JobSound(j)
    /\ builderKind = "docker" => serverJobs = {}

\* The parts of a lock tag.
LEMMA LockTagIs ==
  ASSUME NEW q, NEW c
  PROVE  LockTag(q, c) = [kind |-> "lock", base |-> q.base, browser |-> q.browser, lock |-> c.lock, src |-> 0]
<1>1. [SourceTag(q, c) EXCEPT !.kind = "lock"]
        = [kind |-> "lock", base |-> q.base, browser |-> q.browser, lock |-> c.lock, src |-> c.src]
  BY DEF SourceTag
<1>2. LockTag(q, c) = [[SourceTag(q, c) EXCEPT !.kind = "lock"] EXCEPT !.src = 0]
  BY DEF LockTag
<1> QED BY <1>1, <1>2

\* What the three names of a request say.
LEMMA TagFields ==
  ASSUME NEW q, NEW c
  PROVE  /\ LET S == SourceTag(q, c) IN
              /\ S.kind = "source" /\ S.base = q.base /\ S.browser = q.browser
              /\ S.lock = c.lock /\ S.src = c.src
         /\ LET L == LockTag(q, c) IN
              L.kind = "lock" /\ L.base = q.base /\ L.browser = q.browser /\ L.lock = c.lock
         /\ VersionedTag(q).kind = "versioned" /\ VersionedTag(q).base = q.base
  BY LockTagIs DEF SourceTag, VersionedTag

\* The names of a request say the same of an image, the earlier ones more.
LEMMA NamesAgree ==
  ASSUME NEW q, NEW c, NEW img
  PROVE  /\ Fits(SourceTag(q, c), img) => Fits(LockTag(q, c), img)
         /\ Fits(LockTag(q, c), img) => Fits(VersionedTag(q), img)
  BY TagFields DEF Fits

\* The parts of an image.
LEMMA ImageFields ==
  ASSUME NEW b, NEW w, NEW l, NEW s, NEW e, NEW y
  PROVE  LET img == Image(b, w, l, s, e, y) IN
         /\ img.base = b /\ img.browser = w /\ img.lock = l /\ img.src = s /\ img.layers = y
         /\ w \in BOOLEAN /\ y \in Nat => IsImage(img)
  BY DEF Image, IsImage

\* What a build on top of an image makes.
LEMMA OnTopIs ==
  ASSUME NEW img, IsImage(img), NEW q, NEW c
  PROVE  OnTop(img, q, c) = Image(img.base, img.browser, img.lock, c.src, img.extras \cup q.extra, img.layers + 1)
<1> DEFINE b == img.base  w == img.browser  l == img.lock  e == img.extras  y == img.layers
<1>1. img = Image(b, w, l, img.src, e, y)
  BY DEF IsImage
<1>2. [img EXCEPT !.src = c.src] = Image(b, w, l, c.src, e, y)
  <2> HIDE DEF b, w, l, e, y
  <2> QED BY <1>1 DEF Image
<1>3. \A x : [Image(b, w, l, c.src, e, y) EXCEPT !.extras = x] = Image(b, w, l, c.src, x, y)
  <2> HIDE DEF b, w, l, e, y
  <2> QED BY DEF Image
<1>4. \A x, z : [Image(b, w, l, c.src, x, y) EXCEPT !.layers = z] = Image(b, w, l, c.src, x, z)
  <2> HIDE DEF b, w, l, e, y
  <2> QED BY DEF Image
<1>5. OnTop(img, q, c) = [[[img EXCEPT !.src = c.src] EXCEPT !.extras = e \cup q.extra] EXCEPT !.layers = y + 1]
  <2>1. PICK x : x = e \cup q.extra
    OBVIOUS
  <2>2. PICK z : z = y + 1
    OBVIOUS
  <2>3. OnTop(img, q, c) = [img EXCEPT !.src = c.src, !.extras = x, !.layers = z]
    BY <2>1, <2>2 DEF OnTop
  <2> HIDE DEF b, w, l, e, y
  <2> QED BY <2>1, <2>2, <2>3
<1>6. OnTop(img, q, c) = Image(b, w, l, c.src, e \cup q.extra, y + 1)
  <2>1. PICK x : x = e \cup q.extra
    OBVIOUS
  <2>2. PICK z : z = y + 1
    OBVIOUS
  <2>3. [Image(b, w, l, c.src, e, y) EXCEPT !.extras = x] = Image(b, w, l, c.src, x, y)
    BY <1>3
  <2>4. [Image(b, w, l, c.src, x, y) EXCEPT !.layers = z] = Image(b, w, l, c.src, x, z)
    BY <1>4
  <2>5. OnTop(img, q, c) = [[[img EXCEPT !.src = c.src] EXCEPT !.extras = x] EXCEPT !.layers = z]
    BY <1>5, <2>1, <2>2
  <2> HIDE DEF b, w, l, e, y
  <2>6. OnTop(img, q, c) = Image(b, w, l, c.src, x, z)
    BY <1>2, <2>3, <2>4, <2>5
  <2> QED BY <2>1, <2>2, <2>6
<1> QED BY <1>6

\* What is built for a request fits all its names, and has few layers.
LEMMA DockerfileFits ==
  ASSUME ImagesSound, NEW r, IsRequest(r)
  PROVE  LET g == GenerateDockerfile(r.q, r.c, r.from, images) IN
         /\ IsImage(g) /\ Fits(SourceTag(r.q, r.c), g)
         /\ relabelled \/ g.layers <= (IF r.from = "scratch" THEN 1 ELSE IF r.from = "versioned" THEN 2 ELSE 3)
<1> DEFINE g == GenerateDockerfile(r.q, r.c, r.from, images)
<1>0. r.q.browser \in BOOLEAN
  BY ImageAssumption DEF IsRequest
<1>4. LET S == SourceTag(r.q, r.c) IN
      /\ S.kind = "source" /\ S.base = r.q.base /\ S.browser = r.q.browser
      /\ S.lock = r.c.lock /\ S.src = r.c.src
  BY TagFields
<1>1. CASE r.from = "scratch"
  <2>1. g = Image(r.q.base, r.q.browser, r.c.lock, r.c.src, r.q.extra, 1)
    BY <1>1 DEF GenerateDockerfile, Image
  <2> HIDE DEF g
  <2>2. IsImage(g) /\ g.base = r.q.base /\ g.browser = r.q.browser /\ g.lock = r.c.lock /\ g.src = r.c.src /\ g.layers = 1
    BY <2>1, <1>0, ImageFields
  <2>3. Fits(SourceTag(r.q, r.c), g)
    BY <2>2, <1>4 DEF Fits
  <2> QED BY <2>2, <2>3, <1>1 DEF g
<1>2. CASE r.from = "versioned"
  <2> DEFINE v == images[VersionedTag(r.q)]
  <2>1. IsImage(v) /\ Fits(VersionedTag(r.q), v) /\ (relabelled \/ v.layers <= 1)
    BY <1>2 DEF ImagesSound, IsRequest, BaseFound, Found, FewLayers, Most, VersionedTag
  <2>2. PICK w : w = (v.browser \/ r.q.browser)
    OBVIOUS
  <2>3. g = [OnTop(v, r.q, r.c) EXCEPT !.lock = r.c.lock, !.browser = @ \/ r.q.browser]
    BY <1>2 DEF GenerateDockerfile
  <2> HIDE DEF g, v
  <2>4. OnTop(v, r.q, r.c) = Image(v.base, v.browser, v.lock, r.c.src, v.extras \cup r.q.extra, v.layers + 1)
    BY <2>1, OnTopIs
  <2>5. g = Image(v.base, w, r.c.lock, r.c.src, v.extras \cup r.q.extra, v.layers + 1)
    <3> DEFINE e == v.extras \cup r.q.extra
               y == v.layers + 1
    <3>1. OnTop(v, r.q, r.c) = Image(v.base, v.browser, v.lock, r.c.src, e, y)
      BY <2>4
    <3> HIDE DEF e, y
    <3>2. OnTop(v, r.q, r.c).browser = v.browser
      BY <3>1, ImageFields
    <3>3. g = [[OnTop(v, r.q, r.c) EXCEPT !.lock = r.c.lock] EXCEPT !.browser = w]
      BY <2>2, <2>3, <3>2
    <3>4. [OnTop(v, r.q, r.c) EXCEPT !.lock = r.c.lock] = Image(v.base, v.browser, r.c.lock, r.c.src, e, y)
      BY <3>1 DEF Image
    <3>5. [Image(v.base, v.browser, r.c.lock, r.c.src, e, y) EXCEPT !.browser = w] = Image(v.base, w, r.c.lock, r.c.src, e, y)
      BY DEF Image
    <3> QED BY <3>3, <3>4, <3>5 DEF e, y
  <2>6. v.base = r.q.base /\ v.layers \in Nat /\ v.browser \in BOOLEAN
    BY <2>1 DEF Fits, IsImage, VersionedTag
  <2>7. w \in BOOLEAN /\ v.layers + 1 \in Nat
    BY <2>2, <2>6, <1>0
  <2>8. IsImage(g) /\ g.base = v.base /\ g.browser = w /\ g.lock = r.c.lock /\ g.src = r.c.src /\ g.layers = v.layers + 1
    BY <2>5, <2>7, ImageFields
  <2>9. Fits(SourceTag(r.q, r.c), g)
    BY <2>8, <2>2, <2>6, <1>4 DEF Fits
  <2>10. relabelled \/ g.layers <= 2
    BY <2>1, <2>6, <2>8
  <2> QED BY <2>8, <2>9, <2>10, <1>2 DEF g
<1>3. CASE r.from = "lock"
  <2> DEFINE v == images[LockTag(r.q, r.c)]
  <2>1. IsImage(v) /\ Fits(LockTag(r.q, r.c), v) /\ (relabelled \/ v.layers <= 2)
    BY <1>3, LockTagIs DEF ImagesSound, IsRequest, BaseFound, Found, FewLayers, Most
  <2>2. g = OnTop(v, r.q, r.c)
    BY <1>3 DEF GenerateDockerfile
  <2> HIDE DEF g, v
  <2>3. g = Image(v.base, v.browser, v.lock, r.c.src, v.extras \cup r.q.extra, v.layers + 1)
    BY <2>1, <2>2, OnTopIs
  <2>4. v.base = r.q.base /\ v.lock = r.c.lock /\ (r.q.browser => v.browser)
    BY <2>1, LockTagIs DEF Fits
  <2>5. v.layers \in Nat /\ v.browser \in BOOLEAN
    BY <2>1 DEF IsImage
  <2>6. v.layers + 1 \in Nat
    BY <2>5
  <2>7. IsImage(g) /\ g.base = v.base /\ g.browser = v.browser /\ g.lock = v.lock /\ g.src = r.c.src /\ g.layers = v.layers + 1
    BY <2>3, <2>5, <2>6, ImageFields
  <2>8. Fits(SourceTag(r.q, r.c), g)
    BY <2>7, <2>4, <1>4 DEF Fits
  <2>9. relabelled \/ g.layers <= 3
    BY <2>1, <2>5, <2>7
  <2> QED BY <2>7, <2>8, <2>9, <1>3 DEF g
<1> QED BY <1>1, <1>2, <1>3 DEF IsRequest

\* An image under a name of the request, of a build that was given that name.
LEMMA BuiltFits ==
  ASSUME ImagesSound, NEW r, IsRequest(r), NamesListed(r), NEW n \in Range(r.names)
  PROVE  LET g == GenerateDockerfile(r.q, r.c, r.from, images) IN
         /\ Fits(n, g) /\ (relabelled \/ g.layers <= Most(n.kind))
<1> DEFINE g == GenerateDockerfile(r.q, r.c, r.from, images)
<1>1. IsImage(g) /\ Fits(SourceTag(r.q, r.c), g)
      /\ (relabelled \/ g.layers <= (IF r.from = "scratch" THEN 1 ELSE IF r.from = "versioned" THEN 2 ELSE 3))
  BY DockerfileFits
<1> HIDE DEF g
<1>2. \/ n = SourceTag(r.q, r.c)
      \/ n = LockTag(r.q, r.c) /\ r.from # "lock"
      \/ n = VersionedTag(r.q) /\ r.from = "scratch"
  BY DEF NamesListed, Range
<1>3. Fits(n, g)
  BY <1>1, <1>2, NamesAgree DEF IsRequest
<1>4. g.layers \in Nat /\ r.from \in {"scratch", "versioned", "lock"}
  BY <1>1 DEF IsImage, IsRequest
<1>5. /\ SourceTag(r.q, r.c).kind = "source" /\ LockTag(r.q, r.c).kind = "lock"
      /\ VersionedTag(r.q).kind = "versioned"
  BY LockTagIs DEF SourceTag, VersionedTag
<1>6. relabelled \/ g.layers <= Most(n.kind)
  BY <1>1, <1>2, <1>4, <1>5 DEF Most
<1> QED BY <1>3, <1>6 DEF g

\* The parts of a request.
LEMMA RequestFields ==
  ASSUME NEW at1, NEW q1, NEW c1, NEW f1, NEW n1
  PROVE  LET r == BuildRequest(at1, q1, c1, f1, n1) IN
         /\ r.at = at1 /\ r.q = q1 /\ r.c = c1 /\ r.from = f1 /\ r.names = n1
  BY DEF BuildRequest

\* A request under the edits the steps make.
LEMMA RequestEdits ==
  ASSUME NEW r, r = BuildRequest(r.at, r.q, r.c, r.from, r.names)
  PROVE  /\ \A x : [r EXCEPT !.at = x] = BuildRequest(x, r.q, r.c, r.from, r.names)
         /\ \A x, y : [[r EXCEPT !.from = x] EXCEPT !.at = y] = BuildRequest(y, r.q, r.c, x, r.names)
         /\ \A x, y : [[r EXCEPT !.names = x] EXCEPT !.at = y] = BuildRequest(y, r.q, r.c, r.from, x)
         /\ \A x, y, z : [r EXCEPT !.at = x, !.from = y, !.names = z] = BuildRequest(x, r.q, r.c, y, z)
         /\ \A x, y, z : [r EXCEPT !.q = x, !.c = y, !.at = z] = BuildRequest(z, x, y, r.from, r.names)
<1>1. PICK t, q, c, f, n : r = BuildRequest(t, q, c, f, n)
  OBVIOUS
<1>2. r.at = t /\ r.q = q /\ r.c = c /\ r.from = f /\ r.names = n
  BY <1>1, RequestFields
<1>3. ASSUME NEW x
      PROVE  /\ [r EXCEPT !.at = x] = BuildRequest(x, q, c, f, n)
             /\ [r EXCEPT !.from = x] = BuildRequest(t, q, c, x, n)
             /\ [r EXCEPT !.names = x] = BuildRequest(t, q, c, f, x)
             /\ [r EXCEPT !.q = x] = BuildRequest(t, x, c, f, n)
  BY <1>1 DEF BuildRequest
<1>4. ASSUME NEW x, NEW y
      PROVE  [[r EXCEPT !.from = x] EXCEPT !.at = y] = BuildRequest(y, q, c, x, n)
  <2>1. [[r EXCEPT !.from = x] EXCEPT !.at = y] = [BuildRequest(t, q, c, x, n) EXCEPT !.at = y]
    BY <1>3
  <2>2. [BuildRequest(t, q, c, x, n) EXCEPT !.at = y] = BuildRequest(y, q, c, x, n)
    BY DEF BuildRequest
  <2> QED BY <2>1, <2>2
<1>5. ASSUME NEW x, NEW y
      PROVE  [[r EXCEPT !.names = x] EXCEPT !.at = y] = BuildRequest(y, q, c, f, x)
  <2>1. [[r EXCEPT !.names = x] EXCEPT !.at = y] = [BuildRequest(t, q, c, f, x) EXCEPT !.at = y]
    BY <1>3
  <2>2. [BuildRequest(t, q, c, f, x) EXCEPT !.at = y] = BuildRequest(y, q, c, f, x)
    BY DEF BuildRequest
  <2> QED BY <2>1, <2>2
<1>6. ASSUME NEW x, NEW y, NEW z
      PROVE  [r EXCEPT !.at = x, !.from = y, !.names = z] = BuildRequest(x, q, c, y, z)
  <2>1. [r EXCEPT !.at = x, !.from = y, !.names = z] = [BuildRequest(x, q, c, f, n) EXCEPT !.from = y, !.names = z]
    BY <1>3
  <2>2. [BuildRequest(x, q, c, f, n) EXCEPT !.from = y] = BuildRequest(x, q, c, y, n)
    BY DEF BuildRequest
  <2>3. [BuildRequest(x, q, c, f, n) EXCEPT !.from = y, !.names = z] = [BuildRequest(x, q, c, y, n) EXCEPT !.names = z]
    BY <2>2
  <2>4. [BuildRequest(x, q, c, y, n) EXCEPT !.names = z] = BuildRequest(x, q, c, y, z)
    BY DEF BuildRequest
  <2> QED BY <2>1, <2>3, <2>4
<1>7. ASSUME NEW x, NEW y, NEW z
      PROVE  [r EXCEPT !.q = x, !.c = y, !.at = z] = BuildRequest(z, x, y, r.from, r.names)
  <2>1. [r EXCEPT !.q = x, !.c = y, !.at = z] = [BuildRequest(t, x, c, f, n) EXCEPT !.c = y, !.at = z]
    BY <1>3
  <2>2. [BuildRequest(t, x, c, f, n) EXCEPT !.c = y] = BuildRequest(t, x, y, f, n)
    BY DEF BuildRequest
  <2>3. [BuildRequest(t, x, c, f, n) EXCEPT !.c = y, !.at = z] = [BuildRequest(t, x, y, f, n) EXCEPT !.at = z]
    BY <2>2
  <2>4. [BuildRequest(t, x, y, f, n) EXCEPT !.at = z] = BuildRequest(z, x, y, f, n)
    BY DEF BuildRequest
  <2> QED BY <2>1, <2>3, <2>4, <1>2
<1> QED
  <2>1. \A x : [r EXCEPT !.at = x] = BuildRequest(x, r.q, r.c, r.from, r.names)
    BY <1>2, <1>3
  <2>2. \A x, y : [[r EXCEPT !.from = x] EXCEPT !.at = y] = BuildRequest(y, r.q, r.c, x, r.names)
    BY <1>2, <1>4
  <2>3. \A x, y : [[r EXCEPT !.names = x] EXCEPT !.at = y] = BuildRequest(y, r.q, r.c, r.from, x)
    BY <1>2, <1>5
  <2>4. \A x, y, z : [r EXCEPT !.at = x, !.from = y, !.names = z] = BuildRequest(x, r.q, r.c, y, z)
    <3> SUFFICES ASSUME NEW x, NEW y, NEW z
                 PROVE  [r EXCEPT !.at = x, !.from = y, !.names = z] = BuildRequest(x, r.q, r.c, y, z)
      OBVIOUS
    <3>1. [r EXCEPT !.at = x, !.from = y, !.names = z] = BuildRequest(x, q, c, y, z)
      BY <1>6
    <3> QED BY <3>1, <1>2
  <2>5. \A x, y, z : [r EXCEPT !.q = x, !.c = y, !.at = z] = BuildRequest(z, x, y, r.from, r.names)
    BY <1>7
  <2> QED BY <2>1, <2>2, <2>3, <2>4, <2>5

\* A builder that rests while images are added stays sound.
LEMMA BuilderKept ==
  ASSUME NEW a \in Builders, BuilderSound(a), builder'[a] = builder[a], builderKind' = builderKind,
         DOMAIN images \subseteq DOMAIN images',
         builder[a].at = "retag" =>
            relabelled' \/ (~relabelled /\ images'[builder[a].names[1]] = images[builder[a].names[1]])
  PROVE  BuilderSound(a)'
<1>1. PICK r : r = builder[a]
  OBVIOUS
<1>2. \A n : Found(n) => Found(n)'
  BY DEF Found
<1>3. IsRequest(builder[a])'
  BY <1>1, <1>2 DEF BuilderSound, IsRequest, BaseFound
<1> QED BY <1>1, <1>2, <1>3 DEF BuilderSound, SourceListed, NamesListed

\* So does a job.
LEMMA JobKept ==
  ASSUME NEW j \in serverJobs, JobSound(j), serverJobs' \subseteq serverJobs,
         j.of \in Builders => builder'[j.of] = builder[j.of],
         DOMAIN images \subseteq DOMAIN images'
  PROVE  JobSound(j)'
<1>2. \A n : Found(n) => Found(n)'
  BY DEF Found
<1>3. IsRequest(j.build)'
  BY <1>2 DEF JobSound, IsRequest, BaseFound
<1> QED BY <1>3 DEF JobSound, NamesListed

\* A builder that does not poll has no job.
LEMMA NoJobOf ==
  ASSUME ImageInv, NEW b \in Builders, builder[b].at # "poll", NEW j \in serverJobs
  PROVE  j.of # b
  BY DEF ImageInv, JobSound

\* A step of one runtime, and of jobs, that moves no image.
LEMMA BuilderAndJobs ==
  ASSUME ImageInv, NEW b \in Builders,
         UNCHANGED <<builderKind, published, images, relabelled>>,
         DOMAIN builder' = DOMAIN builder, \A a \in Builders \ {b} : builder'[a] = builder[a],
         BuilderSound(b)', \A j \in serverJobs' : JobSound(j)', builderKind = "docker" => serverJobs' = {}
  PROVE  ImageInv'
<1>1. \A a \in Builders : BuilderSound(a)'
  <2> SUFFICES ASSUME NEW a \in Builders, a # b PROVE BuilderSound(a)'
    OBVIOUS
  <2> QED BY BuilderKept DEF ImageInv, ImagesSound
<1>3. ImagesSound'
  BY DEF ImageInv, ImagesSound, FewLayers
<1> QED BY <1>1, <1>3 DEF ImageInv

\* A step of one builder that moves no image and no job.
LEMMA BuilderMoves ==
  ASSUME ImageInv, NEW b \in Builders, builder[b].at # "poll",
         UNCHANGED <<builderKind, published, images, serverJobs, relabelled>>,
         DOMAIN builder' = DOMAIN builder, \A a \in Builders \ {b} : builder'[a] = builder[a],
         BuilderSound(b)'
  PROVE  ImageInv'
<1>2. \A j \in serverJobs : JobSound(j)'
  <2> SUFFICES ASSUME NEW j \in serverJobs PROVE JobSound(j)'
    OBVIOUS
  <2> QED BY JobKept, NoJobOf DEF ImageInv
<1> QED BY <1>2, BuilderAndJobs DEF ImageInv

\* A step of one runtime that puts an image under a name.
LEMMA BuilderStores ==
  ASSUME ImageInv, NEW b \in Builders, builder[b].at # "poll",
         UNCHANGED <<builderKind, published, serverJobs>>,
         DOMAIN builder' = DOMAIN builder, \A a \in Builders \ {b} : builder'[a] = builder[a],
         BuilderSound(b)',
         NEW n, NEW img, Store(n, img), IsImage(img), Fits(n, img), relabelled' \in BOOLEAN,
         relabelled => relabelled', relabelled' \/ img.layers <= Most(n.kind),
         \A a \in Builders \ {b} : builder[a].at = "retag" /\ builder[a].names[1] = n => relabelled'
  PROVE  ImageInv'
<1>0. /\ DOMAIN images' = DOMAIN images \cup {n} /\ images'[n] = img
      /\ \A m \in DOMAIN images \ {n} : images'[m] = images[m]
  BY DEF Store
<1>1. \A a \in Builders : BuilderSound(a)'
  <2> SUFFICES ASSUME NEW a \in Builders, a # b PROVE BuilderSound(a)'
    OBVIOUS
  <2>1. BuilderSound(a) /\ relabelled \in BOOLEAN
    BY DEF ImageInv, ImagesSound
  <2>2. ASSUME builder[a].at = "retag"
        PROVE  relabelled' \/ (~relabelled /\ images'[builder[a].names[1]] = images[builder[a].names[1]])
    BY <1>0, <2>1, <2>2 DEF BuilderSound, Found
  <2> QED BY BuilderKept, <1>0, <2>1, <2>2
<1>2. \A j \in serverJobs : JobSound(j)'
  <2> SUFFICES ASSUME NEW j \in serverJobs PROVE JobSound(j)'
    OBVIOUS
  <2> QED BY JobKept, NoJobOf, <1>0 DEF ImageInv
<1>3. ImagesSound'
  <2>1. \A m \in DOMAIN images' : IsImage(images'[m]) /\ Fits(m, images'[m])
    BY <1>0 DEF ImageInv, ImagesSound
  <2>2. FewLayers'
    BY <1>0 DEF ImageInv, ImagesSound, FewLayers
  <2> QED BY <2>1, <2>2 DEF ImagesSound
<1> QED BY <1>1, <1>2, <1>3 DEF ImageInv

\* At first there are published images and no builder works.
LEMMA ImageStarts == ImageInit => ImageInv
<1> SUFFICES ASSUME ImageInit PROVE ImageInv
  OBVIOUS
<1>1. Resting = BuildRequest("idle", Resting.q, [lock |-> 1, src |-> 1], "scratch", <<>>) /\ Resting.q \in ImageRequests
  BY ImageAssumption DEF Resting, BuildRequest
<1>2. ASSUME NEW b \in Builders PROVE BuilderSound(b)
  <2>1. builder[b] = Resting
    BY DEF ImageInit
  <2>2. Resting.at = "idle" /\ Resting.c = [lock |-> 1, src |-> 1] /\ Resting.from = "scratch" /\ Resting.names = <<>>
    BY DEF Resting
  <2> QED BY <1>1, <2>1, <2>2 DEF BuilderSound, IsRequest, BaseFound
<1>3. \A n \in published : n.kind = "versioned" \/ (n.kind = "lock" /\ n.lock = 1)
  <2>1. checkout.lock = 1
    BY DEF ImageInit
  <2>2. ASSUME NEW n \in published
        PROVE \E q \in ImageRequests : n = LockTag(q, checkout) \/ n = VersionedTag(q)
    BY DEF ImageInit
  <2> QED BY <2>1, <2>2, TagFields
<1>4. ImagesSound
  BY DEF ImageInit, ImagesSound, FewLayers
<1> QED BY <1>2, <1>3, <1>4 DEF ImageInit, ImageInv

\* The ends of a build, seen from the runtime.
LEMMA FinishesAs ==
  ASSUME ImageInv, NEW b \in Builders, NEW at1 \in {"returned", "nothing", "failed"}, Finishes(b, at1)
  PROVE  /\ DOMAIN builder' = DOMAIN builder /\ \A a \in Builders \ {b} : builder'[a] = builder[a]
         /\ at1 = "failed" => builder'[b] = Resting
         /\ at1 # "failed" => builder'[b] = BuildRequest(at1, builder[b].q, builder[b].c, "scratch", <<>>)
<1>1. PICK r : r = builder[b]
  OBVIOUS
<1>2. r = BuildRequest(r.at, r.q, r.c, r.from, r.names)
  BY <1>1 DEF ImageInv, BuilderSound, IsRequest
<1>3. builder' = [builder EXCEPT ![b] = IF at1 = "failed" THEN Resting ELSE [r EXCEPT !.at = at1, !.from = "scratch", !.names = <<>>]]
  BY <1>1 DEF Finishes
<1>4. [r EXCEPT !.at = at1, !.from = "scratch", !.names = <<>>] = BuildRequest(at1, r.q, r.c, "scratch", <<>>)
  <2>1. \A x, y, z : [r EXCEPT !.at = x, !.from = y, !.names = z] = BuildRequest(x, r.q, r.c, y, z)
    BY <1>2, RequestEdits
  <2> QED BY <2>1
<1>5. PICK y : y = [r EXCEPT !.at = at1, !.from = "scratch", !.names = <<>>]
  OBVIOUS
<1>6. builder' = [builder EXCEPT ![b] = IF at1 = "failed" THEN Resting ELSE y]
  BY <1>3, <1>5
<1>7. DOMAIN builder = Builders
  BY DEF ImageInv
<1> QED BY <1>1, <1>4, <1>5, <1>6, <1>7

\* What a builder keeps when it goes to another step.
LEMMA StepsToAs ==
  ASSUME ImageInv, NEW b \in Builders, NEW at1, StepsTo(b, at1)
  PROVE  /\ DOMAIN builder' = DOMAIN builder /\ \A a \in Builders \ {b} : builder'[a] = builder[a]
         /\ builder'[b] = BuildRequest(at1, builder[b].q, builder[b].c, builder[b].from, builder[b].names)
<1>1. PICK r : r = builder[b]
  OBVIOUS
<1>2. r = BuildRequest(r.at, r.q, r.c, r.from, r.names)
  BY <1>1 DEF ImageInv, BuilderSound, IsRequest
<1>3. [r EXCEPT !.at = at1] = BuildRequest(at1, r.q, r.c, r.from, r.names)
  BY <1>2, RequestEdits
<1>4. PICK y : y = [r EXCEPT !.at = at1]
  OBVIOUS
<1>5. builder' = [builder EXCEPT ![b] = y]
  BY <1>1, <1>4 DEF StepsTo
<1>7. DOMAIN builder = Builders
  BY DEF ImageInv
<1> QED BY <1>1, <1>3, <1>4, <1>5, <1>7

\* A builder at rest is sound.
LEMMA RestingSound ==
  ASSUME NEW b \in Builders, builder'[b] = Resting
  PROVE  BuilderSound(b)'
<1>1. Resting = BuildRequest("idle", Resting.q, [lock |-> 1, src |-> 1], "scratch", <<>>) /\ Resting.q \in ImageRequests
  BY ImageAssumption DEF Resting, BuildRequest
<1>2. Resting.at = "idle" /\ Resting.c = [lock |-> 1, src |-> 1] /\ Resting.from = "scratch" /\ Resting.names = <<>>
  BY DEF Resting
<1>3. PICK r : r = Resting
  OBVIOUS
<1>4. r = BuildRequest("idle", r.q, r.c, "scratch", r.names) /\ r.q \in ImageRequests /\ r.at = "idle" /\ r.from = "scratch"
  BY <1>1, <1>2, <1>3
<1>5. builder'[b] = r
  BY <1>3
<1>6. IsRequest(r)'
  BY <1>4 DEF IsRequest, BaseFound
<1> QED BY <1>4, <1>5, <1>6 DEF BuilderSound

\* A runtime asks for an image.
LEMMA AsksStep ==
  ASSUME ImageInv, NEW b \in Builders, NEW q \in ImageRequests, AsksImage(b, q)
  PROVE  ImageInv'
<1>1. PICK c : c = checkout
  OBVIOUS
<1>2. PICK t : t = (IF q.forced THEN "prepare" ELSE IF Found(SourceTag(q, checkout)) THEN "returned" ELSE "lock")
  OBVIOUS
<1>3. PICK rest : rest = Resting
  OBVIOUS
<1>4. rest = BuildRequest(rest.at, rest.q, rest.c, rest.from, rest.names) /\ rest.from = "scratch" /\ rest.names = <<>>
  BY <1>3 DEF Resting, BuildRequest
<1>5. [rest EXCEPT !.q = q, !.c = c, !.at = t] = BuildRequest(t, q, c, "scratch", <<>>)
  <2>1. \A x, y, z : [rest EXCEPT !.q = x, !.c = y, !.at = z] = BuildRequest(z, x, y, rest.from, rest.names)
    BY <1>4, RequestEdits
  <2>2. [rest EXCEPT !.q = q, !.c = c, !.at = t] = BuildRequest(t, q, c, rest.from, rest.names)
    BY <2>1
  <2> QED BY <2>2, <1>4
<1>6. DOMAIN builder = Builders /\ builder' = [builder EXCEPT ![b] = [rest EXCEPT !.q = q, !.c = c, !.at = t]]
  BY <1>1, <1>2, <1>3 DEF AsksImage, ImageInv
<1>7. PICK r : r = BuildRequest(t, q, c, "scratch", <<>>)
  OBVIOUS
<1>8. builder' = [builder EXCEPT ![b] = r]
  BY <1>5, <1>6, <1>7
<1>9. r.at = t /\ r.q = q /\ r.c = c /\ r.from = "scratch" /\ r.names = <<>>
  BY <1>7, RequestFields
<1>10. UNCHANGED <<builderKind, published, images, serverJobs, relabelled>> /\ builder[b].at # "poll"
  BY DEF AsksImage, Out
<1>11. BuilderSound(b)'
  <2>1. builder'[b] = r
    BY <1>6, <1>8
  <2>2. IsRequest(r)'
    BY <1>7, <1>9 DEF IsRequest, BaseFound
  <2>3. t = "returned" => Found(SourceTag(q, c))'
    BY <1>1, <1>2, <1>10 DEF Found
  <2>4. t \in {"prepare", "returned", "lock"} /\ (t = "lock" => ~q.forced)
    BY <1>2
  <2> QED BY <1>9, <2>1, <2>2, <2>3, <2>4 DEF BuilderSound
<1> QED BY <1>6, <1>8, <1>10, <1>11, BuilderMoves

\* Where a build with this base is prepared.
LEMMA PreparedSound ==
  ASSUME NEW b \in Builders, NEW q, NEW c, NEW f, NEW m,
         builder'[b] = BuildRequest("prepare", q, c, f, m),
         q \in ImageRequests, f \in {"scratch", "versioned", "lock"}, q.forced => f = "scratch",
         f = "lock" => Found(LockTag(q, c))', f = "versioned" => Found(VersionedTag(q))'
  PROVE  BuilderSound(b)'
<1>1. PICK r : r = BuildRequest("prepare", q, c, f, m)
  OBVIOUS
<1>2. r.at = "prepare" /\ r.q = q /\ r.c = c /\ r.from = f /\ r.names = m /\ builder'[b] = r
  BY <1>1, RequestFields
<1>3. IsRequest(r)'
  BY <1>1, <1>2 DEF IsRequest, BaseFound
<1> QED BY <1>2, <1>3 DEF BuilderSound

\* It finds an older one to build on.
LEMMA FindsOlderStep ==
  ASSUME ImageInv, NEW b \in Builders, FindsOlder(b)
  PROVE  ImageInv'
<1>1. PICK r : r = builder[b]
  OBVIOUS
<1>2. r = BuildRequest(r.at, r.q, r.c, r.from, r.names) /\ r.at \in {"lock", "versioned"} /\ ~r.q.forced /\ r.q \in ImageRequests
  BY <1>1 DEF ImageInv, BuilderSound, IsRequest, FindsOlder
<1>3. PICK n : n = Looked(b)
  OBVIOUS
<1>4. n = IF r.at = "lock" THEN LockTag(r.q, r.c) ELSE VersionedTag(r.q)
  BY <1>1, <1>3 DEF Looked
<1>5. builder' = [[builder EXCEPT ![b].from = r.at] EXCEPT ![b].at = "prepare"]
  BY <1>1 DEF FindsOlder
<1>6. DOMAIN builder = Builders
  BY DEF ImageInv
<1>7. [[r EXCEPT !.from = r.at] EXCEPT !.at = "prepare"] = BuildRequest("prepare", r.q, r.c, r.at, r.names)
  <2>1. \A x, y : [[r EXCEPT !.from = x] EXCEPT !.at = y] = BuildRequest(y, r.q, r.c, x, r.names)
    BY <1>2, RequestEdits
  <2> QED BY <2>1
<1>8. /\ builder'[b] = [[r EXCEPT !.from = r.at] EXCEPT !.at = "prepare"]
      /\ DOMAIN builder' = DOMAIN builder /\ \A a \in Builders \ {b} : builder'[a] = builder[a]
  <2>1. PICK x : x = [r EXCEPT !.from = r.at]
    OBVIOUS
  <2>2. PICK y : y = [x EXCEPT !.at = "prepare"]
    OBVIOUS
  <2>3. PICK bb : bb = [builder EXCEPT ![b] = x]
    OBVIOUS
  <2>4. bb = [builder EXCEPT ![b].from = r.at]
    BY <1>1, <1>6, <2>1, <2>3
  <2>5. bb[b] = x /\ DOMAIN bb = DOMAIN builder /\ \A a \in Builders \ {b} : bb[a] = builder[a]
    BY <1>6, <2>3
  <2>6. builder' = [bb EXCEPT ![b] = y]
    BY <1>5, <2>2, <2>4, <2>5
  <2> QED BY <1>6, <2>1, <2>2, <2>5, <2>6
<1>9. UNCHANGED <<builderKind, published, serverJobs, relabelled>> /\ builder[b].at # "poll"
  BY <1>1, <1>2 DEF FindsOlder
<1>10. ASSUME Found(n)' PROVE BuilderSound(b)'
  <2>1. r.at = "lock" => Found(LockTag(r.q, r.c))'
    BY <1>4, <1>10
  <2>2. r.at = "versioned" => Found(VersionedTag(r.q))'
    BY <1>4, <1>10
  <2>3. builder'[b] = BuildRequest("prepare", r.q, r.c, r.at, r.names)
    BY <1>7, <1>8
  <2> QED BY <1>2, <2>1, <2>2, <2>3, PreparedSound
<1>11. CASE Found(n) /\ UNCHANGED images
  <2>1. Found(n)'
    BY <1>11 DEF Found
  <2> QED BY <1>8, <1>9, <1>10, <1>11, <2>1, BuilderMoves
<1>12. CASE ~Found(n) /\ n \in published /\ Store(n, Released(n))
  <2>1. Found(n)'
    BY <1>12 DEF Found, Store
  <2>2. n.browser \in BOOLEAN
    <3>1. r.q.browser \in BOOLEAN
      BY <1>2, ImageAssumption
    <3>2. VersionedTag(r.q).browser = TRUE
      BY DEF VersionedTag
    <3>3. LockTag(r.q, r.c).browser = r.q.browser
      BY TagFields
    <3> QED BY <1>4, <3>1, <3>2, <3>3
  <2>3. n.kind = "versioned" \/ (n.kind = "lock" /\ n.lock = 1)
    BY <1>12 DEF ImageInv
  <2>4. Released(n) = Image(n.base, n.browser, 1, 1, {}, 1)
    BY DEF Released, Image
  <2>5. PICK img : img = Released(n)
    OBVIOUS
  <2>6. IsImage(img) /\ img.base = n.base /\ img.browser = n.browser /\ img.lock = 1 /\ img.layers = 1
    BY <2>2, <2>4, <2>5, ImageFields
  <2>7. Fits(n, img)
    BY <2>3, <2>6 DEF Fits
  <2>8. img.layers <= Most(n.kind)
    BY <2>6 DEF Most
  <2>9. relabelled' \in BOOLEAN /\ (relabelled => relabelled') /\ Store(n, img)
    BY <1>9, <1>12, <2>5 DEF ImageInv, ImagesSound
  <2>10. \A a \in Builders \ {b} : builder[a].at = "retag" /\ builder[a].names[1] = n => relabelled'
    BY <1>12 DEF ImageInv, BuilderSound, Found
  <2> QED BY <1>8, <1>9, <1>10, <2>1, <2>6, <2>7, <2>8, <2>9, <2>10, BuilderStores
<1> QED BY <1>3, <1>11, <1>12 DEF FindsOlder

\* It prepares the build.
LEMMA PreparesStep ==
  ASSUME ImageInv, NEW b \in Builders, MissesOlder(b) \/ PrepBuildFolder(b)
  PROVE  ImageInv'
<1>1. PICK r : r = builder[b]
  OBVIOUS
<1>2. BuilderSound(b) /\ IsRequest(r)
  BY <1>1 DEF ImageInv, BuilderSound
<1>3. PICK t \in {"versioned", "prepare", "list"} : StepsTo(b, t) /\ (t = "versioned" => r.at = "lock")
  BY <1>1 DEF MissesOlder, PrepBuildFolder, Here
<1>4. UNCHANGED <<builderKind, published, images, serverJobs, relabelled>> /\ builder[b].at # "poll"
  BY DEF MissesOlder, PrepBuildFolder, Here
<1>5. /\ DOMAIN builder' = DOMAIN builder /\ \A a \in Builders \ {b} : builder'[a] = builder[a]
      /\ builder'[b] = BuildRequest(t, r.q, r.c, r.from, r.names)
  BY <1>1, <1>3, StepsToAs
<1>6. PICK s : s = BuildRequest(t, r.q, r.c, r.from, r.names)
  OBVIOUS
<1>7. s.at = t /\ s.q = r.q /\ s.c = r.c /\ s.from = r.from /\ s.names = r.names /\ builder'[b] = s
  BY <1>5, <1>6, RequestFields
<1>8. IsRequest(s)'
  BY <1>2, <1>4, <1>6, <1>7 DEF IsRequest, BaseFound, Found
<1>9. t = "versioned" => ~r.q.forced
  BY <1>1, <1>2, <1>3 DEF BuilderSound
<1>10. BuilderSound(b)'
  BY <1>3, <1>7, <1>8, <1>9 DEF BuilderSound
<1> QED BY <1>4, <1>5, <1>10, BuilderMoves

\* Lists of one, two and three elements, joined.
LEMMA JoinTwo ==
  ASSUME NEW x, NEW y
  PROVE  <<x>> \o <<y>> = <<x, y>>
<1> DEFINE T == {x, y}
           s == <<x>> \o <<y>>
           t == <<x, y>>
<1>1. <<x>> \in Seq(T) /\ <<y>> \in Seq(T) /\ t \in Seq(T)
  OBVIOUS
<1>2. s \in Seq(T) /\ Len(s) = 2 /\ s[1] = x /\ s[2] = y
  BY <1>1
<1>3. Len(t) = 2 /\ t[1] = x /\ t[2] = y
  OBVIOUS
<1> HIDE DEF T, s, t
<1>4. s = t
  BY <1>1, <1>2, <1>3, SeqEqual
<1> QED BY <1>4 DEF s, t

\* Three names joined.
LEMMA JoinThree ==
  ASSUME NEW x, NEW y, NEW z
  PROVE  <<x, y>> \o <<z>> = <<x, y, z>>
<1> DEFINE T == {x, y, z}
           s == <<x, y>> \o <<z>>
           t == <<x, y, z>>
<1>1. <<x, y>> \in Seq(T) /\ <<z>> \in Seq(T) /\ t \in Seq(T)
  OBVIOUS
<1>2. s \in Seq(T) /\ Len(s) = 3 /\ s[1] = x /\ s[2] = y /\ s[3] = z
  BY <1>1
<1>3. Len(t) = 3 /\ t[1] = x /\ t[2] = y /\ t[3] = z
  OBVIOUS
<1> HIDE DEF T, s, t
<1>4. s = t
  BY <1>1, <1>2, <1>3, SeqEqual
<1> QED BY <1>4 DEF s, t

\* The names that are missing are a list a build may be given.
LEMMA ListedAs ==
  ASSUME NEW b \in Builders, NEW r, r = builder[b], IsRequest(r), MissingNames(b) # <<>>
  PROVE  LET m == MissingNames(b) IN
         /\ NamesListed(BuildRequest("build", r.q, r.c, r.from, m))
         /\ m[1] = SourceTag(r.q, r.c) \/ Found(SourceTag(r.q, r.c))
<1> DEFINE S == SourceTag(r.q, r.c)
           L == LockTag(r.q, r.c)
           V == VersionedTag(r.q)
           m == MissingNames(b)
<1>1. r.q.forced \in BOOLEAN /\ r.from \in {"scratch", "versioned", "lock"}
  BY ImageAssumption DEF IsRequest
<1>2. m = Missing(b, S) \o Missing(b, L) \o (IF r.from = "scratch" THEN Missing(b, V) ELSE <<>>)
  BY DEF MissingNames
<1>3. \A n : Missing(b, n) = <<n>> \/ (Missing(b, n) = <<>> /\ ~r.q.forced /\ Found(n))
  BY <1>1 DEF Missing
<1>4. r.from = "lock" => Missing(b, L) = <<>>
  BY <1>1 DEF Missing, IsRequest, BaseFound
<1>5. PICK x : x = Missing(b, S)
  OBVIOUS
<1>6. PICK y : y = Missing(b, L)
  OBVIOUS
<1>7. PICK z : z = IF r.from = "scratch" THEN Missing(b, V) ELSE <<>>
  OBVIOUS
<1>8. x = <<S>> \/ (x = <<>> /\ Found(S))
  BY <1>3, <1>5
<1>9. (y = <<L>> /\ r.from # "lock") \/ y = <<>>
  BY <1>3, <1>4, <1>6
<1>10. (z = <<V>> /\ r.from = "scratch") \/ z = <<>>
  BY <1>3, <1>7
<1>11. m = x \o y \o z
  BY <1>2, <1>5, <1>6, <1>7
<1> HIDE DEF S, L, V, m
<1>12. \/ x = <<S>> /\ m[1] = S
       \/ Found(S)
  BY <1>8, <1>9, <1>10, <1>11
<1>13. \/ m = <<S>>
       \/ r.from # "lock" /\ (m = <<L>> \/ m = <<S, L>>)
       \/ /\ r.from = "scratch"
          /\ m = <<V>> \/ m = <<S, V>> \/ m = <<L, V>> \/ m = <<S, L, V>>
       \/ m = <<>>
  <2>1. PICK w : w = x \o y
    OBVIOUS
  <2>2. w = <<>> \/ w = <<S>> \/ (r.from # "lock" /\ (w = <<L>> \/ w = <<S, L>>))
    <3>1. CASE y = <<>>
      BY <1>8, <2>1, <3>1
    <3>2. CASE y = <<L>> /\ r.from # "lock"
      <4>1. <<S>> \o <<L>> = <<S, L>> /\ <<>> \o <<L>> = <<L>>
        BY JoinTwo
      <4> QED BY <1>8, <2>1, <3>2, <4>1
    <3> QED BY <1>9, <3>1, <3>2
  <2>3. m = w \o z
    BY <1>11, <2>1
  <2>4. CASE z = <<>>
    BY <2>2, <2>3, <2>4
  <2>5. CASE z = <<V>> /\ r.from = "scratch"
    <3>1. /\ <<>> \o <<V>> = <<V>> /\ <<S>> \o <<V>> = <<S, V>>
          /\ <<L>> \o <<V>> = <<L, V>> /\ <<S, L>> \o <<V>> = <<S, L, V>>
      BY JoinTwo, JoinThree
    <3> QED BY <2>2, <2>3, <2>5, <3>1
  <2> QED BY <1>10, <2>4, <2>5
<1>14. PICK s : s = BuildRequest("build", r.q, r.c, r.from, m)
  OBVIOUS
<1>15. s.q = r.q /\ s.c = r.c /\ s.from = r.from /\ s.names = m
  BY <1>14, RequestFields
<1>16. NamesListed(s)
  BY <1>13, <1>15 DEF NamesListed, S, L, V, m
<1> QED BY <1>12, <1>14, <1>16 DEF S, m

\* It lists the names the image is to have.
LEMMA ListsStep ==
  ASSUME ImageInv, NEW b \in Builders, ListsNames(b)
  PROVE  ImageInv'
<1>1. PICK r : r = builder[b]
  OBVIOUS
<1>2. BuilderSound(b) /\ IsRequest(r) /\ r.at = "list"
  BY <1>1 DEF ImageInv, BuilderSound, ListsNames, Here
<1>4. UNCHANGED <<builderKind, published, images, serverJobs, relabelled>> /\ builder[b].at # "poll"
  BY DEF ListsNames, Here
<1>5. CASE MissingNames(b) = <<>>
  <2>1. Finishes(b, "nothing")
    BY <1>5 DEF ListsNames
  <2>2. /\ DOMAIN builder' = DOMAIN builder /\ \A a \in Builders \ {b} : builder'[a] = builder[a]
        /\ builder'[b] = BuildRequest("nothing", r.q, r.c, "scratch", <<>>)
    BY <1>1, <2>1, FinishesAs
  <2>3. Found(SourceTag(r.q, r.c))
    <3>1. r.q.forced \in BOOLEAN
      BY <1>2, ImageAssumption DEF IsRequest
    <3>2. PICK x : x = Missing(b, SourceTag(r.q, r.c))
      OBVIOUS
    <3>3. PICK y : y = Missing(b, LockTag(r.q, r.c))
      OBVIOUS
    <3>4. PICK z : z = IF r.from = "scratch" THEN Missing(b, VersionedTag(r.q)) ELSE <<>>
      OBVIOUS
    <3>5. x \o y \o z = <<>>
      BY <1>1, <1>5, <3>2, <3>3, <3>4 DEF MissingNames
    <3>6. /\ x = <<SourceTag(r.q, r.c)>> \/ (x = <<>> /\ Found(SourceTag(r.q, r.c)))
          /\ \E n : y = <<n>> \/ y = <<>>
          /\ \E n : z = <<n>> \/ z = <<>>
      BY <1>1, <3>2, <3>3, <3>4 DEF Missing
    <3> QED BY <3>5, <3>6
  <2>4. PICK s : s = BuildRequest("nothing", r.q, r.c, "scratch", <<>>)
    OBVIOUS
  <2>5. s.at = "nothing" /\ s.q = r.q /\ s.c = r.c /\ s.from = "scratch" /\ s.names = <<>> /\ builder'[b] = s
    BY <2>2, <2>4, RequestFields
  <2>6. IsRequest(s)'
    BY <1>2, <2>4, <2>5 DEF IsRequest, BaseFound
  <2>7. BuilderSound(b)'
    BY <1>4, <2>3, <2>5, <2>6 DEF BuilderSound, Found
  <2> QED BY <1>4, <2>2, <2>7, BuilderMoves
<1>6. CASE MissingNames(b) # <<>>
  <2>1. PICK m : m = MissingNames(b)
    OBVIOUS
  <2>2. builder' = [[builder EXCEPT ![b].names = m] EXCEPT ![b].at = "build"]
    BY <1>6, <2>1 DEF ListsNames
  <2>3. DOMAIN builder = Builders
    BY DEF ImageInv
  <2>4. [[r EXCEPT !.names = m] EXCEPT !.at = "build"] = BuildRequest("build", r.q, r.c, r.from, m)
    <3>1. \A x, y : [[r EXCEPT !.names = x] EXCEPT !.at = y] = BuildRequest(y, r.q, r.c, r.from, x)
      BY <1>2, RequestEdits DEF IsRequest
    <3> QED BY <3>1
  <2>5. /\ builder'[b] = [[r EXCEPT !.names = m] EXCEPT !.at = "build"]
        /\ DOMAIN builder' = DOMAIN builder /\ \A a \in Builders \ {b} : builder'[a] = builder[a]
    <3>1. PICK x : x = [r EXCEPT !.names = m]
      OBVIOUS
    <3>2. PICK y : y = [x EXCEPT !.at = "build"]
      OBVIOUS
    <3>3. PICK bb : bb = [builder EXCEPT ![b] = x]
      OBVIOUS
    <3>4. bb = [builder EXCEPT ![b].names = m]
      BY <1>1, <2>3, <3>1, <3>3
    <3>5. bb[b] = x /\ DOMAIN bb = DOMAIN builder /\ \A a \in Builders \ {b} : bb[a] = builder[a]
      BY <2>3, <3>3
    <3>6. builder' = [bb EXCEPT ![b] = y]
      BY <2>2, <3>2, <3>4, <3>5
    <3> QED BY <2>3, <3>1, <3>2, <3>5, <3>6
  <2>6. PICK s : s = BuildRequest("build", r.q, r.c, r.from, m)
    OBVIOUS
  <2>7. s.at = "build" /\ s.q = r.q /\ s.c = r.c /\ s.from = r.from /\ s.names = m /\ builder'[b] = s
    BY <2>4, <2>5, <2>6, RequestFields
  <2>8. NamesListed(s) /\ SourceListed(s)
    BY <1>1, <1>2, <1>6, <2>1, <2>6, <2>7, ListedAs DEF SourceListed
  <2>9. IsRequest(s)'
    BY <1>2, <1>4, <2>6, <2>7 DEF IsRequest, BaseFound, Found
  <2>10. NamesListed(s)' /\ SourceListed(s)'
    BY <1>4, <2>8 DEF NamesListed, SourceListed, Found
  <2>11. BuilderSound(b)'
    BY <2>7, <2>9, <2>10 DEF BuilderSound
  <2> QED BY <1>4, <2>5, <2>11, BuilderMoves
<1> QED BY <1>5, <1>6

\* The first name of a list, and the others.
LEMMA FirstName ==
  ASSUME NEW r, NamesListed(r)
  PROVE  /\ Len(r.names) \in {1, 2, 3} /\ r.names[1] \in Range(r.names)
         /\ Len(r.names) > 1 => r.names[2] \in Range(r.names)
         /\ Len(r.names) > 1 => /\ r.names[1] \in {SourceTag(r.q, r.c), LockTag(r.q, r.c)}
                                /\ r.names[2] \in {LockTag(r.q, r.c), VersionedTag(r.q)}
                                /\ r.names[1] # SourceTag(r.q, r.c) => r.names[2] = VersionedTag(r.q)
<1> DEFINE S == SourceTag(r.q, r.c)
           L == LockTag(r.q, r.c)
           V == VersionedTag(r.q)
<1>1. \/ r.names = <<S>> \/ r.names = <<L>> \/ r.names = <<V>>
      \/ r.names = <<S, L>> \/ r.names = <<S, V>> \/ r.names = <<L, V>> \/ r.names = <<S, L, V>>
  BY DEF NamesListed
<1> HIDE DEF S, L, V
<1>2. Len(r.names) \in {1, 2, 3}
  BY <1>1
<1>3. r.names[1] \in Range(r.names)
  BY <1>1 DEF Range
<1>4. ASSUME Len(r.names) > 1
      PROVE  /\ r.names[1] \in {S, L} /\ r.names[2] \in {L, V}
             /\ r.names[1] # S => r.names[2] = V
  BY <1>1, <1>4
<1>5. ASSUME Len(r.names) > 1
      PROVE  r.names[2] \in Range(r.names)
  BY <1>1, <1>5 DEF Range
<1> QED BY <1>2, <1>3, <1>4, <1>5 DEF S, L, V

\* A name that is moved under a builder which relies on it is on record.
LEMMA RelabelsAs ==
  ASSUME ImageInv, NEW b \in Builders, NEW n, Relabels(b, n)
  PROVE  /\ relabelled' \in BOOLEAN /\ (relabelled => relabelled')
         /\ \A a \in Builders \ {b} : builder[a].at = "retag" /\ builder[a].names[1] = n => relabelled'
  BY DEF Relabels, Here, ImageInv, ImagesSound

\* A runtime that is given its image.
LEMMA ReturnedSound ==
  ASSUME NEW b \in Builders, NEW q \in ImageRequests, NEW c,
         builder'[b] = BuildRequest("returned", q, c, "scratch", <<>>), Found(SourceTag(q, c))'
  PROVE  BuilderSound(b)'
<1>1. PICK s : s = BuildRequest("returned", q, c, "scratch", <<>>)
  OBVIOUS
<1>2. s.at = "returned" /\ s.q = q /\ s.c = c /\ s.from = "scratch" /\ s.names = <<>> /\ builder'[b] = s
  BY <1>1, RequestFields
<1>3. IsRequest(s)'
  BY <1>1, <1>2 DEF IsRequest, BaseFound
<1> QED BY <1>2, <1>3 DEF BuilderSound

\* Docker builds the image under its first name.
LEMMA DockerBuildsStep ==
  ASSUME ImageInv, NEW b \in Builders, DockerBuilds(b)
  PROVE  ImageInv'
<1>1. PICK r : r = builder[b]
  OBVIOUS
<1>2. BuilderSound(b) /\ IsRequest(r) /\ r.at = "build" /\ NamesListed(r) /\ SourceListed(r) /\ ImagesSound
  BY <1>1 DEF ImageInv, BuilderSound, DockerBuilds, Here
<1>3. PICK n : n = r.names[1]
  OBVIOUS
<1>4. PICK g : g = GenerateDockerfile(r.q, r.c, r.from, images)
  OBVIOUS
<1>5. Store(n, g) /\ Relabels(b, n) /\ builderKind = "docker"
      /\ UNCHANGED <<builderKind, published, serverJobs>>
  BY <1>1, <1>3, <1>4 DEF DockerBuilds
<1>6. IsImage(g)
  BY <1>2, <1>4, DockerfileFits
<1>7. Fits(n, g) /\ (relabelled \/ g.layers <= Most(n.kind))
  BY <1>2, <1>3, <1>4, FirstName, BuiltFits
<1>8. /\ relabelled' \in BOOLEAN /\ (relabelled => relabelled')
      /\ \A a \in Builders \ {b} : builder[a].at = "retag" /\ builder[a].names[1] = n => relabelled'
  BY <1>5, RelabelsAs
<1>9. DOMAIN images' = DOMAIN images \cup {n} /\ images'[n] = g
  BY <1>5 DEF Store
<1>10. Found(SourceTag(r.q, r.c))'
  BY <1>2, <1>3, <1>9 DEF SourceListed, Found
<1>11. builder[b].at # "poll"
  BY <1>1, <1>2
<1>12. CASE Len(r.names) > 1
  <2>1. StepsTo(b, "retag")
    BY <1>1, <1>12 DEF DockerBuilds
  <2>2. /\ DOMAIN builder' = DOMAIN builder /\ \A a \in Builders \ {b} : builder'[a] = builder[a]
        /\ builder'[b] = BuildRequest("retag", r.q, r.c, r.from, r.names)
    BY <1>1, <2>1, StepsToAs
  <2>3. PICK s : s = BuildRequest("retag", r.q, r.c, r.from, r.names)
    OBVIOUS
  <2>4. s.at = "retag" /\ s.q = r.q /\ s.c = r.c /\ s.from = r.from /\ s.names = r.names /\ builder'[b] = s
    BY <2>2, <2>3, RequestFields
  <2>5. IsRequest(s)'
    BY <1>2, <1>9, <2>3, <2>4 DEF IsRequest, BaseFound, Found
  <2>6. NamesListed(s)' /\ SourceListed(s)'
    BY <1>2, <1>10, <2>4 DEF NamesListed, SourceListed
  <2>7. relabelled' \/ images'[n].layers <= Most(s.names[2].kind)
    <3>1. r.names[2] \in Range(r.names)
      BY <1>2, <1>12, FirstName
    <3>2. relabelled \/ g.layers <= Most(r.names[2].kind)
      BY <1>2, <1>4, <3>1, BuiltFits
    <3> QED BY <1>8, <1>9, <2>4, <3>2
  <2>8. BuilderSound(b)'
    BY <1>3, <1>5, <1>9, <1>12, <2>4, <2>5, <2>6, <2>7 DEF BuilderSound, Found
  <2> QED BY <1>5, <1>6, <1>7, <1>8, <1>11, <2>2, <2>8, BuilderStores
<1>13. CASE ~(Len(r.names) > 1)
  <2>1. Finishes(b, "returned")
    BY <1>1, <1>13 DEF DockerBuilds
  <2>2. /\ DOMAIN builder' = DOMAIN builder /\ \A a \in Builders \ {b} : builder'[a] = builder[a]
        /\ builder'[b] = BuildRequest("returned", r.q, r.c, "scratch", <<>>)
    BY <1>1, <2>1, FinishesAs
  <2>3. BuilderSound(b)'
    BY <1>2, <1>10, <2>2, ReturnedSound DEF IsRequest
  <2> QED BY <1>5, <1>6, <1>7, <1>8, <1>11, <2>2, <2>3, BuilderStores
<1> QED BY <1>12, <1>13

\* Docker gives it its other names.
LEMMA DockerRetagsStep ==
  ASSUME ImageInv, NEW b \in Builders, DockerRetags(b)
  PROVE  ImageInv'
<1>1. PICK r : r = builder[b]
  OBVIOUS
<1>2. /\ BuilderSound(b) /\ IsRequest(r) /\ r.at = "retag" /\ NamesListed(r) /\ SourceListed(r) /\ ImagesSound
      /\ Len(r.names) > 1 /\ Found(r.names[1])
      /\ relabelled \/ images[r.names[1]].layers <= Most(r.names[2].kind)
  BY <1>1 DEF ImageInv, BuilderSound, DockerRetags, Here
<1>3. PICK n : n = r.names[2]
  OBVIOUS
<1>4. PICK g : g = images[r.names[1]]
  OBVIOUS
<1>5. Store(n, g) /\ Relabels(b, n) /\ UNCHANGED <<builderKind, published, serverJobs>> /\ Finishes(b, "returned")
  BY <1>1, <1>3, <1>4 DEF DockerRetags
<1>6. IsImage(g) /\ Fits(r.names[1], g)
  BY <1>2, <1>4 DEF ImagesSound, Found
<1>7. Fits(n, g)
  BY <1>2, <1>3, <1>6, FirstName, NamesAgree
<1>8. /\ relabelled' \in BOOLEAN /\ (relabelled => relabelled')
      /\ \A a \in Builders \ {b} : builder[a].at = "retag" /\ builder[a].names[1] = n => relabelled'
  BY <1>5, RelabelsAs
<1>9. DOMAIN images' = DOMAIN images \cup {n}
  BY <1>5 DEF Store
<1>10. Found(SourceTag(r.q, r.c))'
  BY <1>2, <1>9 DEF SourceListed, Found
<1>11. builder[b].at # "poll" /\ (relabelled' \/ g.layers <= Most(n.kind))
  BY <1>1, <1>2, <1>3, <1>4, <1>8
<1>12. /\ DOMAIN builder' = DOMAIN builder /\ \A a \in Builders \ {b} : builder'[a] = builder[a]
       /\ builder'[b] = BuildRequest("returned", r.q, r.c, "scratch", <<>>)
  BY <1>1, <1>5, FinishesAs
<1>13. BuilderSound(b)'
  BY <1>2, <1>10, <1>12, ReturnedSound DEF IsRequest
<1> QED BY <1>5, <1>6, <1>7, <1>8, <1>11, <1>12, <1>13, BuilderStores

\* The build is given to the build server.
LEMMA SubmitsStep ==
  ASSUME ImageInv, NEW b \in Builders, SubmitsBuild(b)
  PROVE  ImageInv'
<1>1. PICK r : r = builder[b]
  OBVIOUS
<1>2. BuilderSound(b) /\ IsRequest(r) /\ r.at = "build" /\ NamesListed(r) /\ SourceListed(r)
  BY <1>1 DEF ImageInv, BuilderSound, SubmitsBuild, Here
<1>3. UNCHANGED <<builderKind, published, images, relabelled>> /\ builderKind = "remote"
      /\ serverJobs' = serverJobs \cup {JobOf(b, r, "running")} /\ StepsTo(b, "poll")
  BY <1>1 DEF SubmitsBuild, JobOf
<1>4. /\ DOMAIN builder' = DOMAIN builder /\ \A a \in Builders \ {b} : builder'[a] = builder[a]
      /\ builder'[b] = BuildRequest("poll", r.q, r.c, r.from, r.names)
  BY <1>1, <1>3, StepsToAs
<1>5. PICK s : s = BuildRequest("poll", r.q, r.c, r.from, r.names)
  OBVIOUS
<1>6. s.at = "poll" /\ s.q = r.q /\ s.c = r.c /\ s.from = r.from /\ s.names = r.names /\ builder'[b] = s
  BY <1>4, <1>5, RequestFields
<1>7. IsRequest(s)' /\ IsRequest(r)'
  BY <1>2, <1>3, <1>5, <1>6 DEF IsRequest, BaseFound, Found
<1>8. BuilderSound(b)'
  BY <1>2, <1>3, <1>6, <1>7 DEF BuilderSound, NamesListed, SourceListed, Found
<1>9. ASSUME NEW j \in serverJobs' PROVE JobSound(j)'
  <2>1. CASE j = JobOf(b, r, "running")
    <3>1. j.of = b /\ j.build = r /\ j.status = "running"
      BY <2>1 DEF JobOf
    <3>2. \A k \in serverJobs' : k.of = j.of /\ k.of \in Builders => k = j
      BY <1>1, <1>2, <1>3, <2>1, <3>1, NoJobOf
    <3>3. NamesListed(r)'
      BY <1>2 DEF NamesListed
    <3> QED BY <1>6, <1>7, <2>1, <3>1, <3>2, <3>3 DEF JobSound
  <2>2. CASE j \in serverJobs
    <3>1. JobSound(j) /\ j.of # b
      BY <1>1, <1>2, <2>2, NoJobOf DEF ImageInv
    <3>2. \A k \in serverJobs' : k.of = j.of /\ k.of \in Builders => k = j
      BY <1>3, <2>2, <3>1 DEF JobSound, JobOf
    <3>3. IsRequest(j.build)'
      BY <1>3, <3>1 DEF JobSound, IsRequest, BaseFound, Found
    <3> QED BY <1>3, <1>4, <3>1, <3>2, <3>3 DEF JobSound, NamesListed
  <2> QED BY <1>3, <2>1, <2>2
<1> QED BY <1>3, <1>4, <1>8, <1>9, BuilderAndJobs

\* A job under the edits the steps make.
LEMMA JobEdits ==
  ASSUME NEW j, j = JobOf(j.of, j.build, j.status), NEW x
  PROVE  /\ [j EXCEPT !.status = x] = JobOf(j.of, j.build, x)
         /\ [j EXCEPT !.of = x] = JobOf(x, j.build, j.status)
<1>1. PICK o, u, t : j = JobOf(o, u, t)
  OBVIOUS
<1>2. j.of = o /\ j.build = u /\ j.status = t
  BY <1>1 DEF JobOf
<1>3. [j EXCEPT !.status = x] = JobOf(o, u, x) /\ [j EXCEPT !.of = x] = JobOf(x, u, t)
  BY <1>1 DEF JobOf
<1> QED BY <1>2, <1>3

\* The parts of a job.
LEMMA JobFields ==
  ASSUME NEW o, NEW u, NEW t
  PROVE  JobOf(o, u, t).of = o /\ JobOf(o, u, t).build = u /\ JobOf(o, u, t).status = t
  BY DEF JobOf

\* The builder asks how its job is doing.
LEMMA PollsStep ==
  ASSUME ImageInv, NEW b \in Builders, NEW j \in serverJobs, PollsBuild(b, j)
  PROVE  ImageInv'
<1>1. PICK r : r = builder[b]
  OBVIOUS
<1>2. BuilderSound(b) /\ IsRequest(r) /\ r.at = "poll" /\ NamesListed(r) /\ SourceListed(r) /\ JobSound(j) /\ j.of = b
  BY <1>1 DEF ImageInv, BuilderSound, PollsBuild, Here
<1>3. UNCHANGED <<builderKind, published, images, relabelled>> /\ serverJobs' = serverJobs \ {j}
      /\ Finishes(b, IF j.status = "success" THEN "returned" ELSE "failed")
  BY DEF PollsBuild
<1>4. ASSUME NEW k \in serverJobs' PROVE JobSound(k)'
  <2>1. k \in serverJobs /\ k # j /\ JobSound(k) /\ (k.of \in Builders => k.of # b)
    BY <1>2, <1>3 DEF ImageInv, JobSound
  <2>2. k.of \in Builders => builder'[k.of] = builder[k.of]
    BY <1>3, <2>1, FinishesAs
  <2> QED BY <1>3, <2>1, <2>2, JobKept
<1>5. builderKind = "docker" => serverJobs' = {}
  BY <1>3 DEF ImageInv
<1>6. CASE j.status = "success"
  <2>1. Finishes(b, "returned")
    BY <1>3, <1>6
  <2>2. /\ DOMAIN builder' = DOMAIN builder /\ \A a \in Builders \ {b} : builder'[a] = builder[a]
        /\ builder'[b] = BuildRequest("returned", r.q, r.c, "scratch", <<>>)
    BY <1>1, <2>1, FinishesAs
  <2>3. Found(r.names[1])
    BY <1>1, <1>2, <1>6, FirstName DEF JobSound, Found
  <2>4. Found(SourceTag(r.q, r.c))'
    BY <1>2, <1>3, <2>3 DEF SourceListed, Found
  <2>5. BuilderSound(b)'
    BY <1>2, <2>2, <2>4, ReturnedSound DEF IsRequest
  <2> QED BY <1>3, <1>4, <1>5, <2>2, <2>5, BuilderAndJobs
<1>7. CASE j.status # "success"
  <2>1. Finishes(b, "failed")
    BY <1>3, <1>7
  <2>2. /\ DOMAIN builder' = DOMAIN builder /\ \A a \in Builders \ {b} : builder'[a] = builder[a]
        /\ builder'[b] = Resting
    BY <2>1, FinishesAs
  <2>3. BuilderSound(b)'
    BY <2>2, RestingSound
  <2> QED BY <1>3, <1>4, <1>5, <2>2, <2>3, BuilderAndJobs
<1> QED BY <1>6, <1>7

\* The build fails, or the builder goes away.
LEMMA FailsStep ==
  ASSUME ImageInv, NEW b \in Builders, BuildFails(b)
  PROVE  ImageInv'
<1>1. UNCHANGED <<builderKind, published, images, relabelled>> /\ Finishes(b, "failed")
  BY DEF BuildFails
<1>2. /\ DOMAIN builder' = DOMAIN builder /\ \A a \in Builders \ {b} : builder'[a] = builder[a]
      /\ builder'[b] = Resting
  BY <1>1, FinishesAs
<1>3. BuilderSound(b)'
  BY <1>2, RestingSound
<1>4. CASE builder[b].at = "build" /\ UNCHANGED serverJobs
  BY <1>1, <1>2, <1>3, <1>4, BuilderMoves
<1>5. CASE serverJobs' = {IF j.of = b THEN [j EXCEPT !.of = 0] ELSE j : j \in {k \in serverJobs : k.of # b \/ k.status = "running"}}
  <2>1. ASSUME NEW i \in serverJobs' PROVE JobSound(i)'
    <3>1. PICK j \in serverJobs : i = IF j.of = b THEN [j EXCEPT !.of = 0] ELSE j
      BY <1>5
    <3>2. JobSound(j) /\ (j.status = "success" => Range(j.build.names) \subseteq DOMAIN images)
      BY DEF ImageInv, JobSound
    <3>3. i = IF j.of = b THEN JobOf(0, j.build, j.status) ELSE j
      BY <3>1, <3>2, JobEdits DEF JobSound
    <3>4. i = JobOf(i.of, i.build, i.status) /\ i.build = j.build /\ i.status = j.status
          /\ i.of = (IF j.of = b THEN 0 ELSE j.of)
      BY <3>2, <3>3, JobFields DEF JobSound
    <3>5. i.of \in Builders => i = j /\ j.of # b
      BY <3>3, <3>4, ImageAssumption
    <3>6. \A k \in serverJobs' : k.of = i.of /\ k.of \in Builders => k = i
      <4> SUFFICES ASSUME NEW k \in serverJobs', k.of = i.of, k.of \in Builders PROVE k = i
        OBVIOUS
      <4>1. PICK l \in serverJobs : k = IF l.of = b THEN [l EXCEPT !.of = 0] ELSE l
        BY <1>5
      <4>2. l = JobOf(l.of, l.build, l.status)
        BY DEF ImageInv, JobSound
      <4>3. l.of = b => k.of = 0
        BY <4>1, <4>2, JobEdits, JobFields
      <4>4. l.of # b /\ k = l
        BY <4>1, <4>3, ImageAssumption
      <4> QED BY <3>2, <3>5, <4>4 DEF JobSound
    <3>7. IsRequest(i.build)' /\ NamesListed(i.build)'
      BY <1>1, <3>2, <3>4 DEF JobSound, IsRequest, BaseFound, Found, NamesListed
    <3>8. i.of \in Builders => builder'[i.of] = builder[i.of]
      BY <1>2, <3>5
    <3> QED BY <1>1, <3>2, <3>4, <3>5, <3>6, <3>7, <3>8 DEF JobSound
  <2>2. builderKind = "docker" => serverJobs' = {}
    BY <1>5 DEF ImageInv
  <2> QED BY <1>1, <1>2, <1>3, <2>1, <2>2, BuilderAndJobs
<1> QED BY <1>4, <1>5 DEF BuildFails, Here

\* The jobs after one of them has ended.
LEMMA EndedJobs ==
  ASSUME ImageInv, NEW j \in serverJobs, NEW status, EndsJob(j, status), UNCHANGED builder,
         DOMAIN images \subseteq DOMAIN images',
         status = "success" => Range(j.build.names) \subseteq DOMAIN images'
  PROVE  /\ \A i \in serverJobs' : JobSound(i)'
         /\ builderKind = "docker" => serverJobs' = {}
<1>1. PICK e : e = [j EXCEPT !.status = status]
  OBVIOUS
<1>2. serverJobs' = (serverJobs \ {j}) \cup (IF j.of = 0 THEN {} ELSE {e})
  BY <1>1 DEF EndsJob
<1>3. JobSound(j) /\ j \in serverJobs
  BY DEF ImageInv
<1>4. e = JobOf(j.of, j.build, status)
  BY <1>1, <1>3, JobEdits DEF JobSound
<1>5. e.of = j.of /\ e.build = j.build /\ e.status = status
  BY <1>4, JobFields
<1>6. \A n : Found(n) => Found(n)'
  BY DEF Found
<1>7. \A k \in serverJobs : JobSound(k) /\ (k.of = j.of /\ k.of \in Builders => k = j)
  BY DEF ImageInv, JobSound
<1>8. ASSUME NEW i \in serverJobs' PROVE JobSound(i)'
  <2>1. CASE i = e
    <3>1. \A k \in serverJobs' : k.of = i.of /\ k.of \in Builders => k = i
      BY <1>2, <1>5, <1>7, <2>1
    <3>2. IsRequest(i.build)' /\ NamesListed(i.build)'
      BY <1>3, <1>5, <1>6, <2>1 DEF JobSound, IsRequest, BaseFound, NamesListed
    <3>3. i = JobOf(i.of, i.build, i.status)
      BY <1>4, <1>5, <2>1
    <3> QED BY <1>3, <1>5, <2>1, <3>1, <3>2, <3>3 DEF JobSound
  <2>2. CASE i \in serverJobs /\ i # j
    <3>1. JobSound(i) /\ (i.of \in Builders => i.of # j.of)
      BY <1>7, <2>2
    <3>2. \A k \in serverJobs' : k.of = i.of /\ k.of \in Builders => k = i
      BY <1>2, <1>5, <2>2, <3>1 DEF JobSound
    <3>3. IsRequest(i.build)' /\ NamesListed(i.build)'
      BY <1>6, <3>1 DEF JobSound, IsRequest, BaseFound, NamesListed
    <3> QED BY <3>1, <3>2, <3>3 DEF JobSound
  <2> QED BY <1>2, <2>1, <2>2
<1> QED BY <1>8 DEF ImageInv

\* The server gives a job up.
LEMMA GivesUpStep ==
  ASSUME ImageInv, NEW j \in serverJobs, ServerGivesUp(j)
  PROVE  ImageInv'
<1>1. UNCHANGED <<builderKind, published, images, builder, relabelled>> /\ EndsJob(j, "failure")
  BY DEF ServerGivesUp
<1>2. (\A i \in serverJobs' : JobSound(i)') /\ (builderKind = "docker" => serverJobs' = {})
  BY <1>1, EndedJobs
<1>3. \A a \in Builders : BuilderSound(a)'
  BY <1>1, BuilderKept DEF ImageInv, ImagesSound
<1>4. ImagesSound'
  BY <1>1 DEF ImageInv, ImagesSound, FewLayers
<1> QED BY <1>1, <1>2, <1>3, <1>4 DEF ImageInv

\* The server builds.
LEMMA ServerBuildsStep ==
  ASSUME ImageInv, NEW j \in serverJobs, ServerBuilds(j)
  PROVE  ImageInv'
<1>1. PICK r : r = j.build
  OBVIOUS
<1>2. JobSound(j) /\ IsRequest(r) /\ NamesListed(r) /\ ImagesSound /\ builderKind # "docker"
  BY <1>1 DEF ImageInv, JobSound
<1>3. PICK g : g = GenerateDockerfile(r.q, r.c, r.from, images)
  OBVIOUS
<1>4. /\ UNCHANGED <<builderKind, published, builder, relabelled>> /\ EndsJob(j, "success")
      /\ images' = [n \in DOMAIN images \cup Range(r.names) |-> IF n \in Range(r.names) THEN g ELSE images[n]]
  BY <1>1, <1>3 DEF ServerBuilds
<1>5. DOMAIN images' = DOMAIN images \cup Range(r.names)
      /\ \A n \in DOMAIN images' : images'[n] = IF n \in Range(r.names) THEN g ELSE images[n]
  BY <1>4
<1>6. (\A i \in serverJobs' : JobSound(i)') /\ (builderKind = "docker" => serverJobs' = {})
  BY <1>1, <1>4, <1>5, EndedJobs
<1>7. \A a \in Builders : BuilderSound(a)'
  <2> SUFFICES ASSUME NEW a \in Builders PROVE BuilderSound(a)'
    OBVIOUS
  <2>1. BuilderSound(a) /\ builder[a].at # "retag"
    BY <1>2 DEF ImageInv, BuilderSound
  <2> QED BY <1>4, <1>5, <2>1, BuilderKept
<1>8. IsImage(g)
  BY <1>2, <1>3, DockerfileFits
<1>9. \A n \in Range(r.names) : Fits(n, g) /\ (relabelled \/ g.layers <= Most(n.kind))
  BY <1>2, <1>3, BuiltFits
<1>10. ImagesSound'
  <2>1. \A n \in DOMAIN images' : IsImage(images'[n]) /\ Fits(n, images'[n])
    BY <1>2, <1>5, <1>8, <1>9 DEF ImagesSound
  <2>2. relabelled' \/ \A n \in DOMAIN images' : images'[n].layers <= Most(n.kind)
    BY <1>2, <1>4, <1>5, <1>9 DEF ImagesSound, FewLayers
  <2> QED BY <1>2, <1>4, <2>1, <2>2 DEF ImagesSound, FewLayers
<1> QED BY <1>4, <1>6, <1>7, <1>10 DEF ImageInv

\* A step of another part keeps the invariant.
LEMMA ImageFrame == ImageInv /\ UNCHANGED <<builderKind, published, images, builder, serverJobs, relabelled>> => ImageInv'
<1> SUFFICES ASSUME ImageInv, UNCHANGED <<builderKind, published, images, builder, serverJobs, relabelled>>
             PROVE  ImageInv'
  OBVIOUS
<1>1. \A a \in Builders : BuilderSound(a)'
  BY BuilderKept DEF ImageInv, ImagesSound
<1>2. \A j \in serverJobs : JobSound(j)'
  <2> SUFFICES ASSUME NEW j \in serverJobs PROVE JobSound(j)'
    OBVIOUS
  <2> QED BY JobKept DEF ImageInv
<1>3. ImagesSound'
  BY DEF ImageInv, ImagesSound, FewLayers
<1> QED BY <1>1, <1>2, <1>3 DEF ImageInv

\* Every step of the image part keeps the invariant.
LEMMA ImageSteps == ImageInv /\ ImageNext => ImageInv'
<1> SUFFICES ASSUME ImageInv, ImageNext PROVE ImageInv'
  OBVIOUS
<1>1. CASE UpdatesCheckout
  BY <1>1, ImageFrame DEF UpdatesCheckout
<1>2. ASSUME NEW b \in Builders, NEW q \in ImageRequests, AsksImage(b, q) PROVE ImageInv'
  BY <1>2, AsksStep
<1>3. ASSUME NEW b \in Builders,
             FindsOlder(b) \/ MissesOlder(b) \/ PrepBuildFolder(b) \/ ListsNames(b)
      PROVE ImageInv'
  BY <1>3, FindsOlderStep, PreparesStep, ListsStep
<1>4. ASSUME NEW b \in Builders,
             DockerBuilds(b) \/ DockerRetags(b) \/ SubmitsBuild(b) \/ BuildFails(b)
      PROVE ImageInv'
  BY <1>4, DockerBuildsStep, DockerRetagsStep, SubmitsStep, FailsStep
<1>5. ASSUME NEW b \in Builders, NEW j \in serverJobs, PollsBuild(b, j) PROVE ImageInv'
  BY <1>5, PollsStep
<1>6. ASSUME NEW j \in serverJobs, ServerBuilds(j) \/ ServerGivesUp(j) PROVE ImageInv'
  BY <1>6, ServerBuildsStep, GivesUpStep
<1> QED BY <1>1, <1>2, <1>3, <1>4, <1>5, <1>6 DEF ImageNext

\* The invariant gives what the run checks.
LEMMA ImagesAreTrue == ImageInv => ImagesTrue
  BY DEF ImageInv, ImagesSound, ImagesTrue, TagsTrue, Fits, ImageThere, BuilderSound

-----------------------------------------------------------------------------
(* The workspace.                                                            *)

\* The user's hook is where the last step left it, unless steps of two runtimes blurred it.
HookHeld ==
  /\ blurred \in BOOLEAN /\ hook \in {NoHook, Ours, userHook}
  /\ UserHookKept
  /\ setup = "movehook" => hook \notin {NoHook, Ours}
  /\ setup = "writehook" /\ ~blurred /\ userHook # NoHook => userHook \in {Ours, hookLocal}

\* The microagents of every source that came before were loaded.
SourcesLoaded ==
  /\ orgDir \in BOOLEAN /\ orgLeft \in BOOLEAN /\ fault \in BOOLEAN /\ orgRepo \in BOOLEAN
  /\ setup \in {"org", "orgload", "repo", "ready"} /\ ~fault => "system" \in loaded
  /\ setup \in {"repo", "ready"} /\ ~fault /\ orgRepo /\ ~orgLeft => "org" \in loaded
  /\ setup = "ready" /\ ~fault => "repo" \in loaded
  /\ orgDir => orgLeft \/ setup = "orgload"

\* What the agent is told of the project is true.
ProjectTold == fault \in BOOLEAN /\ project \in BOOLEAN /\ ToldTheTruth

\* The inductive invariant of the workspace part.
WorkspaceInv == HookHeld /\ SourcesLoaded /\ ProjectTold

\* At first nothing is set up.
LEMMA WorkspaceStarts == SetupInit => WorkspaceInv
  BY DEF SetupInit, WorkspaceInv, HookHeld, SourcesLoaded, ProjectTold, NoHook, Ours, UserHookKept, ToldTheTruth

\* Every step keeps the user's hook.
LEMMA HookStep == HookHeld /\ SetupNext => HookHeld'
<1> SUFFICES ASSUME HookHeld, SetupNext PROVE HookHeld'
  OBVIOUS
<1> USE DEF NoHook, Ours, UserHookKept
<1>1. CASE UNCHANGED hookState /\ setup' \notin {"movehook", "writehook"}
  BY <1>1 DEF HookHeld, hookState
<1>2. CASE ScriptEventRuns
  BY <1>2 DEF HookHeld, ScriptEventRuns, hookState
<1>8. CASE ReadsHook
  <2>1. CASE hook \in {NoHook, Ours} /\ setup' = "writehook" /\ UNCHANGED hookState
    BY <2>1 DEF HookHeld, hookState
  <2>2. CASE hook \notin {NoHook, Ours} /\ setup' = "movehook" /\ UNCHANGED hookState
    BY <2>2 DEF HookHeld, hookState
  <2>3. CASE blurred' = TRUE /\ setup' = "writehook" /\ UNCHANGED <<hook, userHook>>
    BY <2>3 DEF HookHeld
  <2> QED BY <1>8, <2>1, <2>2, <2>3 DEF ReadsHook
<1>9. CASE MovesHook
  <2>0. PICK o \in Outcomes, done \in BOOLEAN :
        /\ (o = "ok" => done) /\ (o = "failed" => ~done)
        /\ IF done THEN hookLocal' = hook /\ hook' = NoHook ELSE UNCHANGED <<hook, hookLocal>>
        /\ blurred' = (blurred \/ o = "error") /\ After(o, "writehook")
    BY <1>9 DEF MovesHook
  <2>1. setup = "movehook" /\ userHook' = userHook
    BY <1>9 DEF MovesHook
  <2>2. CASE o = "error"
    BY <2>0, <2>1, <2>2 DEF HookHeld, After
  <2>3. CASE o = "failed"
    BY <2>0, <2>1, <2>3 DEF HookHeld, After
  <2>4. CASE o = "ok"
    BY <2>0, <2>1, <2>4 DEF HookHeld, After
  <2> QED BY <2>2, <2>3, <2>4 DEF Outcomes
<1>10. CASE WritesHook
  <2>1. UNCHANGED <<hookLocal, userHook, blurred>> /\ setup' = "template" /\ setup = "writehook"
        /\ hook' \in {Ours, hook}
    BY <1>10 DEF WritesHook
  <2> QED BY <2>1 DEF HookHeld
<1>11. CASE UserInstallsHook BY <1>11 DEF UserInstallsHook, HookHeld
<1>12. CASE SessionStarts \/ RuntimeLost \/ ClonesRepo \/ ChecksOut \/ RunsScript
  BY <1>1, <1>12 DEF SessionStarts, RuntimeLost, ClonesRepo, ChecksOut, RunsScript
<1>13. CASE LooksForHookScript \/ InitializesTemplate
  BY <1>1, <1>13 DEF LooksForHookScript, InitializesTemplate, After
<1>14. CASE LoadsSystem \/ ClonesOrg \/ LoadsOrg \/ LoadsRepo
  BY <1>1, <1>14 DEF LoadsSystem, ClonesOrg, LoadsOrg, LoadsRepo, AgentsUnchanged
<1> QED
  BY <1>2, <1>8, <1>9, <1>10, <1>11, <1>12, <1>13, <1>14 DEF SetupNext

\* Every step keeps what was loaded.
LEMMA SourcesStep == SourcesLoaded /\ SetupNext => SourcesLoaded'
<1> SUFFICES ASSUME SourcesLoaded, SetupNext PROVE SourcesLoaded'
  OBVIOUS
<1>1. CASE /\ setup \notin {"orgload", "org", "repo"} /\ setup' \notin {"org", "orgload", "repo", "ready"}
           /\ UNCHANGED <<orgDir, orgLeft, orgRepo>> /\ fault' \in BOOLEAN
  BY <1>1 DEF SourcesLoaded
<1>2. CASE ScriptEventRuns \/ UserInstallsHook
  BY <1>2 DEF SourcesLoaded, ScriptEventRuns, UserInstallsHook, fixedState, agentState
<1>3. CASE SessionStarts \/ ClonesRepo \/ ChecksOut \/ RunsScript
  BY <1>1, <1>3 DEF SourcesLoaded, SessionStarts, ClonesRepo, ChecksOut, RunsScript, fixedState, agentState
<1>4. CASE LooksForHookScript \/ ReadsHook \/ MovesHook \/ WritesHook
  BY <1>1, <1>4 DEF SourcesLoaded, LooksForHookScript, ReadsHook, MovesHook, WritesHook, After, HookUnchanged, fixedState, agentState
<1>5. CASE InitializesTemplate
  BY <1>1, <1>5 DEF SourcesLoaded, InitializesTemplate, fixedState
<1>6. CASE RuntimeLost
  BY <1>6 DEF SourcesLoaded, RuntimeLost
<1>7. CASE LoadsSystem
  BY <1>7 DEF SourcesLoaded, LoadsSystem, AgentsUnchanged, fixedState, Adds, AddsNothing
<1>8. CASE ClonesOrg
  <2>1. CASE setup' = "orgload" /\ orgDir' = TRUE /\ UNCHANGED fault
    BY <1>8, <2>1 DEF SourcesLoaded, ClonesOrg, AgentsUnchanged, fixedState
  <2>2. CASE setup' = "repo" /\ UNCHANGED orgDir /\ fault' = (fault \/ (orgRepo /\ ~orgDir))
    BY <1>8, <2>2 DEF SourcesLoaded, ClonesOrg, AgentsUnchanged, fixedState
  <2> QED BY <1>8, <2>1, <2>2 DEF ClonesOrg
<1>9. CASE LoadsOrg
  BY <1>9 DEF SourcesLoaded, LoadsOrg, AgentsUnchanged, fixedState, Adds, AddsNothing
<1>10. CASE LoadsRepo
  BY <1>10 DEF SourcesLoaded, LoadsRepo, AgentsUnchanged, fixedState, Adds, AddsNothing
<1> QED
  BY <1>2, <1>3, <1>4, <1>5, <1>6, <1>7, <1>8, <1>9, <1>10 DEF SetupNext

\* Every step keeps what is told true.
LEMMA ToldStep == ProjectTold /\ SetupNext => ProjectTold'
<1> SUFFICES ASSUME ProjectTold, SetupNext PROVE ProjectTold'
  OBVIOUS
<1>1. CASE (told' = "nothing" \/ UNCHANGED told) /\ UNCHANGED project /\ fault' \in BOOLEAN
           /\ (told' = told => (fault => fault'))
  BY <1>1 DEF ProjectTold, ToldTheTruth
<1>2. CASE ScriptEventRuns \/ UserInstallsHook
  BY <1>1, <1>2 DEF ProjectTold, ScriptEventRuns, UserInstallsHook, agentState
<1>3. CASE SessionStarts \/ RuntimeLost \/ ClonesRepo \/ ChecksOut \/ RunsScript
  BY <1>1, <1>3 DEF ProjectTold, ToldTheTruth, SessionStarts, RuntimeLost, ClonesRepo, ChecksOut, RunsScript, agentState
<1>4. CASE LooksForHookScript \/ ReadsHook \/ MovesHook \/ WritesHook
  BY <1>1, <1>4 DEF ProjectTold, LooksForHookScript, ReadsHook, MovesHook, WritesHook, After, HookUnchanged, agentState
<1>5. CASE InitializesTemplate
  BY <1>5 DEF ProjectTold, ToldTheTruth, InitializesTemplate, Outcomes
<1>6. CASE LoadsSystem \/ ClonesOrg \/ LoadsOrg \/ LoadsRepo
  BY <1>1, <1>6 DEF ProjectTold, LoadsSystem, ClonesOrg, LoadsOrg, LoadsRepo, AgentsUnchanged, Adds, AddsNothing
<1> QED
  BY <1>2, <1>3, <1>4, <1>5, <1>6 DEF SetupNext

\* Every step of the workspace part keeps the invariant.
LEMMA WorkspaceSteps == WorkspaceInv /\ SetupNext => WorkspaceInv'
  BY HookStep, SourcesStep, ToldStep DEF WorkspaceInv

\* So does a step of another part.
LEMMA WorkspaceFrame == WorkspaceInv /\ UNCHANGED setupVars => WorkspaceInv'
  BY DEF WorkspaceInv, setupVars, HookHeld, SourcesLoaded, ProjectTold, UserHookKept, ToldTheTruth

\* The invariant gives what the run checks.
LEMMA WorkspaceIsKept == WorkspaceInv => WorkspaceKept
  BY DEF WorkspaceInv, WorkspaceKept, HookHeld, SourcesLoaded, ProjectTold, AgentsLoaded

-----------------------------------------------------------------------------
(* The action execution server: what is in line was sent, and in order.      *)

Requests == [client : Clients, action : Nat, kind : Kinds, try : Nat \ {0}]
ActionAnswers == {"none", "here", "error", "timeout", "observation"}

ActionTypeOK ==
  /\ sent \in [Clients -> Nat] /\ ran \in [Clients -> Nat]
  /\ waits \in [Clients -> [kind : Kinds \cup {"none"}, try : Nat]]
  /\ received \in [Clients -> Nat \X ActionAnswers]
  /\ line \in Seq(Requests) /\ phase \in {"new", "cell"}
  /\ shellDir \in Dirs /\ cellDir \in Dirs /\ notedDir \in Dirs
  /\ wandered \in BOOLEAN /\ strayed \in BOOLEAN

\* A client waits for the latest action it sent, which it has no answer to.
WaitsForLatest ==
  \A c \in Clients :
    /\ waits[c] # NoRequest => /\ waits[c].kind \in Kinds /\ waits[c].try # 0
                              /\ received[c][1] < sent[c]
    /\ received[c][1] <= sent[c] /\ ran[c] <= sent[c]

\* What is in line was sent, not before what the client waits for or has an answer to,
\* and not before what ran.
Known(r) ==
  /\ r.action <= sent[r.client] /\ ran[r.client] <= r.action
  /\ (r.action = sent[r.client] /\ waits[r.client] # NoRequest) => r.try <= waits[r.client].try
  /\ received[r.client][2] = "observation" => received[r.client][1] < r.action

\* The attempts of a client stand in line as they were sent.
Before(r, t) == r.action < t.action \/ (r.action = t.action /\ r.try < t.try)
LineInOrder ==
  /\ \A i \in 1 .. Len(line) : Known(line[i])
  /\ \A i, j \in 1 .. Len(line) : i < j /\ line[i].client = line[j].client => Before(line[i], line[j])

\* Between the reset of Jupyter's directory and its cell nothing moves.
DirsAgree ==
  /\ ~strayed
  /\ ~wandered => cellDir = notedDir
  /\ phase = "cell" => /\ line # <<>> /\ Head(line).kind = "cell"
                       /\ cellDir = shellDir /\ notedDir = shellDir

ActionInv == ActionTypeOK /\ WaitsForLatest /\ LineInOrder /\ DirsAgree

\* The invariant holds at first.
LEMMA ActionInvInit == ActionInit => ActionInv
<1> SUFFICES ASSUME ActionInit PROVE ActionInv
  OBVIOUS
<1>1. /\ sent = [c \in Clients |-> 0] /\ ran = [c \in Clients |-> 0]
      /\ waits = [c \in Clients |-> NoRequest] /\ received = [c \in Clients |-> <<0, "none">>]
      /\ line = <<>> /\ phase = "new" /\ shellDir = "home" /\ cellDir = "home"
      /\ notedDir = "home" /\ wandered = FALSE /\ strayed = FALSE
  BY DEF ActionInit
<1>2. NoRequest \in [kind : Kinds \cup {"none"}, try : Nat] /\ <<0, "none">> \in Nat \X ActionAnswers
  BY DEF NoRequest, ActionAnswers
<1>3. ActionTypeOK
  <2>1. /\ sent \in [Clients -> Nat] /\ ran \in [Clients -> Nat]
        /\ waits \in [Clients -> [kind : Kinds \cup {"none"}, try : Nat]]
    BY <1>1, <1>2
  <2>2. received \in [Clients -> Nat \X ActionAnswers]
    BY <1>1, <1>2
  <2>3. line \in Seq(Requests)
    BY <1>1
  <2>4. shellDir \in Dirs /\ cellDir \in Dirs /\ notedDir \in Dirs
    BY <1>1 DEF Dirs
  <2>5. phase \in {"new", "cell"} /\ wandered \in BOOLEAN /\ strayed \in BOOLEAN
    BY <1>1
  <2> QED BY <2>1, <2>2, <2>3, <2>4, <2>5 DEF ActionTypeOK
<1> QED BY <1>1, <1>3 DEF ActionInv, WaitsForLatest, LineInOrder, DirsAgree

\* A request at the end of the line, newer than all its client sent before, keeps the order.
LEMMA AppendsInOrder ==
  ASSUME NEW q \in Seq(Requests), NEW r \in Requests,
         \A i, j \in 1 .. Len(q) : i < j /\ q[i].client = q[j].client => Before(q[i], q[j]),
         \A i \in 1 .. Len(q) : q[i].client = r.client => Before(q[i], r)
  PROVE  LET s == Append(q, r) IN
         /\ s \in Seq(Requests) /\ Len(s) = Len(q) + 1 /\ s # <<>>
         /\ \A i \in 1 .. Len(q) : s[i] = q[i]
         /\ s[Len(q) + 1] = r
         /\ q # <<>> => Head(s) = Head(q)
         /\ \A i, j \in 1 .. Len(s) : i < j /\ s[i].client = s[j].client => Before(s[i], s[j])
<1> DEFINE s == Append(q, r)
<1>1. /\ s \in Seq(Requests) /\ Len(s) = Len(q) + 1
      /\ \A i \in 1 .. Len(q) : s[i] = q[i]
      /\ s[Len(q) + 1] = r
  OBVIOUS
<1>2. Len(q) \in Nat /\ s # <<>> /\ (q # <<>> => Head(s) = Head(q))
  OBVIOUS
<1> HIDE DEF s
<1>3. ASSUME NEW i \in 1 .. Len(s), NEW j \in 1 .. Len(s), i < j, s[i].client = s[j].client
      PROVE  Before(s[i], s[j])
  <2>1. CASE j = Len(q) + 1
    BY <2>1, <1>1, <1>2, <1>3
  <2>2. CASE j # Len(q) + 1
    <3>1. i \in 1 .. Len(q) /\ j \in 1 .. Len(q) /\ s[i] = q[i] /\ s[j] = q[j]
      BY <2>2, <1>1, <1>2, <1>3
    <3> QED BY <3>1, <1>3
  <2> QED BY <2>1, <2>2
<1> QED BY <1>1, <1>2, <1>3 DEF s

\* ActionAnswers, time limits and errors that end a wait, and actions answered at once.
LEMMA ClientKeeps ==
  ASSUME ActionInv, NEW c \in Clients, NEW n \in Nat, NEW a \in ActionAnswers \ {"observation"},
         sent' \in [Clients -> Nat], n = sent'[c], sent[c] <= n,
         \A d \in Clients : d # c => sent'[d] = sent[d],
         received' = [received EXCEPT ![c] = <<n, a>>],
         waits' = [waits EXCEPT ![c] = NoRequest],
         UNCHANGED <<line, serverVars>>
  PROVE  ActionInv'
<1>1. /\ \A d \in Clients : d # c => received'[d] = received[d] /\ waits'[d] = waits[d]
      /\ received'[c] = <<n, a>> /\ received'[c][1] = n /\ received'[c][2] # "observation"
      /\ waits'[c] = NoRequest
  BY DEF ActionInv, ActionTypeOK, ActionAnswers
<1>2. UNCHANGED <<line, phase, ran, shellDir, cellDir, notedDir, wandered, strayed>>
  BY DEF serverVars, dirVars
<1>3. ActionTypeOK'
  <2>1. NoRequest \in [kind : Kinds \cup {"none"}, try : Nat] /\ <<n, a>> \in Nat \X ActionAnswers
    BY DEF NoRequest
  <2> QED BY <2>1, <1>2 DEF ActionInv, ActionTypeOK
<1>4. WaitsForLatest'
  <2> SUFFICES ASSUME NEW d \in Clients
               PROVE  /\ waits'[d] # NoRequest => /\ waits'[d].kind \in Kinds /\ waits'[d].try # 0
                                                 /\ received'[d][1] < sent'[d]
                      /\ received'[d][1] <= sent'[d] /\ ran'[d] <= sent'[d]
    BY DEF WaitsForLatest, NoRequest
  <2>1. CASE d = c
    BY <2>1, <1>1, <1>2 DEF ActionInv, ActionTypeOK, WaitsForLatest
  <2>2. CASE d # c
    BY <2>2, <1>1, <1>2 DEF ActionInv, WaitsForLatest
  <2> QED BY <2>1, <2>2
<1>5. ASSUME NEW r \in Requests, Known(r) PROVE Known(r)'
  <2>1. CASE r.client = c
    BY <2>1, <1>1, <1>2, <1>5 DEF Known, Requests, ActionInv, ActionTypeOK, NoRequest
  <2>2. CASE r.client # c
    BY <2>2, <1>1, <1>2, <1>5 DEF Known, Requests, NoRequest
  <2> QED BY <2>1, <2>2
<1>6. LineInOrder'
  <2>1. \A i \in 1 .. Len(line) : line[i] \in Requests
    BY DEF ActionInv, ActionTypeOK
  <2> QED BY <2>1, <1>2, <1>5 DEF ActionInv, LineInOrder, Before
<1> QED BY <1>2, <1>3, <1>4, <1>6 DEF ActionInv, DirsAgree

\* A request that is sent, or sent again, and gets in line.
LEMMA SendsKeeps ==
  ASSUME ActionInv, NEW c \in Clients, NEW n \in Nat, NEW k \in Kinds, NEW t \in Nat \ {0},
         sent' \in [Clients -> Nat], n = sent'[c],
         \A d \in Clients : d # c => sent'[d] = sent[d],
         \/ n = sent[c] + 1
         \/ n = sent[c] /\ waits[c] # NoRequest /\ waits[c].try < t,
         waits' = [waits EXCEPT ![c] = [kind |-> k, try |-> t]],
         line' \in {line, Append(line, Request(c, n, k, t))},
         UNCHANGED <<received, serverVars>>
  PROVE  ActionInv'
<1>1. /\ UNCHANGED <<received, phase, ran, shellDir, cellDir, notedDir, wandered, strayed>>
      /\ \A d \in Clients : d # c => waits'[d] = waits[d]
      /\ waits'[c].kind = k /\ waits'[c].try = t /\ waits'[c] # NoRequest
  BY DEF ActionInv, ActionTypeOK, serverVars, dirVars, NoRequest, Kinds
<1>2. PICK r \in Requests : /\ r = Request(c, n, k, t) /\ r.client = c /\ r.action = n
                            /\ r.kind = k /\ r.try = t
  BY DEF Request, Requests
<1>3. /\ received[c] \in Nat \X ActionAnswers /\ received[c][1] \in Nat /\ sent[c] \in Nat /\ ran[c] \in Nat
      /\ sent[c] <= n /\ received[c][1] < n /\ ran[c] <= n
  <2>1. received[c] \in Nat \X ActionAnswers /\ sent[c] \in Nat /\ ran[c] \in Nat
    BY DEF ActionInv, ActionTypeOK
  <2>2. /\ waits[c] # NoRequest => received[c][1] < sent[c]
        /\ received[c][1] <= sent[c] /\ ran[c] <= sent[c]
    BY DEF ActionInv, WaitsForLatest
  <2>3. received[c][1] \in Nat
    BY <2>1
  <2> QED BY <2>1, <2>2, <2>3
<1>4. ASSUME NEW i \in 1 .. Len(line)
      PROVE  \E x \in Requests : x = line[i] /\ Known(x)' /\ (x.client = c => Before(x, r))
  <2>1. line[i] \in Requests /\ Known(line[i])
    BY DEF ActionInv, ActionTypeOK, LineInOrder
  <2>2. PICK x \in Requests : x = line[i]
    BY <2>1
  <2>3. /\ x.client \in Clients /\ x.action \in Nat /\ x.try \in Nat /\ Known(x)
    BY <2>1, <2>2 DEF Requests
  <2>4. CASE x.client = c
    <3>1. x.action <= sent[c] /\ (x.action = sent[c] /\ waits[c] # NoRequest => x.try <= waits[c].try)
      BY <2>3, <2>4 DEF Known
    <3>2. waits[c].try \in Nat
      BY DEF ActionInv, ActionTypeOK
    <3>3. x.action < n \/ (x.action = n /\ x.try < t)
      BY <3>1, <3>2, <2>3, <1>3
    <3>4. Known(x)'
      BY <3>3, <2>3, <2>4, <1>1, <1>3 DEF Known
    <3> QED BY <3>3, <3>4, <2>2, <1>2 DEF Before
  <2>5. CASE x.client # c
    <3>1. Known(x)'
      BY <2>3, <2>5, <1>1 DEF Known, NoRequest
    <3> QED BY <3>1, <2>2, <2>5
  <2> QED BY <2>4, <2>5
<1>5. Known(r)'
  BY <1>1, <1>2, <1>3 DEF Known
<1>6. /\ line' \in Seq(Requests)
      /\ \A i \in 1 .. Len(line') : \E x \in Requests : x = line'[i] /\ Known(x)'
      /\ \A i, j \in 1 .. Len(line') : i < j /\ line'[i].client = line'[j].client => Before(line'[i], line'[j])
      /\ line # <<>> => line' # <<>> /\ Head(line') = Head(line)
  <2>1. line \in Seq(Requests)
    BY DEF ActionInv, ActionTypeOK
  <2>2. CASE line' = line
    BY <2>1, <2>2, <1>4 DEF ActionInv, LineInOrder
  <2>3. CASE line' = Append(line, r)
    <3>1. LET s == Append(line, r) IN
          /\ s \in Seq(Requests) /\ Len(s) = Len(line) + 1 /\ s # <<>>
          /\ \A i \in 1 .. Len(line) : s[i] = line[i]
          /\ s[Len(line) + 1] = r
          /\ line # <<>> => Head(s) = Head(line)
          /\ \A i, j \in 1 .. Len(s) : i < j /\ s[i].client = s[j].client => Before(s[i], s[j])
      BY <2>1, <1>2, <1>4, AppendsInOrder DEF ActionInv, LineInOrder
    <3>2. ASSUME NEW i \in 1 .. Len(line') PROVE \E x \in Requests : x = line'[i] /\ Known(x)'
      <4>1. i \in 1 .. Len(line) \/ i = Len(line) + 1
        BY <2>3, <3>1
      <4> QED BY <4>1, <2>3, <3>1, <1>4, <1>5
    <3> QED BY <2>3, <3>1, <3>2
  <2> QED BY <2>2, <2>3, <1>2
<1>7. ActionTypeOK'
  <2>1. [kind |-> k, try |-> t] \in [kind : Kinds \cup {"none"}, try : Nat]
    OBVIOUS
  <2> QED BY <2>1, <1>1, <1>6 DEF ActionInv, ActionTypeOK
<1>8. WaitsForLatest'
  <2> SUFFICES ASSUME NEW d \in Clients
               PROVE  /\ waits'[d] # NoRequest => /\ waits'[d].kind \in Kinds /\ waits'[d].try # 0
                                                 /\ received'[d][1] < sent'[d]
                      /\ received'[d][1] <= sent'[d] /\ ran'[d] <= sent'[d]
    BY DEF WaitsForLatest, NoRequest
  <2>1. CASE d = c
    BY <2>1, <1>1, <1>3
  <2>2. CASE d # c
    BY <2>2, <1>1 DEF ActionInv, WaitsForLatest
  <2> QED BY <2>1, <2>2
<1>9. LineInOrder'
  BY <1>6 DEF LineInOrder, Before, Known
<1> QED BY <1>1, <1>6, <1>7, <1>8, <1>9 DEF ActionInv, DirsAgree

\* The first request is done: what is behind it came later.
LEMMA AnsweredKeeps ==
  ASSUME ActionInv, line # <<>>, NEW a \in {"observation", "error"}, Answered(a)
  PROVE  /\ WaitsForLatest' /\ LineInOrder' /\ phase' = "new" /\ line' \in Seq(Requests)
         /\ sent' \in [Clients -> Nat] /\ ran' \in [Clients -> Nat]
         /\ waits' \in [Clients -> [kind : Kinds \cup {"none"}, try : Nat]]
         /\ received' \in [Clients -> Nat \X ActionAnswers]
<1>1. line \in Seq(Requests) /\ Len(line) \in Nat \ {0}
  BY DEF ActionInv, ActionTypeOK
<1>2. PICK r \in Requests : r = line[1] /\ r = Head(line)
  BY <1>1
<1>3. /\ line' = Tail(line) /\ line' \in Seq(Requests) /\ Len(line') = Len(line) - 1
      /\ \A i \in 1 .. Len(line') : line'[i] = line[i + 1] /\ i + 1 \in 2 .. Len(line)
  BY <1>1 DEF Answered
<1> DEFINE c == r.client
<1>4. c \in Clients /\ r.action \in Nat /\ r.try \in Nat \ {0} /\ Known(r)
  BY <1>1, <1>2 DEF Requests, ActionInv, LineInOrder
<1>5. /\ sent' = sent /\ phase' = "new" /\ ran' = [ran EXCEPT ![c] = r.action]
      /\ \/ /\ sent[c] = r.action /\ waits[c].try = r.try
            /\ received' = [received EXCEPT ![c] = <<sent[c], a>>]
            /\ waits' = [waits EXCEPT ![c] = NoRequest]
         \/ UNCHANGED <<waits, received>>
  BY <1>2 DEF Answered, Receives
<1>6. NoRequest \in [kind : Kinds \cup {"none"}, try : Nat] /\ <<sent[c], a>> \in Nat \X ActionAnswers
  BY <1>4 DEF NoRequest, ActionAnswers, ActionInv, ActionTypeOK
<1>7. /\ sent' \in [Clients -> Nat] /\ ran' \in [Clients -> Nat]
      /\ waits' \in [Clients -> [kind : Kinds \cup {"none"}, try : Nat]]
      /\ received' \in [Clients -> Nat \X ActionAnswers]
  <2>1. /\ sent \in [Clients -> Nat] /\ ran \in [Clients -> Nat]
        /\ waits \in [Clients -> [kind : Kinds \cup {"none"}, try : Nat]]
        /\ received \in [Clients -> Nat \X ActionAnswers]
    BY DEF ActionInv, ActionTypeOK
  <2>2. sent' \in [Clients -> Nat] /\ ran' \in [Clients -> Nat]
    BY <2>1, <1>4, <1>5
  <2>3. waits' \in [Clients -> [kind : Kinds \cup {"none"}, try : Nat]]
    BY <2>1, <1>4, <1>5, <1>6
  <2>4. received' \in [Clients -> Nat \X ActionAnswers]
    BY <2>1, <1>4, <1>5, <1>6
  <2> QED BY <2>2, <2>3, <2>4
<1>8. /\ \A d \in Clients : d # c => ran'[d] = ran[d] /\ waits'[d] = waits[d] /\ received'[d] = received[d]
      /\ ran'[c] = r.action
      /\ \/ /\ sent[c] = r.action /\ waits[c].try = r.try /\ received'[c] = <<sent[c], a>>
            /\ waits'[c] = NoRequest
         \/ waits'[c] = waits[c] /\ received'[c] = received[c]
  BY <1>4, <1>5 DEF ActionInv, ActionTypeOK
<1> HIDE DEF c
<1>9. WaitsForLatest'
  <2> SUFFICES ASSUME NEW d \in Clients
               PROVE  /\ waits'[d] # NoRequest => /\ waits'[d].kind \in Kinds /\ waits'[d].try # 0
                                                 /\ received'[d][1] < sent'[d]
                      /\ received'[d][1] <= sent'[d] /\ ran'[d] <= sent'[d]
    BY DEF WaitsForLatest, NoRequest
  <2>1. CASE d = c
    <3>1. r.action <= sent[c] /\ sent[c] \in Nat
      BY <1>4 DEF Known, ActionInv, ActionTypeOK, c
    <3>2. CASE received'[c] = <<sent[c], a>> /\ waits'[c] = NoRequest
      BY <3>1, <3>2, <2>1, <1>5, <1>8
    <3>3. CASE waits'[c] = waits[c] /\ received'[c] = received[c]
      BY <3>1, <3>3, <2>1, <1>5, <1>8 DEF ActionInv, WaitsForLatest
    <3> QED BY <3>2, <3>3, <1>8
  <2>2. CASE d # c
    BY <2>2, <1>5, <1>8 DEF ActionInv, WaitsForLatest
  <2> QED BY <2>1, <2>2
<1>10. ASSUME NEW i \in 2 .. Len(line) PROVE \E x \in Requests : x = line[i] /\ Known(x)'
  <2>1. PICK x \in Requests : x = line[i]
    BY <1>1
  <2>2. /\ x.client \in Clients /\ x.action \in Nat /\ x.try \in Nat /\ Known(x)
        /\ x.client = c => Before(r, x)
    BY <2>1, <1>1, <1>2 DEF Requests, ActionInv, LineInOrder, c
  <2>3. CASE x.client # c
    <3>1. Known(x)'
      BY <2>2, <2>3, <1>5, <1>8 DEF Known, NoRequest
    <3> QED BY <3>1, <2>1
  <2>4. CASE x.client = c
    <3>1. /\ x.action <= sent[c] /\ (x.action = sent[c] /\ waits[c] # NoRequest => x.try <= waits[c].try)
          /\ received[c][2] = "observation" => received[c][1] < x.action
      BY <2>2, <2>4 DEF Known
    <3>2. r.action < x.action \/ (r.action = x.action /\ r.try < x.try)
      BY <2>2, <2>4 DEF Before
    <3>3. waits[c] # NoRequest \/ waits[c].try = 0
      BY DEF NoRequest
    <3>4. CASE waits'[c] = waits[c] /\ received'[c] = received[c]
      <4>1. Known(x)'
        BY <3>1, <3>2, <3>4, <2>2, <2>4, <1>4, <1>5, <1>8 DEF Known, NoRequest
      <4> QED BY <4>1, <2>1
    <3>5. CASE sent[c] = r.action /\ waits[c].try = r.try
      BY <3>1, <3>2, <3>3, <3>5, <2>2, <1>4
    <3> QED BY <3>4, <3>5, <1>8
  <2> QED BY <2>3, <2>4
<1>11. LineInOrder'
  <2>1. ASSUME NEW i \in 1 .. Len(line') PROVE \E x \in Requests : x = line'[i] /\ Known(x)'
    BY <1>3, <1>10
  <2>2. ASSUME NEW i \in 1 .. Len(line'), NEW j \in 1 .. Len(line'), i < j,
               line'[i].client = line'[j].client
        PROVE  Before(line'[i], line'[j])
    <3>1. i + 1 \in 1 .. Len(line) /\ j + 1 \in 1 .. Len(line) /\ i + 1 < j + 1
      BY <2>2, <1>1, <1>3
    <3> QED BY <3>1, <2>2, <1>3 DEF ActionInv, LineInOrder
  <2> QED BY <2>1, <2>2 DEF LineInOrder, Before, Known
<1> QED BY <1>3, <1>5, <1>7, <1>9, <1>11

\* What the server does with the first request.
LEMMA ServerKeeps ==
  ASSUME ActionInv, \/ RunsCommand \/ RunsCell \/ RunsStatic \/ RunsFileAction \/ Browses
  PROVE  ActionInv'
<1>1. line # <<>> /\ \E a \in {"observation", "error"} : Answered(a)
  BY DEF RunsCommand, RunsCell, RunsStatic, RunsFileAction, Browses, Serves
<1>2. /\ WaitsForLatest' /\ LineInOrder' /\ phase' = "new" /\ line' \in Seq(Requests)
      /\ sent' \in [Clients -> Nat] /\ ran' \in [Clients -> Nat]
      /\ waits' \in [Clients -> [kind : Kinds \cup {"none"}, try : Nat]]
      /\ received' \in [Clients -> Nat \X ActionAnswers]
  BY <1>1, AnsweredKeeps
<1>3. /\ shellDir' \in Dirs /\ cellDir' \in Dirs /\ notedDir' \in Dirs
      /\ wandered' \in BOOLEAN /\ strayed' = FALSE
      /\ ~wandered' => cellDir' = notedDir'
  <2>0. /\ shellDir \in Dirs /\ cellDir \in Dirs /\ notedDir \in Dirs
        /\ wandered \in BOOLEAN /\ strayed = FALSE /\ (~wandered => cellDir = notedDir)
        /\ phase = "cell" => cellDir = shellDir
    BY DEF ActionInv, ActionTypeOK, DirsAgree
  <2>1. CASE RunsCommand
    BY <2>0, <2>1 DEF RunsCommand, dirVars
  <2>2. CASE RunsCell
    <3>1. /\ phase = "cell" \/ shellDir = notedDir
          /\ cellDir' \in Dirs /\ strayed' = (strayed \/ (cellDir # shellDir /\ ~wandered))
          /\ wandered' = (wandered \/ cellDir' # cellDir) /\ UNCHANGED <<shellDir, notedDir>>
      BY <2>2 DEF RunsCell
    <3> QED BY <3>1, <2>0
  <2>3. CASE RunsStatic \/ RunsFileAction \/ Browses
    BY <2>0, <2>3 DEF RunsStatic, RunsFileAction, Browses, dirVars
  <2> QED BY <2>1, <2>2, <2>3
<1> QED BY <1>2, <1>3 DEF ActionInv, ActionTypeOK, DirsAgree

\* Every step keeps the invariant.
LEMMA ActionInvNext == ActionInv /\ [ActionNext]_actionVars => ActionInv'
<1> SUFFICES ASSUME ActionInv, [ActionNext]_actionVars PROVE ActionInv'
  OBVIOUS
<1>0. ASSUME NEW c \in Clients
      PROVE  sent[c] \in Nat /\ received[c][1] <= sent[c] /\ sent \in [Clients -> Nat]
  BY DEF ActionInv, ActionTypeOK, WaitsForLatest
<1>1. ASSUME NEW c \in Clients, AnsweredHere(c) PROVE ActionInv'
  <2>1. /\ sent' = [sent EXCEPT ![c] = sent[c] + 1] /\ waits' = [waits EXCEPT ![c] = NoRequest]
        /\ received' = [received EXCEPT ![c] = <<sent[c] + 1, "here">>]
        /\ UNCHANGED <<line, serverVars>>
    BY <1>1 DEF AnsweredHere, ActionInv, ActionTypeOK
  <2>2. /\ sent' \in [Clients -> Nat] /\ sent'[c] = sent[c] + 1 /\ sent[c] + 1 \in Nat
        /\ sent[c] <= sent[c] + 1 /\ \A d \in Clients : d # c => sent'[d] = sent[d]
    BY <2>1, <1>0
  <2>3. "here" \in ActionAnswers \ {"observation"}
    BY DEF ActionAnswers
  <2> QED BY <2>1, <2>2, <2>3, ClientKeeps
<1>2. ASSUME NEW c \in Clients, NEW k \in Kinds, SendsAction(c, k) PROVE ActionInv'
  <2>1. /\ sent' = [sent EXCEPT ![c] = sent[c] + 1]
        /\ waits' = [waits EXCEPT ![c] = [kind |-> k, try |-> 1]]
        /\ line' \in {line, Append(line, Request(c, sent[c] + 1, k, 1))}
        /\ UNCHANGED <<received, serverVars>>
    BY <1>2 DEF SendsAction
  <2>2. /\ sent' \in [Clients -> Nat] /\ sent'[c] = sent[c] + 1 /\ sent[c] + 1 \in Nat
        /\ \A d \in Clients : d # c => sent'[d] = sent[d]
    BY <2>1, <1>0
  <2>3. 1 \in Nat \ {0}
    OBVIOUS
  <2> QED BY <2>1, <2>2, <2>3, SendsKeeps
<1>3. ASSUME NEW c \in Clients, Resends(c) PROVE ActionInv'
  <2>1. PICK w \in [kind : Kinds \cup {"none"}, try : Nat] : w = waits[c]
    BY DEF ActionInv, ActionTypeOK
  <2>2. /\ w.try \in Nat \ {0} /\ w # NoRequest /\ w.kind \in Kinds
        /\ w.try + 1 \in Nat \ {0} /\ w.try < w.try + 1
    <3>1. w.try \in Nat /\ w.try \in 1 .. Attempts - 1
      BY <1>3, <2>1 DEF Resends
    <3>2. w.try \in Nat \ {0}
      BY <3>1, ActionServerAssumption
    <3>3. w # NoRequest
      BY <3>2 DEF NoRequest
    <3>4. w.kind \in Kinds
      BY <3>3, <2>1 DEF ActionInv, WaitsForLatest
    <3> QED BY <3>2, <3>3, <3>4
  <2>3. waits' = [waits EXCEPT ![c] = [kind |-> w.kind, try |-> w.try + 1]]
    <3>1. [w EXCEPT !.try = w.try + 1] = [kind |-> w.kind, try |-> w.try + 1]
      OBVIOUS
    <3>2. waits' = [waits EXCEPT ![c] = [w EXCEPT !.try = w.try + 1]]
      BY <1>3, <2>1 DEF Resends
    <3> QED BY <3>1, <3>2
  <2>4. /\ line' \in {line, Append(line, Request(c, sent[c], w.kind, w.try + 1))}
        /\ sent' = sent /\ UNCHANGED <<received, serverVars>>
    BY <1>3, <2>1 DEF Resends
  <2>5. /\ sent' \in [Clients -> Nat] /\ sent'[c] = sent[c] /\ sent[c] \in Nat
        /\ \A d \in Clients : d # c => sent'[d] = sent[d]
        /\ waits[c] # NoRequest /\ waits[c].try < w.try + 1
    BY <2>1, <2>2, <2>4, <1>0
  <2> QED BY <2>2, <2>3, <2>4, <2>5, SendsKeeps
<1>4. ASSUME NEW c \in Clients, Disconnects(c) \/ ActionTimesOut(c) PROVE ActionInv'
  <2>1. PICK a \in ActionAnswers \ {"observation"} : Receives(c, a) /\ UNCHANGED <<sent, line, serverVars>>
    BY <1>4 DEF Disconnects, ActionTimesOut, ActionAnswers
  <2>2. /\ waits' = [waits EXCEPT ![c] = NoRequest] /\ sent' = sent
        /\ received' = [received EXCEPT ![c] = <<sent[c], a>>]
        /\ UNCHANGED <<line, serverVars>>
    BY <2>1 DEF Receives
  <2>3. /\ sent' \in [Clients -> Nat] /\ sent[c] = sent'[c] /\ sent[c] \in Nat /\ sent[c] <= sent[c]
        /\ \A d \in Clients : d # c => sent'[d] = sent[d]
    BY <2>2, <1>0
  <2> QED BY <2>2, <2>3, ClientKeeps
<1>5. CASE RunsCommand \/ RunsCell \/ RunsStatic \/ RunsFileAction \/ Browses
  BY <1>5, ServerKeeps
<1>6. CASE MovesJupyter
  <2>1. /\ line # <<>> /\ Head(line).kind = "cell" /\ phase' = "cell" /\ cellDir' = shellDir
        /\ notedDir' = shellDir /\ wandered' = FALSE
        /\ UNCHANGED <<sent, waits, received, line, ran, shellDir, strayed>>
    BY <1>6 DEF MovesJupyter, Serves
  <2>2. ActionTypeOK' /\ DirsAgree'
    BY <2>1 DEF ActionInv, ActionTypeOK, DirsAgree
  <2>3. WaitsForLatest' /\ LineInOrder'
    BY <2>1 DEF ActionInv, WaitsForLatest, LineInOrder, Known, Before, NoRequest
  <2> QED BY <2>2, <2>3 DEF ActionInv
<1>7. CASE UNCHANGED actionVars
  BY <1>7 DEF actionVars, dirVars, ActionInv, ActionTypeOK, WaitsForLatest, LineInOrder, Known,
              Before, DirsAgree, NoRequest
<1> QED BY <1>1, <1>2, <1>3, <1>4, <1>5, <1>6, <1>7 DEF ActionNext

\* The invariant gives what the run checks.
LEMMA ActionInvTells == ActionInv => ActionsSeeEarlierOnes
<1> SUFFICES ASSUME ActionInv PROVE ActionsSeeEarlierOnes
  OBVIOUS
<1>1. line \in Seq(Requests) /\ DOMAIN line = 1 .. Len(line) /\ Len(line) \in Nat
  BY DEF ActionInv, ActionTypeOK
<1>2. ASSUME NEW i \in 1 .. Len(line)
      PROVE  /\ received[line[i].client][2] = "observation" =>
                   line[i].action > received[line[i].client][1]
             /\ line[i].action >= ran[line[i].client]
  <2>1. PICK x \in Requests : x = line[i]
    BY <1>1
  <2>2. /\ x.client \in Clients /\ x.action \in Nat /\ Known(x)
        /\ received[x.client][1] \in Nat /\ ran[x.client] \in Nat
    <3>1. x.client \in Clients /\ x.action \in Nat /\ Known(x)
      BY <2>1 DEF Requests, ActionInv, LineInOrder
    <3>2. received[x.client] \in Nat \X ActionAnswers /\ ran[x.client] \in Nat
      BY <3>1 DEF ActionInv, ActionTypeOK
    <3> QED BY <3>1, <3>2
  <2>3. x.action >= ran[x.client]
    BY <2>2 DEF Known
  <2>4. received[x.client][2] = "observation" => x.action > received[x.client][1]
    BY <2>2 DEF Known
  <2> QED BY <2>1, <2>3, <2>4
<1>3. ASSUME NEW i \in 1 .. Len(line), NEW j \in i + 1 .. Len(line), line[j].client = line[i].client
      PROVE  line[j].action >= line[i].action
  <2>1. PICK x \in Requests, y \in Requests : x = line[i] /\ y = line[j]
    BY <1>1
  <2>2. x.action \in Nat /\ y.action \in Nat
    BY DEF Requests
  <2>3. j \in 1 .. Len(line) /\ i < j
    BY <1>1
  <2>4. Before(x, y)
    BY <2>1, <2>3, <1>3 DEF ActionInv, LineInOrder
  <2> QED BY <2>1, <2>2, <2>4 DEF Before
<1> QED BY <1>1, <1>2, <1>3 DEF ActionsSeeEarlierOnes, ActionInv, DirsAgree

-----------------------------------------------------------------------------
(* DeploymentManager: no more is charged than was run.                       *)

Statuses == {"stopped", "starting", "running", "error"}
DeployPorts == DeployStarts \cup {0}
Metadata == [status : Statuses, port : DeployPorts, started : Nat, total : Nat, writes : Nat]
Copies == [status : Statuses \cup Idling, port : DeployPorts, started : Nat, total : Nat, writes : Nat]
ContainerStates == [state : {"absent", "stopped", "running"}, id : DeployPorts, at : Nat]
Books == [ran : Nat, ops : Nat, staleWrite : BOOLEAN, earlyStop : BOOLEAN]

\* Metadata and books, field by field.
Meta(st, p, s, t, w) == [status |-> st, port |-> p, started |-> s, total |-> t, writes |-> w]
Book(r, o, w, e) == [ran |-> r, ops |-> o, staleWrite |-> w, earlyStop |-> e]

DeployTypeOK ==
  /\ file \in Metadata /\ box \in ContainerStates /\ copy \in [DeployStarts -> Copies] /\ clock \in Nat
  /\ did \in Books
  /\ box.at <= clock /\ file.started <= clock /\ \A s \in DeployStarts : copy[s].started <= clock

\* The start of a request is under way, on metadata that nobody wrote after it.
NotStale(s) == copy[s].status \notin Idling /\ copy[s].writes = file.writes

\* As long as no stale metadata is written: what is charged was run before this container;
\* the container that runs is the file's, and its start is not earlier than the file's says
\* once it is reported; a start with fresh metadata is that of the container.
BooksAgree ==
  /\ file.total <= did.ran \/ did.earlyStop
  /\ box.state = "running" =>
       /\ file.port = box.id /\ file.status \in {"starting", "running", "error"}
       /\ file.status = "running" => box.at <= file.started
  /\ \A s \in DeployStarts : NotStale(s) =>
       copy[s].total = file.total /\ copy[s].port = s /\ box.id = s

DeployInv ==
  /\ DeployTypeOK
  /\ \A s \in DeployStarts : copy[s].status \notin Idling => copy[s].writes <= file.writes
  /\ did.staleWrite \/ BooksAgree

\* What is left of metadata after the edits the operations make.
LEMMA MetaEdits ==
  ASSUME NEW c \in Metadata \cup Copies
  PROVE  /\ c = Meta(c.status, c.port, c.started, c.total, c.writes)
         /\ \A x : [c EXCEPT !.status = x] = Meta(x, c.port, c.started, c.total, c.writes)
         /\ \A x : [c EXCEPT !.writes = x] = Meta(c.status, c.port, c.started, c.total, x)
         /\ \A x, y : [c EXCEPT !.status = x, !.port = y] = Meta(x, y, c.started, c.total, c.writes)
         /\ \A x, y : [c EXCEPT !.status = x, !.started = y] = Meta(x, c.port, y, c.total, c.writes)
         /\ \A x, y : [c EXCEPT !.status = x, !.total = y] = Meta(x, c.port, c.started, y, c.writes)
         /\ \A x, y : [c EXCEPT !.status = x, !.writes = y] = Meta(x, c.port, c.started, c.total, y)
<1>1. c = Meta(c.status, c.port, c.started, c.total, c.writes)
  BY DEF Meta, Metadata, Copies
<1>2. ASSUME NEW x
      PROVE  [c EXCEPT !.status = x] = Meta(x, c.port, c.started, c.total, c.writes)
  BY <1>1 DEF Meta
<1>3. ASSUME NEW x
      PROVE  [c EXCEPT !.writes = x] = Meta(c.status, c.port, c.started, c.total, x)
  BY <1>1 DEF Meta
<1>4. ASSUME NEW x, NEW y
      PROVE  [c EXCEPT !.status = x, !.port = y] = Meta(x, y, c.started, c.total, c.writes)
  <2>1. [[c EXCEPT !.status = x] EXCEPT !.port = y]
          = [Meta(x, c.port, c.started, c.total, c.writes) EXCEPT !.port = y]
    BY <1>2
  <2>2. [Meta(x, c.port, c.started, c.total, c.writes) EXCEPT !.port = y]
          = Meta(x, y, c.started, c.total, c.writes)
    BY DEF Meta
  <2> QED BY <2>1, <2>2
<1>5. ASSUME NEW x, NEW y
      PROVE  [c EXCEPT !.status = x, !.started = y] = Meta(x, c.port, y, c.total, c.writes)
  <2>1. [[c EXCEPT !.status = x] EXCEPT !.started = y]
          = [Meta(x, c.port, c.started, c.total, c.writes) EXCEPT !.started = y]
    BY <1>2
  <2>2. [Meta(x, c.port, c.started, c.total, c.writes) EXCEPT !.started = y]
          = Meta(x, c.port, y, c.total, c.writes)
    BY DEF Meta
  <2> QED BY <2>1, <2>2
<1>6. ASSUME NEW x, NEW y
      PROVE  [c EXCEPT !.status = x, !.total = y] = Meta(x, c.port, c.started, y, c.writes)
  <2>1. [[c EXCEPT !.status = x] EXCEPT !.total = y]
          = [Meta(x, c.port, c.started, c.total, c.writes) EXCEPT !.total = y]
    BY <1>2
  <2>2. [Meta(x, c.port, c.started, c.total, c.writes) EXCEPT !.total = y]
          = Meta(x, c.port, c.started, y, c.writes)
    BY DEF Meta
  <2> QED BY <2>1, <2>2
<1>7. ASSUME NEW x, NEW y
      PROVE  [c EXCEPT !.status = x, !.writes = y] = Meta(x, c.port, c.started, c.total, y)
  <2>1. [[c EXCEPT !.status = x] EXCEPT !.writes = y]
          = [Meta(x, c.port, c.started, c.total, c.writes) EXCEPT !.writes = y]
    BY <1>2
  <2>2. [Meta(x, c.port, c.started, c.total, c.writes) EXCEPT !.writes = y]
          = Meta(x, c.port, c.started, c.total, y)
    BY DEF Meta
  <2> QED BY <2>1, <2>2
<1> QED BY <1>1, <1>2, <1>3, <1>4, <1>5, <1>6, <1>7

\* The same for what has been done.
LEMMA BookEdits ==
  ASSUME NEW d \in Books
  PROVE  /\ \A x : [d EXCEPT !.ops = x] = Book(d.ran, x, d.staleWrite, d.earlyStop)
         /\ \A x : [d EXCEPT !.ran = x] = Book(x, d.ops, d.staleWrite, d.earlyStop)
         /\ \A x, y : [d EXCEPT !.ran = x, !.ops = y] = Book(x, y, d.staleWrite, d.earlyStop)
         /\ \A x, y : [d EXCEPT !.ran = x, !.earlyStop = y] = Book(x, d.ops, d.staleWrite, y)
         /\ \A x, y : [d EXCEPT !.ops = x, !.staleWrite = y] = Book(d.ran, x, y, d.earlyStop)
         /\ \A x, y, z : [d EXCEPT !.ops = x, !.ran = y, !.staleWrite = z] = Book(y, x, z, d.earlyStop)
<1>1. d = Book(d.ran, d.ops, d.staleWrite, d.earlyStop)
  BY DEF Book, Books
<1>2. ASSUME NEW x
      PROVE  [d EXCEPT !.ops = x] = Book(d.ran, x, d.staleWrite, d.earlyStop)
  BY <1>1 DEF Book
<1>3. ASSUME NEW x
      PROVE  [d EXCEPT !.ran = x] = Book(x, d.ops, d.staleWrite, d.earlyStop)
  BY <1>1 DEF Book
<1>4. ASSUME NEW x, NEW y
      PROVE  [d EXCEPT !.ran = x, !.ops = y] = Book(x, y, d.staleWrite, d.earlyStop)
  <2>1. [[d EXCEPT !.ran = x] EXCEPT !.ops = y]
          = [Book(x, d.ops, d.staleWrite, d.earlyStop) EXCEPT !.ops = y]
    BY <1>3
  <2>2. [Book(x, d.ops, d.staleWrite, d.earlyStop) EXCEPT !.ops = y]
          = Book(x, y, d.staleWrite, d.earlyStop)
    BY DEF Book
  <2> QED BY <2>1, <2>2
<1>5. ASSUME NEW x, NEW y
      PROVE  [d EXCEPT !.ran = x, !.earlyStop = y] = Book(x, d.ops, d.staleWrite, y)
  <2>1. [[d EXCEPT !.ran = x] EXCEPT !.earlyStop = y]
          = [Book(x, d.ops, d.staleWrite, d.earlyStop) EXCEPT !.earlyStop = y]
    BY <1>3
  <2>2. [Book(x, d.ops, d.staleWrite, d.earlyStop) EXCEPT !.earlyStop = y]
          = Book(x, d.ops, d.staleWrite, y)
    BY DEF Book
  <2> QED BY <2>1, <2>2
<1>6. ASSUME NEW x, NEW y
      PROVE  [d EXCEPT !.ops = x, !.staleWrite = y] = Book(d.ran, x, y, d.earlyStop)
  <2>1. [[d EXCEPT !.ops = x] EXCEPT !.staleWrite = y]
          = [Book(d.ran, x, d.staleWrite, d.earlyStop) EXCEPT !.staleWrite = y]
    BY <1>2
  <2>2. [Book(d.ran, x, d.staleWrite, d.earlyStop) EXCEPT !.staleWrite = y]
          = Book(d.ran, x, y, d.earlyStop)
    BY DEF Book
  <2> QED BY <2>1, <2>2
<1>7. ASSUME NEW x, NEW y, NEW z
      PROVE  [d EXCEPT !.ops = x, !.ran = y, !.staleWrite = z] = Book(y, x, z, d.earlyStop)
  <2>1. [[d EXCEPT !.ops = x] EXCEPT !.ran = y]
          = [Book(d.ran, x, d.staleWrite, d.earlyStop) EXCEPT !.ran = y]
    BY <1>2
  <2>2. [Book(d.ran, x, d.staleWrite, d.earlyStop) EXCEPT !.ran = y]
          = Book(y, x, d.staleWrite, d.earlyStop)
    BY DEF Book
  <2>3. [[[d EXCEPT !.ops = x] EXCEPT !.ran = y] EXCEPT !.staleWrite = z]
          = [Book(y, x, d.staleWrite, d.earlyStop) EXCEPT !.staleWrite = z]
    BY <2>1, <2>2
  <2>4. [Book(y, x, d.staleWrite, d.earlyStop) EXCEPT !.staleWrite = z]
          = Book(y, x, z, d.earlyStop)
    BY DEF Book
  <2> QED BY <2>3, <2>4
<1> QED BY <1>2, <1>3, <1>4, <1>5, <1>6, <1>7

\* The same for the container.
LEMMA BoxEdit ==
  ASSUME NEW b \in ContainerStates, NEW x
  PROVE  [b EXCEPT !.state = x] = [state |-> x, id |-> b.id, at |-> b.at]
<1>1. b = [state |-> b.state, id |-> b.id, at |-> b.at]
  BY DEF ContainerStates
<1> QED BY <1>1

\* The invariant holds at first.
LEMMA DeployInvInit == DeployInit => DeployInv
<1> SUFFICES ASSUME DeployInit PROVE DeployInv
  OBVIOUS
<1>1. /\ file = Blank /\ box = NoBox /\ clock = 1
      /\ copy = [s \in DeployStarts |-> [Blank EXCEPT !.status = "new"]]
      /\ did = [ran |-> 0, ops |-> 0, staleWrite |-> FALSE, earlyStop |-> FALSE]
  BY DEF DeployInit
<1>2. Blank \in Metadata /\ NoBox \in ContainerStates
  BY DEF Blank, NoBox, Metadata, ContainerStates, Statuses, DeployPorts
<1>3. PICK b \in Copies : /\ b = [Blank EXCEPT !.status = "new"] /\ b.status = "new" /\ b.started = 0
  <2>1. [Blank EXCEPT !.status = "new"] = Meta("new", 0, 0, 0, 0)
    BY DEF Blank, Meta
  <2>2. Meta("new", 0, 0, 0, 0) \in Copies
    BY DEF Meta, Copies, DeployPorts, Idling
  <2> QED BY <2>1, <2>2 DEF Meta
<1>4. copy \in [DeployStarts -> Copies] /\ \A s \in DeployStarts : copy[s] = b
  BY <1>1, <1>3
<1>5. DeployTypeOK
  <2>1. did \in Books
    BY <1>1 DEF Books
  <2>2. box.at = 0 /\ file.started = 0
    BY <1>1 DEF Blank, NoBox
  <2>3. clock \in Nat /\ box.at <= clock /\ file.started <= clock /\ b.started <= clock
    BY <1>1, <1>3, <2>2
  <2>4. \A s \in DeployStarts : copy[s].started <= clock
    BY <1>4, <2>3
  <2> QED BY <1>1, <1>2, <1>4, <2>1, <2>3, <2>4 DEF DeployTypeOK
<1> QED BY <1>1, <1>3, <1>4, <1>5 DEF DeployInv, BooksAgree, NotStale, Idling, NoBox, Blank

\* What the invariant says of the fields.
LEMMA DeployTypes ==
  ASSUME DeployInv
  PROVE  /\ file.status \in Statuses /\ file.port \in DeployPorts /\ file.started \in Nat
         /\ file.total \in Nat /\ file.writes \in Nat
         /\ box.state \in {"absent", "stopped", "running"} /\ box.id \in DeployPorts /\ box.at \in Nat
         /\ clock \in Nat /\ did.ran \in Nat /\ did.ops \in Nat
         /\ did.staleWrite \in BOOLEAN /\ did.earlyStop \in BOOLEAN
         /\ box.at <= clock /\ file.started <= clock
         /\ clock - box.at \in Nat /\ clock - file.started \in Nat
         /\ Ran \in Nat /\ did.ran <= Ran /\ (box.state # "running" => Ran = did.ran)
<1>1. /\ file.status \in Statuses /\ file.port \in DeployPorts /\ file.started \in Nat
      /\ file.total \in Nat /\ file.writes \in Nat
      /\ box.state \in {"absent", "stopped", "running"} /\ box.id \in DeployPorts /\ box.at \in Nat
  BY DEF DeployInv, DeployTypeOK, Metadata, ContainerStates
<1>2. /\ clock \in Nat /\ did.ran \in Nat /\ did.ops \in Nat
      /\ did.staleWrite \in BOOLEAN /\ did.earlyStop \in BOOLEAN
      /\ box.at <= clock /\ file.started <= clock
  BY DEF DeployInv, DeployTypeOK, Books
<1>3. clock - box.at \in Nat /\ clock - file.started \in Nat
  BY <1>1, <1>2
<1> QED BY <1>1, <1>2, <1>3 DEF Ran

\* The clock, the container and the status request.
LEMMA QuietDeployKeeps ==
  ASSUME DeployInv, Tick \/ BoxStops \/ GetStatus
  PROVE  DeployInv'
<1>0. /\ file \in Metadata /\ box \in ContainerStates /\ copy \in [DeployStarts -> Copies]
      /\ did \in Books
      /\ \A s \in DeployStarts : copy[s].started \in Nat /\ copy[s].started <= clock
  BY DEF DeployInv, DeployTypeOK, Copies
<1>1. CASE Tick
  <2>1. clock' = clock + 1 /\ UNCHANGED <<file, box, copy, did>>
    BY <1>1 DEF Tick
  <2>2. DeployTypeOK'
    BY <2>1, <1>0, DeployTypes DEF DeployTypeOK
  <2> QED BY <2>1, <2>2 DEF DeployInv, BooksAgree, NotStale
<1>2. CASE BoxStops
  <2>1. /\ box.state = "running" /\ box' = [box EXCEPT !.state = "stopped"]
        /\ did' = [did EXCEPT !.ran = Ran, !.ops = @ + 1] /\ UNCHANGED <<file, copy, clock>>
    BY <1>2 DEF BoxStops
  <2>2. /\ box' \in ContainerStates /\ box'.state = "stopped" /\ box'.id = box.id /\ box'.at = box.at
    <3>1. box' = [state |-> "stopped", id |-> box.id, at |-> box.at]
      BY <2>1, <1>0, BoxEdit
    <3> QED BY <3>1, DeployTypes DEF ContainerStates
  <2>3. /\ did' \in Books
        /\ did'.ran = Ran /\ did'.staleWrite = did.staleWrite /\ did'.earlyStop = did.earlyStop
    <3>1. did' = Book(Ran, did.ops + 1, did.staleWrite, did.earlyStop)
      BY <2>1, <1>0, BookEdits
    <3> QED BY <3>1, DeployTypes DEF Book, Books
  <2>4. DeployTypeOK'
    BY <2>1, <2>2, <2>3, <1>0, DeployTypes DEF DeployTypeOK
  <2>5. BooksAgree => BooksAgree'
    BY <2>1, <2>2, <2>3, DeployTypes DEF BooksAgree, NotStale
  <2> QED BY <2>1, <2>3, <2>4, <2>5 DEF DeployInv
<1>3. CASE GetStatus
  <2>1. /\ did' = [did EXCEPT !.ops = @ + 1] /\ UNCHANGED <<box, copy, clock>>
        /\ \/ box.state = "running" /\ file' = [file EXCEPT !.status = "running", !.started = box.at]
           \/ box.state # "running" /\ file' = [file EXCEPT !.status = "stopped"]
           \/ box.state # "running" /\ file' = file
    BY <1>3 DEF GetStatus
  <2>2. /\ did' \in Books
        /\ did'.ran = did.ran /\ did'.staleWrite = did.staleWrite /\ did'.earlyStop = did.earlyStop
    <3>1. did' = Book(did.ran, did.ops + 1, did.staleWrite, did.earlyStop)
      BY <2>1, <1>0, BookEdits
    <3> QED BY <3>1, DeployTypes DEF Book, Books
  <2>3. /\ file' \in Metadata /\ file'.port = file.port /\ file'.total = file.total
        /\ file'.writes = file.writes /\ file'.started <= clock
        /\ box.state = "running" => file'.status = "running" /\ file'.started = box.at
    <3>1. CASE box.state = "running" /\ file' = [file EXCEPT !.status = "running", !.started = box.at]
      <4>1. file' = Meta("running", file.port, box.at, file.total, file.writes)
        BY <3>1, <1>0, MetaEdits
      <4> QED BY <3>1, <4>1, DeployTypes DEF Meta, Metadata, Statuses
    <3>2. CASE box.state # "running" /\ file' = [file EXCEPT !.status = "stopped"]
      <4>1. file' = Meta("stopped", file.port, file.started, file.total, file.writes)
        BY <3>2, <1>0, MetaEdits
      <4> QED BY <3>2, <4>1, DeployTypes DEF Meta, Metadata, Statuses
    <3>3. CASE box.state # "running" /\ file' = file
      BY <3>3, <1>0, DeployTypes
    <3> QED BY <2>1, <3>1, <3>2, <3>3
  <2>4. DeployTypeOK'
    BY <2>1, <2>2, <2>3, <1>0, DeployTypes DEF DeployTypeOK
  <2>5. BooksAgree => BooksAgree'
    BY <2>1, <2>2, <2>3, DeployTypes DEF BooksAgree, NotStale
  <2> QED BY <2>1, <2>2, <2>3, <2>4, <2>5 DEF DeployInv, NotStale
<1> QED BY <1>1, <1>2, <1>3

\* A container is run, by a start or by a redeployment that may have written stale metadata:
\* the copy of that start is the only fresh one.
LEMMA RunsContainerKeeps ==
  ASSUME DeployInv, NEW s \in DeployStarts, RunsContainer(s, file), did' \in Books,
         did.staleWrite => did'.staleWrite, did.ran <= did'.ran, did'.earlyStop = did.earlyStop
  PROVE  DeployInv'
<1>0. /\ file \in Metadata /\ copy \in [DeployStarts -> Copies]
      /\ \A t \in DeployStarts : /\ copy[t].started \in Nat /\ copy[t].started <= clock
                                 /\ copy[t].writes \in Nat
  BY DEF DeployInv, DeployTypeOK, Copies
<1>1. PICK m \in Metadata :
        /\ m = [[file EXCEPT !.status = "starting", !.port = s] EXCEPT !.writes = file.writes + 1]
        /\ m.status = "starting" /\ m.port = s /\ m.writes = file.writes + 1
        /\ m.total = file.total /\ m.started = file.started
  <2>1. PICK e \in Metadata :
          /\ e = [file EXCEPT !.status = "starting", !.port = s] /\ e.status = "starting"
          /\ e.port = s /\ e.total = file.total /\ e.started = file.started
    <3>1. [file EXCEPT !.status = "starting", !.port = s]
            = Meta("starting", s, file.started, file.total, file.writes)
      BY <1>0, MetaEdits
    <3> QED BY <3>1, DeployTypes DEF Meta, Metadata, Statuses, DeployPorts
  <2>2. [e EXCEPT !.writes = file.writes + 1]
          = Meta("starting", s, file.started, file.total, file.writes + 1)
    <3>1. [e EXCEPT !.writes = file.writes + 1]
            = Meta(e.status, e.port, e.started, e.total, file.writes + 1)
      BY MetaEdits
    <3> QED BY <2>1, <3>1
  <2>3. Meta("starting", s, file.started, file.total, file.writes + 1) \in Metadata
    BY DeployTypes DEF Meta, Metadata, Statuses, DeployPorts
  <2> QED BY <2>1, <2>2, <2>3 DEF Meta
<1>2. /\ file' = m /\ copy' = [copy EXCEPT ![s] = m] /\ clock' = clock
      /\ box' = [state |-> "running", id |-> s, at |-> clock]
  BY <1>1 DEF RunsContainer
<1>3. m \in Copies
  BY <1>1 DEF Metadata, Copies
<1>4. \A t \in DeployStarts : copy'[t] = IF t = s THEN m ELSE copy[t]
  BY <1>0, <1>2
<1>5. copy' \in [DeployStarts -> Copies]
  BY <1>0, <1>2, <1>3
<1>6. box' \in ContainerStates /\ box'.state = "running" /\ box'.id = s /\ box'.at = clock
  BY <1>2, DeployTypes DEF ContainerStates, DeployPorts
<1>7. DeployTypeOK'
  BY <1>0, <1>1, <1>2, <1>4, <1>5, <1>6, DeployTypes DEF DeployTypeOK
<1>8. \A t \in DeployStarts : copy'[t].status \notin Idling => copy'[t].writes <= file'.writes
  BY <1>0, <1>1, <1>2, <1>4, DeployTypes DEF DeployInv
<1>9. \A t \in DeployStarts : t # s => ~NotStale(t)'
  BY <1>0, <1>1, <1>2, <1>4, DeployTypes DEF DeployInv, NotStale
<1>10. BooksAgree => BooksAgree'
  <2>1. did.ran \in Nat /\ did'.ran \in Nat /\ file.total \in Nat
    BY DeployTypes DEF Books
  <2>2. BooksAgree => file'.total <= did'.ran \/ did'.earlyStop
    BY <2>1, <1>1, <1>2 DEF BooksAgree
  <2>3. file'.port = box'.id /\ file'.status = "starting"
    BY <1>1, <1>2, <1>6
  <2>4. \A t \in DeployStarts : NotStale(t)' =>
          copy'[t].total = file'.total /\ copy'[t].port = t /\ box'.id = t
    BY <1>1, <1>2, <1>4, <1>6, <1>9
  <2> QED BY <2>2, <2>3, <2>4 DEF BooksAgree
<1> QED BY <1>7, <1>8, <1>10 DEF DeployInv

\* Metadata m is written: every copy that is still under way is then older than the file.
LEMMA WriteKeeps ==
  ASSUME DeployInv, NEW m \in Copies, m.status \in Statuses, m.started <= clock,
         file' = Meta(m.status, m.port, m.started, m.total, file.writes + 1),
         did' \in Books, did.staleWrite => did'.staleWrite,
         clock' = clock, box' \in ContainerStates, box'.at <= clock, copy' \in [DeployStarts -> Copies],
         \A t \in DeployStarts : copy'[t] = copy[t] \/ copy'[t] = [copy[t] EXCEPT !.status = "done"],
         (BooksAgree /\ ~did'.staleWrite) => (m.total <= did'.ran \/ did'.earlyStop),
         (BooksAgree /\ ~did'.staleWrite /\ box'.state = "running") =>
            (m.port = box'.id /\ m.status \in {"starting", "running", "error"}
             /\ (m.status = "running" => box'.at <= m.started))
  PROVE  DeployInv'
<1>0. /\ copy \in [DeployStarts -> Copies]
      /\ \A t \in DeployStarts : copy[t].started \in Nat /\ copy[t].started <= clock
      /\ m.port \in DeployPorts /\ m.started \in Nat /\ m.total \in Nat
  BY DEF DeployInv, DeployTypeOK, Copies
<1>1. /\ file' \in Metadata /\ file'.status = m.status /\ file'.port = m.port
      /\ file'.started = m.started /\ file'.total = m.total /\ file'.writes = file.writes + 1
  BY <1>0, DeployTypes DEF Meta, Metadata
<1>2. ASSUME NEW t \in DeployStarts
      PROVE  /\ copy'[t].started <= clock
             /\ copy'[t].status \notin Idling => copy'[t].writes <= file.writes
  <2>1. CASE copy'[t] = copy[t]
    BY <2>1, <1>0 DEF DeployInv
  <2>2. CASE copy'[t] = [copy[t] EXCEPT !.status = "done"]
    <3>1. copy[t] \in Copies
      BY <1>0
    <3>2. copy'[t] = Meta("done", copy[t].port, copy[t].started, copy[t].total, copy[t].writes)
      BY <2>2, <3>1, MetaEdits
    <3> QED BY <3>2, <1>0 DEF Idling, Meta
  <2> QED BY <2>1, <2>2
<1>3. DeployTypeOK'
  BY <1>1, <1>2, DeployTypes DEF DeployTypeOK
<1>4. ASSUME NEW t \in DeployStarts
      PROVE  /\ copy'[t].status \notin Idling => copy'[t].writes <= file'.writes
             /\ ~NotStale(t)'
  <2>1. copy'[t].writes \in Nat
    BY DEF Copies
  <2> QED BY <2>1, <1>1, <1>2, DeployTypes DEF NotStale
<1>5. BooksAgree /\ ~did'.staleWrite => BooksAgree'
  BY <1>1, <1>4 DEF BooksAgree
<1> QED BY <1>3, <1>4, <1>5 DEF DeployInv

\* What a save writes.
LEMMA SaveWrites ==
  ASSUME DeployInv, NEW m \in Copies, NEW d \in Books, Save(m, d)
  PROVE  /\ file' = Meta(m.status, m.port, m.started, m.total, file.writes + 1)
         /\ did' \in Books /\ did'.ran = d.ran /\ did'.earlyStop = d.earlyStop
         /\ did'.staleWrite = (d.staleWrite \/ m.writes # file.writes)
<1>1. file' = Meta(m.status, m.port, m.started, m.total, file.writes + 1)
  BY MetaEdits DEF Save
<1>2. did' = Book(d.ran, d.ops + 1, d.staleWrite \/ m.writes # file.writes, d.earlyStop)
  <2>1. did' = [d EXCEPT !.ops = d.ops + 1, !.staleWrite = d.staleWrite \/ m.writes # file.writes]
    BY DEF Save
  <2>2. PICK n, stale : n = d.ops + 1 /\ stale = (d.staleWrite \/ m.writes # file.writes)
    OBVIOUS
  <2>3. did' = [d EXCEPT !.ops = n, !.staleWrite = stale]
    BY <2>1, <2>2
  <2>4. did' = Book(d.ran, n, stale, d.earlyStop)
    BY <2>3, BookEdits
  <2> QED BY <2>2, <2>4
<1>3. /\ d.ran \in Nat /\ d.ops + 1 \in Nat /\ d.earlyStop \in BOOLEAN
      /\ (d.staleWrite \/ m.writes # file.writes) \in BOOLEAN
  BY DEF Books
<1> QED BY <1>1, <1>2, <1>3 DEF Book, Books

\* The end of a start, whatever it found.
LEMMA ReportsKeep ==
  ASSUME DeployInv, NEW s \in DeployStarts,
         StartReady(s) \/ StartSeesDead(s) \/ WaitRaises(s) \/ StartTimesOut(s)
  PROVE  DeployInv'
<1>0. PICK c \in Copies :
        /\ c = copy[s] /\ c.started \in Nat /\ c.started <= clock /\ c.writes \in Nat
        /\ c.total \in Nat /\ c.port \in DeployPorts
  BY DEF DeployInv, DeployTypeOK, Copies
<1>1. copy \in [DeployStarts -> Copies] /\ box \in ContainerStates /\ did \in Books
  BY DEF DeployInv, DeployTypeOK
<1>2. [c EXCEPT !.status = "done"] \in Copies
  <2>1. [c EXCEPT !.status = "done"] = Meta("done", c.port, c.started, c.total, c.writes)
    BY MetaEdits
  <2> QED BY <2>1, <1>0 DEF Meta, Copies, Idling
<1>3. ASSUME NEW m \in Copies, NEW seconds \in Nat, Reports(s, m, seconds), m.status \in Statuses,
             m.started <= clock, m.writes = c.writes, m.total = c.total, did.ran <= seconds,
             box' \in ContainerStates, box'.at <= clock,
             (NotStale(s) /\ BooksAgree /\ box'.state = "running") =>
               (m.port = box'.id /\ m.status \in {"running", "error"}
                /\ (m.status = "running" => box'.at <= m.started))
      PROVE  DeployInv'
  <2>1. PICK d \in Books :
          /\ d = [did EXCEPT !.ran = seconds] /\ d.ran = seconds /\ d.staleWrite = did.staleWrite
          /\ d.earlyStop = did.earlyStop
    <3>1. [did EXCEPT !.ran = seconds] = Book(seconds, did.ops, did.staleWrite, did.earlyStop)
      BY <1>1, BookEdits
    <3> QED BY <3>1, <1>3, DeployTypes DEF Book, Books
  <2>2. /\ Save(m, d) /\ copy' = [copy EXCEPT ![s] = [c EXCEPT !.status = "done"]]
        /\ clock' = clock /\ c.status \notin Idling
    BY <1>0, <1>3, <2>1 DEF Reports
  <2>3. /\ copy' \in [DeployStarts -> Copies]
        /\ \A t \in DeployStarts : copy'[t] = copy[t] \/ copy'[t] = [copy[t] EXCEPT !.status = "done"]
    BY <1>0, <1>1, <1>2, <2>2
  <2>4. /\ file' = Meta(m.status, m.port, m.started, m.total, file.writes + 1)
        /\ did' \in Books /\ did'.ran = seconds /\ did'.earlyStop = did.earlyStop
        /\ did'.staleWrite = (did.staleWrite \/ m.writes # file.writes)
    BY <2>1, <2>2, SaveWrites
  <2>5. ~did'.staleWrite => NotStale(s)
    BY <1>0, <1>3, <2>2, <2>4 DEF NotStale
  <2>6. (BooksAgree /\ ~did'.staleWrite) => (m.total <= did'.ran \/ did'.earlyStop)
    BY <1>0, <1>3, <2>4, <2>5, DeployTypes DEF BooksAgree
  <2> QED BY <1>3, <2>2, <2>3, <2>4, <2>5, <2>6, WriteKeeps
<1>4. CASE StartReady(s)
  <2>1. PICK m \in Copies :
          /\ m = [c EXCEPT !.status = "running", !.started = clock] /\ m.status = "running"
          /\ m.started = clock /\ m.total = c.total /\ m.writes = c.writes /\ m.port = c.port
    <3>1. [c EXCEPT !.status = "running", !.started = clock]
            = Meta("running", c.port, clock, c.total, c.writes)
      BY MetaEdits
    <3> QED BY <3>1, <1>0, DeployTypes DEF Meta, Copies, Statuses
  <2>2. Reports(s, m, did.ran) /\ box' = box
    BY <1>0, <1>4, <2>1 DEF StartReady
  <2>3. NotStale(s) /\ BooksAgree => m.port = box.id
    BY <1>0, <2>1 DEF BooksAgree
  <2>4. /\ m.status \in Statuses /\ m.started <= clock /\ did.ran <= did.ran /\ did.ran \in Nat
        /\ box' \in ContainerStates /\ box'.at <= clock /\ box'.at <= m.started
    BY <1>1, <2>1, <2>2, DeployTypes DEF Statuses
  <2>5. (NotStale(s) /\ BooksAgree /\ box'.state = "running") =>
          (m.port = box'.id /\ m.status \in {"running", "error"}
           /\ (m.status = "running" => box'.at <= m.started))
    BY <2>1, <2>2, <2>3, <2>4
  <2> QED BY <1>3, <2>1, <2>2, <2>4, <2>5
<1>5. ASSUME StartSeesDead(s) \/ WaitRaises(s) \/ StartTimesOut(s) PROVE DeployInv'
  <2>1. PICK m \in Copies :
          /\ m = [c EXCEPT !.status = "error"] /\ m.status = "error" /\ m.status \in Statuses
          /\ m.started = c.started /\ m.started <= clock /\ m.total = c.total /\ m.writes = c.writes
          /\ m.port = c.port
    <3>1. [c EXCEPT !.status = "error"] = Meta("error", c.port, c.started, c.total, c.writes)
      BY MetaEdits
    <3> QED BY <3>1, <1>0 DEF Meta, Copies, Statuses
  <2>2. CASE StartSeesDead(s)
    <3>1. Reports(s, m, did.ran) /\ box' = box /\ (box.id # s \/ box.state # "running")
      BY <1>0, <2>1, <2>2 DEF StartSeesDead
    <3>2. NotStale(s) /\ BooksAgree => box.id = s
      BY DEF BooksAgree
    <3>3. did.ran <= did.ran /\ did.ran \in Nat /\ box' \in ContainerStates /\ box'.at <= clock
      BY <1>1, <3>1, DeployTypes
    <3> QED BY <1>3, <2>1, <3>1, <3>2, <3>3
  <2>3. CASE WaitRaises(s)
    <3>1. Reports(s, m, did.ran) /\ box' = box
      BY <1>0, <2>1, <2>3 DEF WaitRaises
    <3>2. NotStale(s) /\ BooksAgree => m.port = box.id
      BY <1>0, <2>1 DEF BooksAgree
    <3>3. did.ran <= did.ran /\ did.ran \in Nat /\ box' \in ContainerStates /\ box'.at <= clock
      BY <1>1, <3>1, DeployTypes
    <3> QED BY <1>3, <2>1, <3>1, <3>2, <3>3
  <2>4. CASE StartTimesOut(s)
    <3>1. Reports(s, m, Ran) /\ box' = NoBox
      BY <1>0, <2>1, <2>4 DEF StartTimesOut
    <3>2. box' \in ContainerStates /\ box'.state = "absent" /\ box'.at <= clock
      BY <3>1, DeployTypes DEF NoBox, ContainerStates, DeployPorts
    <3>3. did.ran <= Ran /\ Ran \in Nat
      BY DeployTypes
    <3> QED BY <1>3, <2>1, <3>1, <3>2, <3>3
  <2> QED BY <1>5, <2>2, <2>3, <2>4
<1> QED BY <1>4, <1>5

\* A stop adds no more than the container has run, unless it was still starting.
LEMMA StopKeeps ==
  ASSUME DeployInv, Stop
  PROVE  DeployInv'
<1>0. file \in Metadata /\ did \in Books /\ copy \in [DeployStarts -> Copies]
  BY DEF DeployInv, DeployTypeOK
<1>1. PICK total \in Nat :
        total = (IF box.state = "running" /\ file.started # 0
                 THEN file.total + (clock - file.started) ELSE file.total)
  BY DeployTypes
<1>2. PICK m \in Copies :
        /\ m = [file EXCEPT !.status = "stopped", !.total = total]
        /\ m.status = "stopped" /\ m.total = total /\ m.writes = file.writes
        /\ m.started = file.started
  <2>1. [file EXCEPT !.status = "stopped", !.total = total]
          = Meta("stopped", file.port, file.started, total, file.writes)
    BY <1>0, MetaEdits
  <2> QED BY <2>1, <1>1, DeployTypes DEF Meta, Copies, Statuses
<1>3. PICK early : early = (did.earlyStop \/ StopsEarly)
  OBVIOUS
<1>4. PICK d \in Books :
        /\ d = [did EXCEPT !.ran = Ran, !.earlyStop = early]
        /\ d.ran = Ran /\ d.staleWrite = did.staleWrite /\ d.earlyStop = early
  <2>1. [did EXCEPT !.ran = Ran, !.earlyStop = early] = Book(Ran, did.ops, did.staleWrite, early)
    <3>1. did \in Books
      BY <1>0
    <3>2. \A x, y : [did EXCEPT !.ran = x, !.earlyStop = y] = Book(x, did.ops, did.staleWrite, y)
      BY <3>1, BookEdits
    <3> QED BY <3>2
  <2> QED BY <2>1, <1>3, DeployTypes DEF Book, Books
<1>5. Save(m, d) /\ box' = NoBox /\ UNCHANGED <<copy, clock>>
  BY <1>1, <1>2, <1>3, <1>4 DEF Stop
<1>6. /\ file' = Meta(m.status, m.port, m.started, m.total, file.writes + 1)
      /\ did' \in Books /\ did'.ran = Ran /\ did'.earlyStop = early
      /\ did'.staleWrite = did.staleWrite
  <2>1. /\ file' = Meta(m.status, m.port, m.started, m.total, file.writes + 1)
        /\ did' \in Books /\ did'.ran = d.ran /\ did'.earlyStop = d.earlyStop
        /\ did'.staleWrite = (d.staleWrite \/ m.writes # file.writes)
    BY <1>5, SaveWrites
  <2> QED BY <2>1, <1>2, <1>4, DeployTypes
<1>7. box' \in ContainerStates /\ box'.state = "absent" /\ box'.at <= clock
  BY <1>5, DeployTypes DEF NoBox, ContainerStates, DeployPorts
<1>8. BooksAgree => m.total <= Ran \/ early
  <2>1. CASE box.state = "running" /\ file.started # 0 /\ ~StopsEarly
    <3>1. BooksAgree => box.at <= file.started
      BY <2>1 DEF BooksAgree, StopsEarly
    <3>2. m.total = file.total + (clock - file.started) /\ Ran = did.ran + (clock - box.at)
      BY <2>1, <1>1, <1>2 DEF Ran
    <3> QED BY <3>1, <3>2, <1>3, DeployTypes DEF BooksAgree
  <2>2. CASE StopsEarly
    BY <2>2, <1>3
  <2>3. CASE ~(box.state = "running" /\ file.started # 0)
    <3>1. m.total = file.total
      BY <2>3, <1>1, <1>2
    <3> QED BY <3>1, <1>3, DeployTypes DEF BooksAgree
  <2> QED BY <2>1, <2>2, <2>3
<1>9. /\ m.status \in Statuses /\ m.started <= clock /\ copy' \in [DeployStarts -> Copies]
      /\ \A t \in DeployStarts : copy'[t] = copy[t]
  BY <1>0, <1>2, <1>5, DeployTypes DEF Statuses
<1> QED BY <1>5, <1>6, <1>7, <1>8, <1>9, WriteKeeps

\* A container that could not be run leaves none that runs.
LEMMA RunRaisesKeeps ==
  ASSUME DeployInv, NEW s \in DeployStarts, RunRaises(s), did' \in Books,
         did.staleWrite => did'.staleWrite, did.ran <= did'.ran, did'.earlyStop = did.earlyStop
  PROVE  DeployInv'
<1>0. file \in Metadata /\ did \in Books /\ copy \in [DeployStarts -> Copies] /\ copy[s] \in Copies
  BY DEF DeployInv, DeployTypeOK
<1>1. PICK m \in Copies :
        /\ m = Meta("error", s, file.started, file.total, file.writes)
        /\ m.status = "error" /\ m.status \in Statuses /\ m.port = s
        /\ m.started = file.started /\ m.total = file.total
  <2>1. Meta("error", s, file.started, file.total, file.writes) \in Copies
    BY DeployTypes DEF Meta, Copies, Statuses, DeployPorts
  <2> QED BY <2>1 DEF Meta, Statuses
<1>2. file' = Meta(m.status, m.port, m.started, m.total, file.writes + 1)
  <2>1. PICK e \in Metadata : e = [file EXCEPT !.status = "error", !.port = s]
                             /\ e = Meta("error", s, file.started, file.total, file.writes)
    <3>1. [file EXCEPT !.status = "error", !.port = s] = Meta("error", s, file.started, file.total, file.writes)
      BY <1>0, MetaEdits
    <3> QED BY <3>1, DeployTypes DEF Meta, Metadata, Statuses, DeployPorts
  <2>2. file' = [e EXCEPT !.writes = file.writes + 1]
    BY <1>0, <2>1 DEF RunRaises, Metadata
  <2>3. [e EXCEPT !.writes = file.writes + 1] = Meta(e.status, e.port, e.started, e.total, file.writes + 1)
    BY MetaEdits
  <2> QED BY <1>1, <2>1, <2>2, <2>3 DEF Meta
<1>3. box' \in ContainerStates /\ box'.state # "running" /\ box'.at <= clock /\ clock' = clock
  BY DeployTypes DEF RunRaises, NoBox, ContainerStates, DeployPorts
<1>4. [copy[s] EXCEPT !.status = "done"] \in Copies
  <2>1. [copy[s] EXCEPT !.status = "done"]
          = Meta("done", copy[s].port, copy[s].started, copy[s].total, copy[s].writes)
    BY <1>0, MetaEdits
  <2> QED BY <2>1, <1>0 DEF Meta, Copies, Idling
<1>5. /\ copy' \in [DeployStarts -> Copies]
      /\ \A t \in DeployStarts : copy'[t] = copy[t] \/ copy'[t] = [copy[t] EXCEPT !.status = "done"]
  BY <1>0, <1>4 DEF RunRaises
<1>6. BooksAgree => m.total <= did'.ran \/ did'.earlyStop
  BY <1>0, <1>1, DeployTypes DEF BooksAgree, Books
<1>7. m.started <= clock
  BY <1>1, DeployTypes
<1> QED BY <1>1, <1>2, <1>3, <1>5, <1>6, <1>7, WriteKeeps

\* A redeployment whose stop found a container writes stale metadata back.
LEMMA RedeployKeeps ==
  ASSUME DeployInv, NEW s \in DeployStarts, Redeploy(s)
  PROVE  DeployInv'
<1>0. file \in Metadata /\ did \in Books /\ copy \in [DeployStarts -> Copies] /\ copy[s] \in Copies
  BY DEF DeployInv, DeployTypeOK
<1>1. /\ did' \in Books /\ did'.ran = Ran /\ did'.earlyStop = did.earlyStop
      /\ did.staleWrite => did'.staleWrite
  <2>1. PICK n, stale : n = did.ops + 1 /\ stale = (did.staleWrite \/ box.state # "absent")
    OBVIOUS
  <2>2. did' = [did EXCEPT !.ops = n, !.ran = Ran, !.staleWrite = stale]
    BY <2>1 DEF Redeploy
  <2>3. did' = Book(Ran, n, stale, did.earlyStop)
    <3>1. did \in Books
      BY <1>0
    <3>2. \A x, y, z : [did EXCEPT !.ops = x, !.ran = y, !.staleWrite = z]
                          = Book(y, x, z, did.earlyStop)
      BY <3>1, BookEdits
    <3> QED BY <2>2, <3>2
  <2> QED BY <2>1, <2>3, DeployTypes DEF Book, Books
<1>2. CASE RunsContainer(s, file) \/ RunRaises(s)
  BY <1>1, <1>2, DeployTypes, RunsContainerKeeps, RunRaisesKeeps
<1>3. CASE /\ file' = [file EXCEPT !.status = "error", !.writes = @ + 1]
           /\ copy' = [copy EXCEPT ![s].status = "done"]
           /\ box' = NoBox
           /\ UNCHANGED clock
  <2>1. PICK m \in Copies :
          /\ m.status = "error" /\ m.status \in Statuses /\ m.port = file.port
          /\ m.started = file.started /\ m.total = file.total
    <3>1. Meta("error", file.port, file.started, file.total, file.writes) \in Copies
      BY DeployTypes DEF Meta, Copies, Statuses
    <3> QED BY <3>1 DEF Meta, Statuses
  <2>2. file' = Meta(m.status, m.port, m.started, m.total, file.writes + 1)
    <3>1. file' = [file EXCEPT !.status = "error", !.writes = file.writes + 1]
      BY <1>3
    <3>2. file' = Meta("error", file.port, file.started, file.total, file.writes + 1)
      <4>1. PICK n : n = file.writes + 1
        OBVIOUS
      <4>2. file' = [file EXCEPT !.status = "error", !.writes = n]
        BY <3>1, <4>1
      <4>3. \A x, y : [file EXCEPT !.status = x, !.writes = y]
                         = Meta(x, file.port, file.started, file.total, y)
        BY <1>0, MetaEdits
      <4> QED BY <4>1, <4>2, <4>3
    <3> QED BY <2>1, <3>2
  <2>3. box' \in ContainerStates /\ box'.state = "absent" /\ box'.at <= clock
    BY <1>3, DeployTypes DEF NoBox, ContainerStates, DeployPorts
  <2>4. [copy[s] EXCEPT !.status = "done"] \in Copies
    <3>1. [copy[s] EXCEPT !.status = "done"]
            = Meta("done", copy[s].port, copy[s].started, copy[s].total, copy[s].writes)
      BY <1>0, MetaEdits
    <3> QED BY <3>1, <1>0 DEF Meta, Copies, Idling
  <2>5. /\ copy' \in [DeployStarts -> Copies]
        /\ \A t \in DeployStarts : copy'[t] = copy[t] \/ copy'[t] = [copy[t] EXCEPT !.status = "done"]
    BY <1>0, <1>3, <2>4
  <2>6. BooksAgree => m.total <= did'.ran \/ did'.earlyStop
    BY <1>1, <2>1, DeployTypes DEF BooksAgree
  <2>7. m.started <= clock /\ clock' = clock
    BY <1>3, <2>1, DeployTypes
  <2> QED BY <1>1, <2>1, <2>2, <2>3, <2>5, <2>6, <2>7, WriteKeeps
<1> QED BY <1>2, <1>3 DEF Redeploy

\* Every step keeps the invariant.
LEMMA DeployInvNext == DeployInv /\ [DeployNext]_deployVars => DeployInv'
<1> SUFFICES ASSUME DeployInv, [DeployNext]_deployVars PROVE DeployInv'
  OBVIOUS
<1>1. CASE Tick \/ BoxStops \/ GetStatus
  BY <1>1, QuietDeployKeeps
<1>2. CASE Stop
  BY <1>2, StopKeeps
<1>3. ASSUME NEW s \in DeployStarts, StartBegins(s) PROVE DeployInv'
  <2>1. (RunsContainer(s, file) \/ RunRaises(s)) /\ did' = [did EXCEPT !.ops = did.ops + 1]
    BY <1>3 DEF StartBegins
  <2>2. did' = Book(did.ran, did.ops + 1, did.staleWrite, did.earlyStop)
    BY <2>1, BookEdits DEF DeployInv, DeployTypeOK
  <2>3. /\ did' \in Books /\ did'.staleWrite = did.staleWrite /\ did'.ran = did.ran
        /\ did'.earlyStop = did.earlyStop /\ did.ran <= did'.ran
    BY <2>2, DeployTypes DEF Book, Books
  <2> QED BY <2>1, <2>3, RunsContainerKeeps, RunRaisesKeeps
<1>4. ASSUME NEW s \in DeployStarts,
             StartReady(s) \/ StartSeesDead(s) \/ WaitRaises(s) \/ StartTimesOut(s)
      PROVE  DeployInv'
  BY <1>4, ReportsKeep
<1>5. ASSUME NEW s \in DeployStarts, Redeploy(s) PROVE DeployInv'
  BY <1>5, RedeployKeeps
<1>6. CASE UNCHANGED deployVars
  BY <1>6 DEF deployVars, DeployInv, DeployTypeOK, BooksAgree, NotStale
<1> QED BY <1>1, <1>2, <1>3, <1>4, <1>5, <1>6 DEF DeployNext

\* The invariant gives what the run checks.
LEMMA DeployInvTells == DeployInv => DeploymentBooks
<1> SUFFICES ASSUME DeployInv PROVE DeploymentBooks
  OBVIOUS
<1>1. BooksAgree => file.total <= Ran \/ did.earlyStop
  BY DeployTypes DEF BooksAgree
<1> QED BY <1>1 DEF DeployInv, BooksAgree, DeploymentBooks

-----------------------------------------------------------------------------
(* The composed system.                                                      *)

\* A step is one of a part, and leaves the variables of all others alone.
LEMMA PartsApart ==
  [Next]_vars => /\ ImageNext \/ UNCHANGED imageVars
                 /\ SetupNext \/ UNCHANGED setupVars
                 /\ SandboxNext \/ UNCHANGED sandboxVars
                 /\ NestedNext \/ UNCHANGED nestedVars
                 /\ DockerNext \/ UNCHANGED dockerVars
                 /\ LocalNext \/ UNCHANGED localVars
                 /\ RemoteNext \/ UNCHANGED remoteVars
                 /\ KubeNext \/ UNCHANGED kubeVars
                 /\ CliNext \/ UNCHANGED cliVars
                 /\ BashNext \/ UNCHANGED bashVars
                 /\ PsNext \/ UNCHANGED psVars
                 /\ BrowserNext \/ UNCHANGED browserVars
                 /\ JupyterNext \/ UNCHANGED jupyterVars
                 /\ WindowNext \/ UNCHANGED windowVars
                 /\ EditNext \/ UNCHANGED editVars
                 /\ ActionNext \/ UNCHANGED actionVars
                 /\ DeployNext \/ UNCHANGED deployVars
  BY DEF Next, vars

\* The image a sandbox was started from is what its tags say, and the user's hook, the
\* microagents and the project are there as announced, for any number of builders,
\* requests, jobs and faults.
THEOREM SandboxHoldsWhatItSays == Spec => []SandboxContents
<1>1. Init => ImageInv /\ WorkspaceInv
  BY ImageStarts, WorkspaceStarts DEF Init
<1>2. ImageInv /\ WorkspaceInv /\ [Next]_vars => ImageInv' /\ WorkspaceInv'
  <2>1. ImageInv /\ UNCHANGED imageVars => ImageInv'
    BY ImageFrame DEF imageVars
  <2> QED BY <2>1, PartsApart, ImageSteps, WorkspaceSteps, WorkspaceFrame
<1>3. ImageInv /\ WorkspaceInv => SandboxContents
  BY ImagesAreTrue, WorkspaceIsKept DEF SandboxContents
<1> QED
  BY <1>1, <1>2, <1>3, PTL DEF Spec

\* No two runtimes are on one port unless a lock file was unlinked late or a lock lost; no
\* process and no sandbox runs on that nobody will end; a pod has all its parts or none
\* unless a sequence of calls was cut short: for any number of runtimes, ports, lock
\* files, servers, sandboxes and faults.
THEOREM NothingRunsUnaccounted == Spec => []RuntimesAccounted
<1> DEFINE Inv == DockerInv /\ ServersInv /\ RemoteInv /\ KubeInv
<1>1. Init => Inv
  BY DockerStarts, LocalStarts, RemoteStarts, KubeStarts DEF Init
<1>2. Inv /\ [Next]_vars => Inv'
  <2> SUFFICES ASSUME Inv, [Next]_vars PROVE Inv'
    OBVIOUS
  <2>1. DockerInv'
    BY PartsApart, DockerSteps, DockerFrame
  <2>2. ServersInv'
    BY PartsApart, LocalServerSteps, LocalFrame
  <2>3. RemoteInv'
    BY PartsApart, RemoteBoxSteps, RemoteFrame
  <2>4. KubeInv'
    <3>1. UNCHANGED kubeVars => UNCHANGED <<cluster, kube, deleting, torn>>
      BY DEF kubeVars
    <3> QED BY <3>1, PartsApart, KubeSteps, KubeFrame
  <2> QED BY <2>1, <2>2, <2>3, <2>4
<1>3. Inv => RuntimesAccounted
  BY DockerPorts, NoServerForgotten, NoBoxForgotten, PodWhole DEF RuntimesAccounted
<1> QED
  BY <1>1, <1>2, <1>3, PTL DEF Spec

\* A command in the tmux pane is answered with its own output unless input reached the
\* prompt; what a PowerShell job prints is shown once while it is followed; and the output
\* of a child process is whole, or the call fails: for any number of calls, jobs and lines.
THEOREM ShellsAnswerTheirOwn == Spec => []ShellsAnswer
<1> DEFINE Inv == BashInv /\ PsInv /\ CliInv
<1>1. Init => Inv
  BY BashStarts, PsStarts, CliStarts DEF Init
<1>2. Inv /\ [Next]_vars => Inv'
  <2> SUFFICES ASSUME Inv, [Next]_vars PROVE Inv'
    OBVIOUS
  <2>1. BashInv'
    BY PartsApart, BashSteps, BashFrame
  <2>2. PsInv'
    BY PartsApart, PsSteps, PsFrame
  <2>3. CliInv'
    BY PartsApart, CliSteps, CliFrame
  <2> QED BY <2>1, <2>2, <2>3
<1>3. Inv => ShellsAnswer
  BY PsTells, CliWhole DEF ShellsAnswer, BashInv
<1> QED
  BY <1>1, <1>2, <1>3, PTL DEF Spec

\* The page, the cell, the window and the edit that the agent is shown are the ones it
\* asked for, whatever timed out, was lost or came late: for any number of actions, cells,
\* prints, lost connections, lines and drafts.
THEOREM ToolsAnswerTheirOwn == Spec => []ToolsAnswer
<1> DEFINE Inv == BrowserInv /\ JupyterInv /\ WindowInv /\ EditInv
<1>1. Init => Inv
  BY BrowserStarts, JupyterStarts, WindowStarts, EditStarts DEF Init
<1>2. Inv /\ [Next]_vars => Inv'
  <2> SUFFICES ASSUME Inv, [Next]_vars PROVE Inv'
    OBVIOUS
  <2>1. BrowserInv'
    BY PartsApart, BrowserSteps, BrowserFrame
  <2>2. JupyterInv'
    BY PartsApart, JupyterSteps, JupyterFrame
  <2>3. WindowInv'
    BY PartsApart, WindowSteps, WindowFrame
  <2>4. EditInv'
    BY PartsApart, EditSteps, EditFrame
  <2> QED BY <2>1, <2>2, <2>3, <2>4
<1>3. Inv => ToolsAnswer
  BY BrowserTells, JupyterTells, WindowTells, EditTells DEF ToolsAnswer
<1> QED
  BY <1>1, <1>2, <1>3, PTL DEF Spec

\* Whatever the clients, attempts and lost answers: an answer that is read says that all its
\* client did before has run, in the order it was sent, and no cell runs elsewhere than the
\* shell by the server's doing.
THEOREM ActionsRunInOrder == Spec => []ActionsSeeEarlierOnes
<1>1. Init => ActionInv
  BY ActionInvInit DEF Init
<1>2. ActionInv /\ [Next]_vars => ActionInv'
  BY PartsApart, ActionInvNext
<1> QED
  BY <1>1, <1>2, ActionInvTells, PTL DEF Spec

\* Whatever the requests, the health checks and the containers that exit: as long as no stale
\* metadata is written, a deployment reported running has the port of its container, and no more
\* is charged than was run unless one was stopped while it started or after its start had raised.
THEOREM DeploymentBooksKept == Spec => []DeploymentBooks
<1>1. Init => DeployInv
  BY DeployInvInit DEF Init
<1>2. DeployInv /\ [Next]_vars => DeployInv'
  BY PartsApart, DeployInvNext
<1> QED
  BY <1>1, <1>2, DeployInvTells, PTL DEF Spec

\* Every sandbox that runs can be found again, or the call that started or stopped it failed,
\* and a start or resume goes on with room left, as far as its count could see; a conversation
\* is reported starting or running only while it is, and more containers than allowed need two
\* starts in progress at once: for any number of requests, sandboxes, conversations and faults.
THEOREM SandboxesOnTheBooks == Spec => []SandboxBooks
<1> DEFINE Inv == SandboxInv /\ NestedInv
<1>1. Init => Inv
  BY SandboxStarts, NestedStarts DEF Init
<1>2. Inv /\ [Next]_vars => Inv'
  <2> SUFFICES ASSUME Inv, [Next]_vars PROVE Inv'
    OBVIOUS
  <2>1. SandboxInv'
    BY PartsApart, SandboxSteps, SandboxFrame
  <2>2. NestedInv'
    BY PartsApart, NestedSteps, NestedFrame
  <2> QED BY <2>1, <2>2
<1>3. Inv => SandboxBooks
  BY SandboxTells, NestedTells DEF SandboxBooks
<1> QED
  BY <1>1, <1>2, <1>3, PTL DEF Spec
=============================================================================
