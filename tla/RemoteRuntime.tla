--------------------------- MODULE RemoteRuntime ---------------------------
(* Sandboxes that run elsewhere: behind the runtime API, and below it the    *)
(* pods of a Kubernetes cluster.                                             *)
(***************************************************************************)
(* RemoteRuntime: sandboxes behind the runtime API.  The runtimes of one    *)
(* conversation (the session's, and those that requests attach) look the    *)
(* sandbox up, resume, start, pause and stop it; every call to the API may  *)
(* fail, and may have been carried out all the same.                       *)
(***************************************************************************)
EXTENDS Naturals, Sequences, FiniteSets

CONSTANTS
  Remotes,         \* runtimes of one conversation
  AttachedRemotes, \* those made with attach_to_existing
  MaxBoxes,        \* bound: sandboxes the API makes
  MaxFaults,       \* bound: calls that fail
  NoBoxId

ASSUME RemoteAssumption == NoBoxId \notin Nat /\ {MaxBoxes, MaxFaults} \subseteq Nat

VARIABLES
  onClose,   \* "stopped", or with keep_runtime_alive "kept", or "paused" (pause_closed_runtimes)
  boxes,     \* sandbox -> "running", "paused" or "stopped"; they are 1 .. made
  current,   \* the one GET /sessions/{sid} answers with
  remote,    \* runtime -> [at, id, closed]
  faults,
  excused    \* history: sandboxes that a failed call left behind, or that a runtime woke
             \* which will not put them to rest: an attached or an already closed one

remoteVars == <<onClose, boxes, current, remote, faults, excused>>

RemoteInit ==
  /\ onClose \in {"stopped", "kept", "paused"}
  /\ boxes = <<>> /\ current = NoBoxId
  /\ remote = [r \in Remotes |-> [at |-> "new", id |-> NoBoxId, closed |-> FALSE]]
  /\ faults = 0 /\ excused = {}

At(r, at) == remote' = [remote EXCEPT ![r].at = at]
Fault == faults < MaxFaults /\ faults' = faults + 1

\* A runtime that does not put its sandbox to rest when it is closed.
Careless(r) == r \in AttachedRemotes \/ remote[r].closed

\* A call that changes the runtime's sandbox: it succeeds, or it fails without
\* or after having its effect.  Without a sandbox it fails.
Call(r, state, failed) ==
  LET id == remote[r].id IN
  IF id = NoBoxId THEN failed /\ UNCHANGED <<boxes, faults, excused>>
  ELSE IF failed
  THEN /\ Fault /\ boxes' \in {boxes, [boxes EXCEPT ![id] = state]}
       /\ excused' = excused \cup {id}
  ELSE /\ boxes' = [boxes EXCEPT ![id] = state]
       /\ excused' = IF state = "running" /\ Careless(r) THEN excused \cup {id} ELSE excused
       /\ UNCHANGED faults

-----------------------------------------------------------------------------
(* connect *)

Usable == {b \in DOMAIN boxes : boxes[b] # "stopped"}

\* _check_existing_runtime: nothing or a stopped sandbox is the same.
FindsNone(r) ==
  /\ remote[r].at = "new"
  /\ current \notin Usable
  /\ At(r, IF r \in AttachedRemotes THEN "failing" ELSE "start")
  /\ UNCHANGED <<onClose, boxes, current, faults, excused>>

FindsOne(r) ==
  /\ remote[r].at = "new" /\ current \in Usable
  /\ remote' = [remote EXCEPT ![r] = [@ EXCEPT !.id = current,
                  !.at = IF boxes[current] = "running" THEN "wait" ELSE "resume"]]
  /\ UNCHANGED <<onClose, boxes, current, faults, excused>>

LookUpFails(r) ==
  /\ remote[r].at = "new" /\ Fault /\ At(r, "failing")
  /\ UNCHANGED <<onClose, boxes, current, excused>>

\* _start_runtime; the answer may be lost, and the sandbox with it.
PostsStart(r) ==
  /\ remote[r].at = "start" /\ Len(boxes) < MaxBoxes
  /\ boxes' = Append(boxes, "running") /\ current' = Len(boxes) + 1
  /\ \/ /\ remote' = [remote EXCEPT ![r] = [@ EXCEPT !.id = Len(boxes) + 1, !.at = "wait"]]
        /\ excused' = IF Careless(r) THEN excused \cup {Len(boxes) + 1} ELSE excused
        /\ UNCHANGED faults
     \/ /\ Fault /\ At(r, "failing") /\ excused' = excused \cup {Len(boxes) + 1}
  /\ UNCHANGED onClose

\* _resume_runtime on the way to a connection: when it fails, the sandbox is
\* given up for a new one.
PostsResume(r) ==
  /\ remote[r].at = "resume"
  /\ \E failed \in BOOLEAN :
       /\ Call(r, "running", failed)
       /\ At(r, IF ~failed THEN "wait" ELSE IF r \in AttachedRemotes THEN "failing" ELSE "start")
  /\ UNCHANGED <<onClose, current>>

\* _wait_until_alive and setup_initial_env.
BecomesReady(r) ==
  /\ remote[r].at = "wait" /\ boxes[remote[r].id] = "running"
  /\ At(r, "ready")
  /\ UNCHANGED <<onClose, boxes, current, faults, excused>>

MutGivesUp(r) ==
  /\ remote[r].at = "wait" /\ At(r, "gone")
  /\ UNCHANGED <<onClose, boxes, current, faults, excused>>

NeverReady(r) ==
  /\ remote[r].at = "wait" /\ At(r, "failing")
  /\ UNCHANGED <<onClose, boxes, current, faults, excused>>

-----------------------------------------------------------------------------
(* close, and requests to a paused sandbox *)

\* ActionExecutionClient.close happens once; a pause that fails is raised before it.
CloseEffect(r, at, failed) ==
  /\ IF Careless(r) \/ onClose = "kept"
     THEN ~failed /\ UNCHANGED <<boxes, faults, excused>>
     ELSE Call(r, onClose, failed)
  /\ LET closed == remote[r].closed \/ ~(failed /\ onClose = "paused")
     IN remote' = [remote EXCEPT ![r] = [@ EXCEPT !.at = at, !.closed = closed]]
  /\ UNCHANGED <<onClose, current>>

\* connect failed: it closes the runtime itself.  With no sandbox found the
\* call names none and fails.
ClosesFailed(r) ==
  remote[r].at = "failing" /\ \E failed \in BOOLEAN : CloseEffect(r, "gone", failed)

ClosesRemote(r) ==
  /\ remote[r].at \in {"ready", "gone"}
  /\ \E failed \in BOOLEAN : CloseEffect(r, "gone", failed)

\* The session is closed while connect is under way in a thread, which goes on.
ClosesEarly(r) ==
  /\ remote[r].at \in {"start", "resume", "wait"}
  /\ \E failed \in BOOLEAN : CloseEffect(r, remote[r].at, failed)

\* The API pauses a sandbox that is idle.
ApiPauses ==
  \E b \in DOMAIN boxes : /\ boxes[b] = "running" /\ boxes' = [boxes EXCEPT ![b] = "paused"]
                          /\ UNCHANGED <<onClose, current, remote, faults, excused>>

\* _send_action_server_request_impl: 503 from a paused sandbox.  With
\* keep_runtime_alive it is resumed and the request is sent again; an attached
\* runtime does this too, and nobody will pause the sandbox after it.
ResumesForRequest(r) ==
  /\ remote[r].at = "ready" /\ onClose # "stopped" /\ boxes[remote[r].id] = "paused"
  /\ \E failed \in BOOLEAN : Call(r, "running", failed)
  /\ UNCHANGED <<onClose, current, remote>>

RemoteNext ==
  \/ \E r \in Remotes : \/ FindsNone(r) \/ FindsOne(r) \/ LookUpFails(r)
                        \/ PostsStart(r) \/ PostsResume(r) \/ BecomesReady(r) \/ NeverReady(r)
                        \/ ClosesFailed(r) \/ ClosesRemote(r) \/ ClosesEarly(r) \/ ResumesForRequest(r)
  \/ ApiPauses

RemoteSpec == RemoteInit /\ [][RemoteNext]_remoteVars

-----------------------------------------------------------------------------
(* Properties *)

\* No sandbox runs on unnoticed: one that runs is that of a runtime that will
\* pause or stop it, unless a call to the API failed or a runtime woke it that
\* leaves it to others.
RunningIsClaimed ==
  \A b \in DOMAIN boxes :
    (boxes[b] = "running" /\ onClose # "kept") =>
      b \in excused \/ \E r \in Remotes : /\ remote[r].id = b /\ ~Careless(r)
                                          /\ remote[r].at # "gone"

-----------------------------------------------------------------------------
(***************************************************************************)
(* KubernetesRuntime: the five resources of a conversation's sandbox, made  *)
(* one after the other and deleted in another order, each call to the API   *)
(* server a step of its own.  A creation that finds the name taken and a    *)
(* deletion that finds nothing raise like any other failure, and end the    *)
(* sequence they are part of.                                              *)
(***************************************************************************)
CONSTANTS
  KubeRuntimes,      \* runtimes of one conversation
  AttachedKube,      \* those made with attach_to_existing
  KeptKube,          \* keep_runtime_alive
  MaxKubeFaults      \* bound: calls that fail on their own

ASSUME KubeAssumption == IsFiniteSet(KubeRuntimes) /\ MaxKubeFaults \in Nat

VARIABLES
  cluster,    \* the resources of the conversation that exist
  podReady,   \* the pod is Running and Ready
  kube,       \* runtime -> what it does
  deleting,   \* the clean-up of delete or of the shutdown listener: steps left
  kubeFaults,
  torn        \* history: a sequence of calls was cut short

kubeVars == <<cluster, podReady, kube, deleting, kubeFaults, torn>>

\* _init_k8s_resources and _cleanup_k8s_resources, in the order of their calls.
Creation == <<"pvc", "pod", "svc", "code", "ingress">>
CleanUpSteps(remove_pvc) == (IF remove_pvc THEN <<"pvc">> ELSE <<>>) \o <<"pod", "svc", "code", "ingress">>

KubeInit ==
  /\ cluster = {} /\ podReady = FALSE
  /\ kube = [r \in KubeRuntimes |-> [at |-> "new", left |-> <<>>]]
  /\ deleting = <<>> /\ kubeFaults = 0 /\ torn = FALSE

KubeAt(r, at, left) == kube' = [kube EXCEPT ![r] = [at |-> at, left |-> left]]
KubeFault == kubeFaults < MaxKubeFaults /\ kubeFaults' = kubeFaults + 1

-----------------------------------------------------------------------------
(* connect *)

\* _attach_to_pod
AttachesToPod(r) ==
  /\ kube[r].at = "new" /\ "pod" \in cluster
  /\ KubeAt(r, "wait", <<>>)
  /\ UNCHANGED <<cluster, podReady, deleting, kubeFaults, torn>>

NoPod(r) ==
  /\ kube[r].at = "new" /\ "pod" \notin cluster
  /\ IF r \in AttachedKube THEN KubeAt(r, "failed", <<>>)
     ELSE KubeAt(r, "check", <<>>)
  /\ UNCHANGED <<cluster, podReady, deleting, kubeFaults, torn>>

\* _pvc_exists; the volume it finds may be deleted before the pod asks for it.
ChecksPvc(r) ==
  /\ kube[r].at = "check"
  /\ KubeAt(r, "create", IF "pvc" \in cluster THEN Tail(Creation) ELSE Creation)
  /\ UNCHANGED <<cluster, podReady, deleting, kubeFaults, torn>>

CreatesNext(r) ==
  /\ kube[r].at = "create" /\ kube[r].left # <<>>
  /\ Head(kube[r].left) \notin cluster
  /\ cluster' = cluster \cup {Head(kube[r].left)}
  /\ podReady' = IF Head(kube[r].left) = "pod" THEN FALSE ELSE podReady
  /\ KubeAt(r, IF Len(kube[r].left) = 1 THEN "wait" ELSE "create", Tail(kube[r].left))
  /\ UNCHANGED <<deleting, kubeFaults, torn>>

\* The name is taken, or the call fails: what was made so far stays.
CreationFails(r) ==
  /\ kube[r].at = "create"
  /\ IF Head(kube[r].left) \in cluster THEN UNCHANGED kubeFaults ELSE KubeFault
  /\ KubeAt(r, "failed", <<>>) /\ torn' = TRUE
  /\ UNCHANGED <<cluster, podReady, deleting>>

PodComesUp == /\ "pod" \in cluster /\ ~podReady /\ podReady' = TRUE
              /\ UNCHANGED <<cluster, kube, deleting, kubeFaults, torn>>

\* _wait_until_ready looks at the pod; setup_initial_env goes through the service.
KubeReady(r) ==
  /\ kube[r].at = "wait" /\ "pod" \in cluster /\ podReady
  /\ r \in AttachedKube \/ "svc" \in cluster
  /\ KubeAt(r, "ready", <<>>)
  /\ UNCHANGED <<cluster, podReady, deleting, kubeFaults, torn>>

KubeNeverReady(r) ==
  /\ kube[r].at = "wait" /\ KubeAt(r, "failed", <<>>)
  /\ UNCHANGED <<cluster, podReady, deleting, kubeFaults, torn>>

-----------------------------------------------------------------------------
(* close, delete *)

ClosesKube(r) ==
  /\ kube[r].at \in {"ready", "failed"}
  /\ KubeAt(r, "closing", IF r \in AttachedKube \cup KeptKube THEN <<>> ELSE CleanUpSteps(FALSE))
  /\ UNCHANGED <<cluster, podReady, deleting, kubeFaults, torn>>

\* One call of _cleanup_k8s_resources with `left` to go; a failure, and a
\* resource that is not there, ends it.
MutOneService(left) == IF Head(left) = "svc" THEN Tail(Tail(left)) ELSE Tail(left)

AfterDeleting(left) == Tail(left)

DeletesNext(left, rest) ==
  \/ /\ Head(left) \in cluster /\ cluster' = cluster \ {Head(left)}
     /\ rest = AfterDeleting(left)
     /\ UNCHANGED <<kubeFaults, torn>>
  \/ /\ IF Head(left) \in cluster THEN KubeFault ELSE UNCHANGED kubeFaults
     /\ rest = <<>> /\ torn' = TRUE
     /\ UNCHANGED cluster

CloseDeletes(r) ==
  /\ kube[r].at = "closing" /\ kube[r].left # <<>>
  /\ \E rest \in {<<>>, AfterDeleting(kube[r].left)} :
       DeletesNext(kube[r].left, rest) /\ KubeAt(r, "closing", rest)
  /\ UNCHANGED <<podReady, deleting>>

KubeClosed(r) ==
  /\ kube[r].at = "closing" /\ kube[r].left = <<>> /\ KubeAt(r, "gone", <<>>)
  /\ UNCHANGED <<cluster, podReady, deleting, kubeFaults, torn>>

DeletesKube ==
  /\ deleting = <<>> /\ deleting' = CleanUpSteps(TRUE)
  /\ UNCHANGED <<cluster, podReady, kube, kubeFaults, torn>>

DeleteGoesOn ==
  /\ deleting # <<>>
  /\ \E rest \in {<<>>, AfterDeleting(deleting)} : DeletesNext(deleting, rest) /\ deleting' = rest
  /\ UNCHANGED <<podReady, kube>>

KubeNext ==
  \/ \E r \in KubeRuntimes : \/ AttachesToPod(r) \/ NoPod(r) \/ ChecksPvc(r) \/ CreatesNext(r) \/ CreationFails(r)
                             \/ KubeReady(r) \/ KubeNeverReady(r) \/ ClosesKube(r)
                             \/ CloseDeletes(r) \/ KubeClosed(r)
  \/ PodComesUp \/ DeletesKube \/ DeleteGoesOn

KubeSpec == KubeInit /\ [][KubeNext]_kubeVars

-----------------------------------------------------------------------------
(* Properties *)

KubeIdle == deleting = <<>> /\ \A r \in KubeRuntimes : kube[r].at \notin {"create", "closing"}

\* The pod, its services and the ingress come and go together, however the
\* creations and deletions of a conversation's runtimes overlap, as long as no
\* sequence of calls was cut short.  The volume goes its own way: a runtime that
\* found it may lose it to a delete.
WholeOrGone ==
  (KubeIdle /\ ~torn) => cluster \ {"pvc"} \in {{}, {Creation[i] : i \in 2 .. Len(Creation)}}
=============================================================================
