------------------------------ MODULE Sessions ------------------------------
(***************************************************************************)
(* Conversations on one server: StandaloneConversationManager, the         *)
(* WebSession and AgentSession it keeps per conversation, the              *)
(* ServerConversation it lends to HTTP requests, and the web socket        *)
(* handlers that join and leave.                                           *)
(*                                                                         *)
(* Everything runs on one asyncio loop, so a step of the model is the code *)
(* from one suspension to the next.  A session (and the lent conversation) *)
(* is named by the request or connection that created it; each of these    *)
(* does one thing: a connection joins once, a request starts, stops or     *)
(* attaches to one conversation.                                           *)
(***************************************************************************)
EXTENDS Integers, FiniteSets

CONSTANTS
  Convs,             \* conversation ids
  Conns,             \* web socket connections
  Reqs,              \* HTTP requests
  MaxConversations,  \* config.max_concurrent_conversations, per user; one user here
  Scenarios,         \* bound: who comes together, each with an operation and a conversation
  Slow,              \* bound: the creators of sessions whose start may take over 90 seconds
  Cleaner,           \* the _cleanup_stale task
  None

Procs == Conns \cup Reqs

ASSUME SessionsAssumption ==
  /\ MaxConversations \in Nat \ {0}
  /\ Slow \subseteq Procs
  /\ \A plan \in Scenarios : \A p \in DOMAIN plan :
       p \in Procs /\ plan[p] \in {"connect", "start", "stop", "attach"} \X Convs
  /\ None \notin Procs \cup Convs \cup {Cleaner}

VARIABLES
  plan,        \* who comes in this behaviour and for what: one of Scenarios
  pc,          \* where each connection or request is
  target,      \* the conversation it is about
  open,        \* connections whose socket is open
  registered,  \* _local_connection_id_to_session_id
  loops,       \* _local_agent_loops_by_sid
  sess,        \* the sessions, by creator
  evict,       \* what a starter at the limit has still to look at or close
  tasks,       \* the _close_session calls under way
  lock,        \* holder of _conversations_lock across an await
  active,      \* _active_conversations: the lent conversation and its count
  detached,    \* _detached_conversations
  conv,        \* the ServerConversations, by the request that made them
  using,       \* the conversation each request holds
  container,   \* the sandbox of each conversation: "none", "running", "exited"
  stopping,    \* sessions whose runtime.close waits in the thread pool
  waited       \* history: starters that suspended at the limit

procVars == <<plan, pc, target, evict, waited>>
connVars == <<open, registered>>
convVars == <<lock, active, detached, conv, using>>
boxVars  == <<container, stopping>>
vars == <<procVars, connVars, loops, sess, tasks, convVars, boxVars>>

-----------------------------------------------------------------------------
(* Values *)

\* start: none, task (created), env (no runtime object yet), connect, setup, ended
\* sub: who is the RUNTIME subscriber of the stream: none, own, lent
\* close: no, emit (STOPPED is being sent), wait (_closed is set), done, cut
\* early: close() went on although start() had not ended
\* lent: a conversation made before the runtime existed shares the stream
NoSession == [start |-> "none", runtime |-> "none", controller |-> "none",
              stream |-> "open", sub |-> "none", close |-> "no",
              late |-> FALSE, idle |-> FALSE, early |-> FALSE, lent |-> FALSE]

Comes(p, op, s) == pc[p] = "idle" /\ p \in DOMAIN plan /\ plan[p] = <<op, s>>

NoConv == [shares |-> FALSE, stream |-> None, up |-> FALSE]

\* AgentSession._starting
Starting(i) == sess[i].start \in {"env", "connect", "setup"}

\* get_running_agent_loops
Running == {s \in Convs : loops[s] # None}

\* get_connections for one conversation
ConnsOf(s) == {c \in Conns : registered[c] = s}

Init ==
  /\ plan \in Scenarios
  /\ pc = [p \in Procs |-> "idle"]
  /\ target = [p \in Procs |-> None]
  /\ open = {}
  /\ registered = [c \in Conns |-> None]
  /\ loops = [s \in Convs |-> None]
  /\ sess = [p \in Procs |-> NoSession]
  /\ evict = [p \in Procs |-> {}]
  /\ tasks = {}
  /\ lock = None
  /\ active = [s \in Convs |-> <<None, 0>>]
  /\ detached = [s \in Convs |-> None]
  /\ conv = [r \in Reqs |-> NoConv]
  /\ using = [r \in Reqs |-> None]
  /\ container = [s \in Convs |-> "none"]
  /\ stopping = {}
  /\ waited = {}

-----------------------------------------------------------------------------
(* Starting an agent loop *)

\* _start_agent_loop, from the last suspension on: the session is made and
\* takes the conversation's place in the table, whatever is there.
NewSession(p, s) ==
  /\ loops' = [loops EXCEPT ![s] = p]
  /\ sess' = [sess EXCEPT ![p] = [NoSession EXCEPT !.start = "task"]]
  /\ pc' = [pc EXCEPT ![p] = "served"]

\* maybe_start_agent_loop up to its first suspension: below the limit there is
\* none between the look-up and the new entry.
MutNoLookUp(p, s) == NewSession(p, s) /\ UNCHANGED <<evict, waited>>

MaybeStart(p, s) ==
  \/ /\ loops[s] # None
     /\ pc' = [pc EXCEPT ![p] = "served"]
     /\ UNCHANGED <<loops, sess, evict, waited>>
  \/ /\ loops[s] = None
     /\ Cardinality(Running) < MaxConversations
     /\ NewSession(p, s)
     /\ UNCHANGED <<evict, waited>>
  \/ /\ loops[s] = None
     /\ Cardinality(Running) >= MaxConversations
     /\ pc' = [pc EXCEPT ![p] = "limit"]
     /\ evict' = [evict EXCEPT ![p] = Running]
     /\ waited' = waited \cup {p}
     /\ UNCHANGED <<loops, sess>>

\* The metadata of the running conversations has been read and sorted by its
\* last update: the oldest ones are to be closed.
ChooseOldest(p) ==
  /\ pc[p] = "limit"
  /\ \E old \in SUBSET evict[p] :
       /\ Cardinality(old) = Cardinality(evict[p]) - MaxConversations + 1
       /\ evict' = [evict EXCEPT ![p] = old]
  /\ pc' = [pc EXCEPT ![p] = "evict"]
  /\ UNCHANGED <<plan, target, waited, connVars, loops, sess, tasks, convVars, boxVars>>

Task(p, s) == [by |-> p, sid |-> s, at |-> "new", conns |-> {}, sess |-> None]

TasksOf(p) == {k \in tasks : k.by = p}

\* close_session of the next old conversation, when it still runs.
CloseOldest(p) ==
  /\ pc[p] = "evict"
  /\ TasksOf(p) = {}
  /\ \E s \in evict[p] :
       /\ evict' = [evict EXCEPT ![p] = @ \ {s}]
       /\ tasks' = IF loops[s] # None THEN tasks \cup {Task(p, s)} ELSE tasks
  /\ UNCHANGED <<plan, pc, target, waited, connVars, loops, sess, convVars, boxVars>>

StartAfterEviction(p) ==
  /\ pc[p] = "evict"
  /\ evict[p] = {}
  /\ TasksOf(p) = {}
  /\ NewSession(p, target[p])
  /\ UNCHANGED <<plan, target, evict, waited, connVars, tasks, convVars, boxVars>>

-----------------------------------------------------------------------------
(* The web socket handlers *)

\* connect: the stored events are replayed to the new socket and the settings
\* are read before the conversation is joined.
Connect(c, s) ==
  /\ Comes(c, "connect", s)
  /\ pc' = [pc EXCEPT ![c] = "replay"]
  /\ target' = [target EXCEPT ![c] = s]
  /\ open' = open \cup {c}
  /\ UNCHANGED <<plan, evict, waited, registered, loops, sess, tasks, convVars, boxVars>>

\* No settings: the connection is refused and closed.
ConnectRefused(c) ==
  /\ pc[c] = "replay"
  /\ pc' = [pc EXCEPT ![c] = "ended"]
  /\ open' = open \ {c}
  /\ UNCHANGED <<plan, target, evict, waited, registered, loops, sess, tasks, convVars, boxVars>>

\* join_conversation: enter_room raises when the socket is gone, else the
\* connection is registered and the loop started if need be.
Join(c) ==
  /\ pc[c] = "replay"
  /\ \/ /\ c \notin open
        /\ pc' = [pc EXCEPT ![c] = "ended"]
        /\ UNCHANGED <<registered, loops, sess, evict, waited>>
     \/ /\ c \in open
        /\ registered' = [registered EXCEPT ![c] = target[c]]
        /\ MaybeStart(c, target[c])
  /\ UNCHANGED <<plan, target, open, tasks, convVars, boxVars>>

\* The client goes away: disconnect, disconnect_from_session.
Disconnect(c) ==
  /\ c \in open
  /\ open' = open \ {c}
  /\ registered' = [registered EXCEPT ![c] = None]
  /\ UNCHANGED <<procVars, loops, sess, tasks, convVars, boxVars>>

-----------------------------------------------------------------------------
(* HTTP requests that start and stop a conversation *)

\* POST start (also: create): maybe_start_agent_loop without a connection.
StartRequest(r, s) ==
  /\ Comes(r, "start", s)
  /\ target' = [target EXCEPT ![r] = s]
  /\ MaybeStart(r, s)
  /\ UNCHANGED <<plan, connVars, tasks, convVars, boxVars>>

\* POST stop of a conversation that is starting or running.
StopRequest(r, s) ==
  /\ Comes(r, "stop", s)
  /\ loops[s] # None
  /\ pc' = [pc EXCEPT ![r] = "ended"]
  /\ target' = [target EXCEPT ![r] = s]
  /\ tasks' = tasks \cup {Task(r, s)}
  /\ UNCHANGED <<plan, evict, waited, connVars, loops, sess, convVars, boxVars>>

-----------------------------------------------------------------------------
(* _close_session *)

\* The session leaves the table and its close begins.
Popped(k) ==
  /\ loops' = [loops EXCEPT ![k.sid] = None]
  /\ IF loops[k.sid] = None
     THEN tasks' = tasks \ {k} /\ UNCHANGED sess
     ELSE /\ tasks' = (tasks \ {k}) \cup
                        {[k EXCEPT !.at = "close", !.conns = {}, !.sess = loops[k.sid]]}
          /\ sess' = [sess EXCEPT ![loops[k.sid]].close = "emit"]

\* The connections to drop are listed once; without any there is no suspension.
CloseBegins(k) ==
  /\ k.at = "new"
  /\ IF ConnsOf(k.sid) = {}
     THEN Popped(k)
     ELSE /\ tasks' = (tasks \ {k}) \cup {[k EXCEPT !.at = "drop", !.conns = ConnsOf(k.sid)]}
          /\ UNCHANGED <<loops, sess>>
  /\ UNCHANGED <<procVars, connVars, convVars, boxVars>>

DropConnection(k) ==
  /\ k.at = "drop"
  /\ \E c \in k.conns :
       /\ open' = open \ {c}
       /\ registered' = [registered EXCEPT ![c] = None]
       /\ IF k.conns = {c}
          THEN Popped(k)
          ELSE /\ tasks' = (tasks \ {k}) \cup {[k EXCEPT !.conns = @ \ {c}]}
               /\ UNCHANGED <<loops, sess>>
  /\ UNCHANGED <<procVars, convVars, boxVars>>

CloseReturns(k) ==
  /\ k.at = "close"
  /\ sess[k.sess].close = "done"
  /\ tasks' = tasks \ {k}
  /\ UNCHANGED <<procVars, connVars, loops, sess, convVars, boxVars>>

-----------------------------------------------------------------------------
(* WebSession.close and AgentSession.close *)

\* STOPPED has been sent to the room; _closed is set.
MarkClosed(i) ==
  /\ sess[i].close = "emit"
  /\ sess' = [sess EXCEPT ![i].close = "wait"]
  /\ UNCHANGED <<procVars, connVars, loops, tasks, convVars, boxVars>>

\* close() waits while start() runs; after the first sleep it goes on anyway
\* when no more than 90 seconds have passed since the start.
DoneWaiting(i) == Starting(i) => ~sess[i].late

\* The event stream, the controller and the runtime that exist are closed; the
\* runtime in a thread of its own.
MutForgetController(i) ==
  /\ sess[i].close = "wait"
  /\ DoneWaiting(i)
  /\ sess' = [sess EXCEPT ![i].close = "done", ![i].early = Starting(i),
                          ![i].stream = "closed", ![i].sub = "none",
                          ![i].runtime = IF @ = "made" THEN "closed" ELSE @]
  /\ stopping' = IF sess[i].runtime = "made" THEN stopping \cup {i} ELSE stopping
  /\ UNCHANGED <<procVars, connVars, loops, tasks, convVars, container>>

AgentClose(i) ==
  /\ sess[i].close = "wait"
  /\ DoneWaiting(i)
  /\ sess' = [sess EXCEPT ![i].close = "done", ![i].early = Starting(i),
                          ![i].stream = "closed", ![i].sub = "none",
                          ![i].controller = IF @ = "live" THEN "closed" ELSE @,
                          ![i].runtime = IF @ = "made" THEN "closed" ELSE @]
  /\ stopping' = IF sess[i].runtime = "made" THEN stopping \cup {i} ELSE stopping
  /\ UNCHANGED <<procVars, connVars, loops, tasks, convVars, container>>

\* DockerRuntime.close in the thread pool: the container of this name stops,
\* whichever session uses it by now.
RuntimeStops(i) ==
  /\ i \in stopping
  /\ stopping' = stopping \ {i}
  /\ container' = [container EXCEPT ![target[i]] = IF @ = "running" THEN "exited" ELSE @]
  /\ UNCHANGED <<procVars, connVars, loops, sess, tasks, convVars>>

-----------------------------------------------------------------------------
(* WebSession.initialize_agent and AgentSession.start *)

StartOnly == <<procVars, connVars, loops, tasks, convVars, stopping>>

\* Nothing is started for a session that was closed first.
BeginStart(i) ==
  /\ sess[i].start = "task"
  /\ sess' = [sess EXCEPT ![i].start =
                 IF sess[i].close \in {"no", "emit"} THEN "env" ELSE "ended"]
  /\ UNCHANGED <<StartOnly, container>>

\* _create_runtime: the runtime subscribes to the stream under the name of the
\* conversation, which raises when a lent conversation's runtime has done so.
MakeRuntime(i) ==
  /\ sess[i].start = "env"
  /\ sess' = [sess EXCEPT ![i] =
                 IF @.sub = "lent" THEN [@ EXCEPT !.start = "ended"]
                 ELSE [@ EXCEPT !.start = "connect", !.runtime = "made", !.sub = "own"]]
  /\ UNCHANGED <<StartOnly, container>>

\* runtime.connect: the container is found (and started) or made.  When the
\* sandbox is unavailable the start goes on without it.
ConnectRuntime(i) ==
  /\ sess[i].start = "connect"
  /\ sess' = [sess EXCEPT ![i].start = "setup"]
  /\ \/ container' = [container EXCEPT ![target[i]] = "running"]
     \/ UNCHANGED container
  /\ UNCHANGED StartOnly

\* Memory, tools and the controller are made; a closed session gets them too.
MakeController(i) ==
  /\ sess[i].start = "setup"
  /\ sess' = [sess EXCEPT ![i].start = "ended", ![i].controller = "live"]
  /\ UNCHANGED <<StartOnly, container>>

\* Any other error of the sandbox, the repository or the template.
StartFails(i) ==
  /\ sess[i].start \in {"connect", "setup"}
  /\ sess' = [sess EXCEPT ![i].start = "ended"]
  /\ UNCHANGED <<StartOnly, container>>

\* get_state: 90 seconds after the start a session without a controller counts
\* as failed.
TurnsLate(i) ==
  /\ i \in Slow
  /\ Starting(i) \/ (sess[i].start = "ended" /\ sess[i].controller = "none")
  /\ ~sess[i].late
  /\ sess' = [sess EXCEPT ![i].late = TRUE]
  /\ UNCHANGED <<StartOnly, container>>

-----------------------------------------------------------------------------
(* _cleanup_stale *)

\* Nothing was sent for close_delay and the agent does not run: get_state is
\* neither RUNNING nor None.
GoesIdle(i) ==
  /\ target[i] # None /\ loops[target[i]] = i
  /\ ~sess[i].idle
  /\ sess[i].controller = "live" \/ sess[i].late
  /\ sess' = [sess EXCEPT ![i].idle = TRUE]
  /\ UNCHANGED <<StartOnly, container>>

\* A connected client prompts the agent again.
WakesUp(i) ==
  /\ sess[i].idle
  /\ loops[target[i]] = i
  /\ ConnsOf(target[i]) # {}
  /\ sess' = [sess EXCEPT ![i].idle = FALSE]
  /\ UNCHANGED <<StartOnly, container>>

\* ServerConversation.disconnect: one that does not share a session's runtime
\* closes the stream it was given and its own runtime, which only attached.
MutAlwaysCloses(rs, ss) ==
  [i \in Procs |->
     IF \E r \in rs : conv[r].stream = i
     THEN [ss[i] EXCEPT !.stream = "closed", !.sub = "none"]
     ELSE ss[i]]

StreamsClosed(rs, ss) ==
  [i \in Procs |->
     IF \E r \in rs : ~conv[r].shares /\ conv[r].stream = i
     THEN [ss[i] EXCEPT !.stream = "closed", !.sub = "none"]
     ELSE ss[i]]

ConvsDown(rs) == [r \in Reqs |-> IF r \in rs THEN [conv[r] EXCEPT !.up = FALSE] ELSE conv[r]]

\* The sessions to close: idle ones that nobody is connected to.
Stale == {s \in Running : sess[loops[s]].idle /\ ConnsOf(s) = {}}

\* One round, up to the wait for the closes it asks for.
MutOnlyDetached ==
  LET gone == {detached[s] : s \in Convs} \ {None} IN
  /\ lock = None
  /\ gone # {}
  /\ sess' = StreamsClosed(gone, sess)
  /\ conv' = ConvsDown(gone)
  /\ detached' = [s \in Convs |-> None]
  /\ UNCHANGED <<procVars, connVars, loops, tasks, lock, active, using, boxVars>>

CleanUp ==
  LET gone == {detached[s] : s \in Convs} \ {None} IN
  /\ lock = None
  /\ TasksOf(Cleaner) = {}
  /\ gone # {} \/ Stale # {}
  /\ sess' = StreamsClosed(gone, sess)
  /\ conv' = ConvsDown(gone)
  /\ detached' = [s \in Convs |-> None]
  /\ tasks' = tasks \cup {Task(Cleaner, s) : s \in Stale}
  /\ UNCHANGED <<procVars, connVars, loops, lock, active, using, boxVars>>

\* wait_all: a close that still waits for its start after 90 seconds is cancelled.
CutClose(k) ==
  /\ k.by = Cleaner
  /\ k.at = "close"
  /\ sess[k.sess].close = "wait"
  /\ ~DoneWaiting(k.sess)
  /\ sess' = [sess EXCEPT ![k.sess].close = "cut"]
  /\ tasks' = tasks \ {k}
  /\ UNCHANGED <<procVars, connVars, loops, convVars, boxVars>>

-----------------------------------------------------------------------------
(* attach_to_conversation and detach_from_conversation *)

\* get_conversation asks for the conversation; session_exists reads the files.
AttachRequest(r, s) ==
  /\ Comes(r, "attach", s)
  /\ pc' = [pc EXCEPT ![r] = "attach"]
  /\ target' = [target EXCEPT ![r] = s]
  /\ UNCHANGED <<plan, evict, waited, connVars, loops, sess, tasks, convVars, boxVars>>

Hold(r, s, h, n) ==
  /\ active' = [active EXCEPT ![s] = <<h, n>>]
  /\ using' = [using EXCEPT ![r] = h]
  /\ pc' = [pc EXCEPT ![r] = "using"]

\* An active or a detached conversation is lent again.
AttachReuse(r) ==
  LET s == target[r] IN
  /\ pc[r] = "attach"
  /\ lock = None
  /\ \/ /\ active[s][2] > 0
        /\ Hold(r, s, active[s][1], active[s][2] + 1)
        /\ UNCHANGED detached
     \/ /\ active[s][2] = 0
        /\ detached[s] # None
        /\ Hold(r, s, detached[s], 1)
        /\ detached' = [detached EXCEPT ![s] = None]
  /\ UNCHANGED <<plan, target, evict, waited, connVars, loops, sess, tasks, lock, conv, boxVars>>

\* A new conversation on the stream and the runtime of the running session.
\* With a runtime there is nothing to connect; without one the conversation
\* makes its own on the session's stream and connects it, holding the lock.
AttachNew(r) ==
  LET s == target[r]
      i == loops[s] IN
  /\ pc[r] = "attach"
  /\ lock = None
  /\ active[s][2] = 0
  /\ detached[s] = None
  /\ \/ /\ i # None
        /\ sess[i].runtime # "none"
        /\ conv' = [conv EXCEPT ![r] = [shares |-> TRUE, stream |-> i, up |-> TRUE]]
        /\ Hold(r, s, r, 1)
        /\ UNCHANGED <<lock, sess>>
     \/ /\ i = None \/ (i # None /\ sess[i].runtime = "none")
        /\ conv' = [conv EXCEPT ![r] = [shares |-> FALSE, stream |-> i, up |-> TRUE]]
        /\ sess' = IF i = None THEN sess
                   ELSE [sess EXCEPT ![i].sub = "lent", ![i].lent = TRUE]
        /\ lock' = r
        /\ pc' = [pc EXCEPT ![r] = "connect"]
        /\ UNCHANGED <<active, using>>
  /\ UNCHANGED <<plan, target, evict, waited, connVars, loops, tasks, detached, boxVars>>

\* The container exists; an exited one is started.
AttachConnects(r) ==
  /\ pc[r] = "connect"
  /\ container[target[r]] # "none"
  /\ container' = [container EXCEPT ![target[r]] = "running"]
  /\ Hold(r, target[r], r, 1)
  /\ lock' = None
  /\ UNCHANGED <<plan, target, evict, waited, connVars, loops, sess, tasks, detached, conv, stopping>>

\* AgentRuntimeUnavailableError: the conversation is disconnected again.
AttachFails(r) ==
  /\ pc[r] = "connect"
  /\ pc' = [pc EXCEPT ![r] = "ended"]
  /\ sess' = StreamsClosed({r}, sess)
  /\ conv' = ConvsDown({r})
  /\ lock' = None
  /\ UNCHANGED <<plan, target, evict, waited, connVars, loops, tasks, active, detached, using, boxVars>>

\* The request is over; the last one to hold the conversation detaches it.
MutDetachAll(r) ==
  LET s == target[r] IN
  /\ pc[r] = "using"
  /\ lock = None
  /\ pc' = [pc EXCEPT ![r] = "ended"]
  /\ using' = [using EXCEPT ![r] = None]
  /\ active' = [active EXCEPT ![s] = <<None, 0>>]
  /\ detached' = [detached EXCEPT ![s] = using[r]]
  /\ UNCHANGED <<plan, target, evict, waited, connVars, loops, sess, tasks, lock, conv, boxVars>>

Detach(r) ==
  LET s == target[r] IN
  /\ pc[r] = "using"
  /\ lock = None
  /\ pc' = [pc EXCEPT ![r] = "ended"]
  /\ using' = [using EXCEPT ![r] = None]
  /\ \/ /\ active[s][2] > 1
        /\ active' = [active EXCEPT ![s][2] = @ - 1]
        /\ UNCHANGED detached
     \/ /\ active[s][2] = 1
        /\ active' = [active EXCEPT ![s] = <<None, 0>>]
        /\ detached' = [detached EXCEPT ![s] = using[r]]
  /\ UNCHANGED <<plan, target, evict, waited, connVars, loops, sess, tasks, lock, conv, boxVars>>

-----------------------------------------------------------------------------
StarterStep(p) == ChooseOldest(p) \/ CloseOldest(p) \/ StartAfterEviction(p)
TaskStep(k) == CloseBegins(k) \/ DropConnection(k) \/ CloseReturns(k) \/ CutClose(k)
CloseStep(i) == MarkClosed(i) \/ AgentClose(i)
StartStep(i) == BeginStart(i) \/ MakeRuntime(i) \/ ConnectRuntime(i)
                  \/ MakeController(i) \/ StartFails(i)
AttachStep(r) == AttachReuse(r) \/ AttachNew(r) \/ AttachConnects(r) \/ AttachFails(r)

Next ==
  \/ \E c \in Conns : \/ \E s \in Convs : Connect(c, s)
                      \/ ConnectRefused(c) \/ Join(c) \/ Disconnect(c)
  \/ \E r \in Reqs : \/ \E s \in Convs : StartRequest(r, s) \/ StopRequest(r, s)
                                           \/ AttachRequest(r, s)
                     \/ AttachStep(r) \/ Detach(r)
  \/ \E i \in Procs : \/ StarterStep(i) \/ StartStep(i) \/ TurnsLate(i)
                      \/ GoesIdle(i) \/ WakesUp(i)
                      \/ CloseStep(i) \/ RuntimeStops(i)
  \/ \E k \in tasks : TaskStep(k)
  \/ CleanUp

\* The event loop is fair to its tasks: a call that is not waiting for a client
\* goes on.  A start ends: every wait in it has a time limit.  Nothing is
\* asked of the clients or of when a session turns idle or late.
Fairness ==
  /\ WF_vars(CleanUp)
  /\ \A p \in Procs : WF_vars(StarterStep(p)) /\ WF_vars(CloseStep(p)) /\ WF_vars(StartStep(p))
  /\ \A p \in Procs \cup {Cleaner} : WF_vars(\E k \in TasksOf(p) : TaskStep(k))
  /\ \A r \in Reqs : WF_vars(AttachStep(r)) /\ WF_vars(Detach(r))

Spec == Init /\ [][Next]_vars /\ Fairness

-----------------------------------------------------------------------------
(* Properties *)

\* A conversation that requests hold is the active one, counted once per
\* request, and the clean-up has not disconnected it under them
\* (attach_to_conversation, detach_from_conversation, _cleanup_stale).
HeldConversationIsUp ==
  /\ \A r \in Reqs : using[r] # None =>
       conv[using[r]].up /\ active[target[r]][1] = using[r]
  /\ \A s \in Convs :
       active[s][2] = Cardinality({r \in Reqs : using[r] # None /\ target[r] = s})

\* The stream of a session that serves its conversation is open, unless an HTTP
\* request attached before the session had a runtime: such a conversation
\* shares the stream and closes it when it is disconnected.
OnlyEarlyAttachClosesStream ==
  \A s \in Convs : (loops[s] # None /\ ~sess[loops[s]].lent) => sess[loops[s]].stream = "open"

\* Two sessions that nobody closes serve one conversation only when a starter of this
\* conversation had to wait at the limit of concurrent conversations.  It need not be one
\* of the two: it may have taken the place of the first and been closed before the second
\* came.
TwoLoopsOnlyAtLimit ==
  \A i, j \in Procs :
    (/\ i # j /\ target[i] = target[j]
     /\ sess[i].start # "none" /\ sess[i].close = "no"
     /\ sess[j].start # "none" /\ sess[j].close = "no")
       => \E w \in waited : target[w] = target[i]

Released(i) == sess[i].runtime # "made" /\ sess[i].controller # "live"

\* A session that is closed and whose start has ended keeps neither a runtime
\* nor a controller, unless the close went on, or was cancelled, while the
\* start was under way.
LeakOnlyWhileStarting ==
  \A i \in Procs :
    (sess[i].close = "done" /\ sess[i].start = "ended" /\ ~sess[i].early) => Released(i)

\* No session stays idle and without a connection for ever: it is passivated
\* (server/session/README.md) or somebody connects.
IdleSessionPassivated == []<>(Stale = {})

\* close() waits for the start to end, or gives up after a time: whichever way,
\* a closed session whose start has ended holds nothing.  The comparison in
\* close() is the other way round and the wait ends at once.
ClosedMeansReleased ==
  \A i \in Procs :
    (sess[i].close = "done" /\ sess[i].start = "ended") => Released(i)
=============================================================================
