-------------------------- MODULE AppConversations --------------------------
(* The conversations of the V1 app server: a start task that waits for a     *)
(* sandbox and posts the conversation to its agent server, the row kept of   *)
(* it, the web hooks, title callbacks, renames and polls that each read the  *)
(* row, wait, and write all of it back, and the deletion of a conversation   *)
(* with its sub-conversations and its sandbox.                               *)
EXTENDS Naturals, FiniteSets, Sequences, SequencesExt
CONSTANTS
    AppConvs,      \* conversations, numbered from 1
    MaxWriters,    \* bound: read-then-write requests in flight
    MaxConvOps     \* bound: requests and web hooks of a behaviour

ASSUME AppConvsAssumption == 0 \notin AppConvs

VARIABLES
    rows,          \* the stored conversation info, by conversation
    inAgent,       \* conversations the agent servers have
    startTask,     \* the start task: its stage, parent asked for, sandbox, status seen
    callback,      \* the title callback of each conversation
    appBox,        \* the sandbox each conversation's start created
    writers,       \* requests that have read a row and not yet written it
    deleting,      \* deletions under way: what is still to do, what the commit will take
    erased,        \* history: conversations whose deletion has been committed
    below,         \* history: of these, the ones that were deleted as sub-conversations
    spared,        \* history: sub-conversations whose own deletion failed in their parent's
    late,          \* history: rows written since a deletion of their parent began
    unlinked,      \* history: conversations whose row an update web hook has written
    convOps
convVars == <<rows, inAgent, startTask, callback, appBox, writers, deleting, erased, below,
              spared, late, unlinked, convOps>>
convHistory == <<erased, below, spared, late, unlinked>>

NoRow == [parent |-> 0, title |-> "none", box |-> 0]
NoTask == [stage |-> "none", parent |-> 0, box |-> 0, seen |-> "none"]
NoDelete == [todo |-> <<>>, all |-> {}, on |-> FALSE, box |-> 0]

ConvInit ==
    /\ rows = [c \in AppConvs |-> NoRow] /\ inAgent = {}
    /\ startTask = [c \in AppConvs |-> NoTask] /\ callback = [c \in AppConvs |-> "none"]
    /\ appBox = [c \in AppConvs |-> "none"] /\ writers = {}
    /\ deleting = [c \in AppConvs |-> NoDelete]
    /\ erased = {} /\ below = {} /\ spared = {} /\ late = {} /\ unlinked = {} /\ convOps = 0

ConvOp == convOps < MaxConvOps /\ convOps' = convOps + 1
AtStage(c, s) == startTask[c].stage = s
GoesTo(c, s) == startTask' = [startTask EXCEPT ![c].stage = s]
BoxUp(b) == b # 0 /\ appBox[b] = "up"
\* A row written while a deletion of its parent is under way or done.
NowLate(c, row) == late \cup IF row.parent # 0 /\ (deleting[row.parent].on \/ row.parent \in erased) THEN {c} ELSE {}

-----------------------------------------------------------------------------
(* The start task *)

\* The parent must exist when the request arrives; its sandbox is inherited.
StartRequested(c, p) ==
    /\ ConvOp /\ AtStage(c, "none") /\ p # c
    /\ p # 0 => rows[p] # NoRow
    /\ startTask' = [startTask EXCEPT ![c] =
          [stage |-> "working", parent |-> p, seen |-> "none",
           box |-> IF p = 0 THEN 0 ELSE rows[p].box]]
    /\ UNCHANGED <<rows, inAgent, callback, appBox, writers, deleting, convHistory>>

\* A sandbox is started, or the one asked for looked up; the status it had then
\* is the one the next step decides by.
TakesSandbox(c) ==
    /\ AtStage(c, "working")
    /\ LET b == startTask[c].box IN
        \/ /\ b = 0 /\ appBox[c] = "none" /\ appBox' = [appBox EXCEPT ![c] = "starting"]
           /\ startTask' = [startTask EXCEPT ![c].stage = "waiting", ![c].box = c, ![c].seen = "starting"]
        \/ b = 0 /\ GoesTo(c, "error") /\ UNCHANGED appBox
        \/ /\ b # 0 /\ UNCHANGED appBox
           /\ startTask' = [startTask EXCEPT ![c].seen = appBox[b],
                ![c].stage = IF appBox[b] = "gone" THEN "error" ELSE "waiting"]
    /\ UNCHANGED <<rows, inAgent, callback, writers, deleting, convHistory, convOps>>

\* A paused sandbox is resumed, and then refused for having been paused.
ChecksSandbox(c) ==
    /\ AtStage(c, "waiting")
    /\ LET b == startTask[c].box IN
        /\ appBox' = IF startTask[c].seen = "paused" /\ appBox[b] = "paused"
                  THEN [appBox EXCEPT ![b] = "up"] ELSE appBox
        /\ GoesTo(c, CASE startTask[c].seen = "up" -> "preparing"
                       [] startTask[c].seen = "starting" -> "polling"
                       [] OTHER -> "error")
    /\ UNCHANGED <<rows, inAgent, callback, writers, deleting, convHistory, convOps>>

PollsSandbox(c) ==
    /\ AtStage(c, "polling")
    /\ \/ BoxUp(startTask[c].box) /\ GoesTo(c, "preparing")
       \/ GoesTo(c, "error")
    /\ UNCHANGED <<rows, inAgent, callback, appBox, writers, deleting, convHistory, convOps>>

\* A step of the preparation in the sandbox: it goes on or the start fails.
Prepares(c, from, to) ==
    /\ AtStage(c, from)
    /\ \/ BoxUp(startTask[c].box) /\ GoesTo(c, to)
       \/ GoesTo(c, "error")
    /\ UNCHANGED <<rows, inAgent, callback, appBox, writers, deleting, convHistory, convOps>>
\* The url of the agent server is taken and the repository cloned or initialised;
\* then the setup script and the git hooks, the skills, and the start request.
PreparesRepository(c) == Prepares(c, "preparing", "script")
RunsSetupScript(c) == Prepares(c, "script", "skills")
LoadsSkills(c) == Prepares(c, "skills", "building")
BuildsRequest(c) == Prepares(c, "building", "starting")

\* POST /api/conversations: made and answered, made with the answer lost, or refused.
PostsConversation(c) ==
    /\ AtStage(c, "starting")
    /\ \/ BoxUp(startTask[c].box) /\ inAgent' = inAgent \cup {c} /\ GoesTo(c, "storing")
       \/ BoxUp(startTask[c].box) /\ inAgent' = inAgent \cup {c} /\ GoesTo(c, "error")
       \/ UNCHANGED inAgent /\ GoesTo(c, "error")
    /\ UNCHANGED <<rows, callback, appBox, writers, deleting, convHistory, convOps>>

MutStoresInfo(c) ==
    /\ AtStage(c, "storing")
    /\ LET row == [parent |-> startTask[c].parent, title |-> "default", box |-> startTask[c].box] IN
        rows' = [rows EXCEPT ![c] = row] /\ late' = NowLate(c, row)
    /\ GoesTo(c, "ready")
    /\ UNCHANGED <<inAgent, callback, appBox, writers, deleting, erased, below, spared, unlinked, convOps>>

StoresInfo(c) ==
    /\ AtStage(c, "storing")
    /\ LET row == [parent |-> startTask[c].parent, title |-> "default", box |-> startTask[c].box] IN
        rows' = [rows EXCEPT ![c] = row] /\ late' = NowLate(c, row)
    /\ GoesTo(c, "callbacks")
    /\ UNCHANGED <<inAgent, callback, appBox, writers, deleting, erased, below, spared, unlinked, convOps>>

SavesCallbacks(c) ==
    /\ AtStage(c, "callbacks") /\ callback' = [callback EXCEPT ![c] = "active"] /\ GoesTo(c, "ready")
    /\ UNCHANGED <<rows, inAgent, appBox, writers, deleting, convHistory, convOps>>

\* The client of a streamed start goes away: the generator is closed where it
\* yielded and the saved task keeps that status.
StreamAbandoned(c) ==
    /\ ConvOp /\ startTask[c].stage \in {"working", "waiting", "script", "skills", "starting"}
    /\ GoesTo(c, "abandoned")
    /\ UNCHANGED <<rows, inAgent, callback, appBox, writers, deleting, convHistory>>

-----------------------------------------------------------------------------
(* Requests that read a row, await something, and write the whole row *)

Reads(kind, c) ==
    /\ ConvOp /\ Cardinality(writers) < MaxWriters
    /\ writers' = writers \cup {[kind |-> kind, conv |-> c, read |-> rows[c],
                                 box |-> startTask[c].box]}
    /\ UNCHANGED <<rows, inAgent, startTask, callback, appBox, deleting, convHistory>>

\* on_conversation_update: the agent server reports, row or no row.
UpdateArrives(c) == c \in inAgent /\ BoxUp(startTask[c].box) /\ Reads("update", c)
\* A message event runs the title callback while it is active.
MessageArrives(c) ==
    c \in inAgent /\ BoxUp(startTask[c].box) /\ callback[c] = "active" /\ rows[c] # NoRow /\ Reads("title", c)
RenameRequested(c) == rows[c] # NoRow /\ Reads("rename", c)
PollReads(c) == rows[c] # NoRow /\ BoxUp(rows[c].box) /\ Reads("poll", c)

\* What each of them writes: the update builds its row without the parent.
NewRow(w) ==
    CASE w.kind = "update" -> [parent |-> 0, box |-> w.box,
                               title |-> IF w.read = NoRow THEN "default" ELSE w.read.title]
      [] w.kind = "title"  -> [w.read EXCEPT !.title = "generated"]
      [] w.kind = "rename" -> [w.read EXCEPT !.title = "user"]
      [] w.kind = "poll"   -> w.read

WritesRow(w) ==
    /\ rows' = [rows EXCEPT ![w.conv] = NewRow(w)] /\ late' = NowLate(w.conv, NewRow(w))
    /\ unlinked' = unlinked \cup IF w.kind = "update" THEN {w.conv} ELSE {}
    /\ callback' = IF w.kind = "title" THEN [callback EXCEPT ![w.conv] = "disabled"] ELSE callback
    /\ writers' = writers \ {w}
    /\ UNCHANGED <<inAgent, startTask, appBox, deleting, erased, below, spared, convOps>>

\* Generating the title or asking the agent server fails: nothing is written.
WriterFails(w) ==
    /\ w.kind \in {"title", "poll"} /\ writers' = writers \ {w}
    /\ UNCHANGED <<rows, inAgent, startTask, callback, appBox, deleting, convHistory, convOps>>

-----------------------------------------------------------------------------
(* Deletion *)

SubsOf(c) == {x \in AppConvs : rows[x] # NoRow /\ rows[x].parent = c}

\* The sub-conversations are listed once, at the start; looking the conversation up or
\* listing them may fail, and then nothing is deleted but the sandbox.
DeleteBegins(c) ==
    /\ ConvOp /\ rows[c] # NoRow /\ ~deleting[c].on
    /\ \/ /\ deleting' = [deleting EXCEPT ![c] =
                [todo |-> Append(SetToSeq(SubsOf(c)), c), all |-> SubsOf(c) \cup {c},
                 on |-> TRUE, box |-> rows[c].box]]
          /\ spared' = spared \ SubsOf(c)
       \/ /\ deleting' = [deleting EXCEPT ![c] = [todo |-> <<>>, all |-> {}, on |-> TRUE, box |-> rows[c].box]]
          /\ UNCHANGED spared
    /\ UNCHANGED <<rows, inAgent, startTask, callback, appBox, writers, erased, below, late, unlinked>>

\* The next one is done with; the commit will take what `all` is left with.
DeletesNext(c, all) ==
    /\ deleting[c].on /\ deleting[c].todo # <<>>
    /\ deleting' = [deleting EXCEPT ![c] = [todo |-> Tail(deleting[c].todo), all |-> all,
                                           on |-> TRUE, box |-> deleting[c].box]]
    /\ UNCHANGED <<rows, startTask, callback, appBox, writers, erased, below, late, unlinked, convOps>>
\* A call to the agent server, made if the sandbox runs; a failure is only logged.
AgentForgets(x) == (BoxUp(rows[x].box) /\ inAgent' = inAgent \ {x}) \/ UNCHANGED inAgent

\* Each is deleted at its agent server and, in the transaction, in the table.
DeletesFromAgent(c) ==
    LET x == Head(deleting[c].todo) IN
        /\ DeletesNext(c, deleting[c].all) /\ (x # c => rows[x] # NoRow)
        /\ AgentForgets(x) /\ UNCHANGED spared
\* A sub-conversation that is no longer there is passed over.
PassesOver(c) ==
    LET x == Head(deleting[c].todo) IN
        /\ DeletesNext(c, deleting[c].all \ {x}) /\ x # c /\ rows[x] = NoRow
        /\ UNCHANGED <<inAgent, spared>>
\* Looking it up or deleting its row raises, before or after its agent server was told.
\* A sub-conversation is left as it is and the deletion goes on; if it is the
\* conversation itself, what was deleted of its sub-conversations will be committed.
DeletionFails(c) ==
    LET x == Head(deleting[c].todo) IN
        /\ DeletesNext(c, deleting[c].all \ {x}) /\ (x # c => rows[x] # NoRow)
        /\ AgentForgets(x) /\ spared' = spared \cup ({x} \ {c})

\* One commit takes the deleted rows away; the sandbox follows.
DeleteCommits(c) ==
    /\ deleting[c].on /\ deleting[c].todo = <<>> /\ deleting[c].all # {}
    /\ LET gone == deleting[c].all IN
        /\ rows' = [x \in AppConvs |-> IF x \in gone THEN NoRow ELSE rows[x]]
        /\ erased' = erased \cup gone /\ below' = (below \ gone) \cup (gone \ {c})
        /\ spared' = spared \ gone /\ late' = late \ gone
    /\ deleting' = [deleting EXCEPT ![c] = [todo |-> <<>>, all |-> {}, on |-> TRUE, box |-> deleting[c].box]]
    /\ UNCHANGED <<inAgent, startTask, callback, appBox, writers, unlinked, convOps>>
\* The commit fails: the rows stay, the agent servers have forgotten, and nothing more is done.
CommitFails(c) ==
    /\ deleting[c].on /\ deleting[c].todo = <<>> /\ deleting[c].all # {}
    /\ deleting' = [deleting EXCEPT ![c] = NoDelete]
    /\ UNCHANGED <<rows, inAgent, startTask, callback, appBox, writers, convHistory, convOps>>

\* The sandbox of the conversation that was to be deleted, whoever else uses it, is
\* deleted after the commit, also one that had nothing to take; a failure leaves it.
DeletesSandbox(c) ==
    /\ deleting[c].on /\ deleting[c].todo = <<>> /\ deleting[c].all = {}
    /\ \/ deleting[c].box # 0 /\ appBox' = [appBox EXCEPT ![deleting[c].box] = "gone"]
       \/ UNCHANGED appBox
    /\ deleting' = [deleting EXCEPT ![c] = NoDelete]
    /\ UNCHANGED <<rows, inAgent, startTask, callback, writers, convHistory, convOps>>

\* A sandbox comes up; the limit of the sandbox service pauses one.
BoxComesUp(c) ==
    /\ appBox[c] = "starting" /\ appBox' = [appBox EXCEPT ![c] = "up"]
    /\ UNCHANGED <<rows, inAgent, startTask, callback, writers, deleting, convHistory, convOps>>
BoxIsPaused(c) ==
    /\ ConvOp /\ appBox[c] = "up" /\ appBox' = [appBox EXCEPT ![c] = "paused"]
    /\ UNCHANGED <<rows, inAgent, startTask, callback, writers, deleting, convHistory>>

ConvNext ==
    \/ \E c \in AppConvs :
        \/ \E p \in {0} \cup AppConvs : StartRequested(c, p)
        \/ TakesSandbox(c) \/ ChecksSandbox(c) \/ PollsSandbox(c)
        \/ PreparesRepository(c) \/ RunsSetupScript(c) \/ LoadsSkills(c) \/ BuildsRequest(c)
        \/ PostsConversation(c) \/ StoresInfo(c) \/ SavesCallbacks(c) \/ StreamAbandoned(c)
        \/ UpdateArrives(c) \/ MessageArrives(c) \/ RenameRequested(c) \/ PollReads(c)
        \/ DeleteBegins(c) \/ DeletesFromAgent(c) \/ PassesOver(c) \/ DeletionFails(c)
        \/ DeleteCommits(c) \/ CommitFails(c) \/ DeletesSandbox(c)
        \/ BoxComesUp(c) \/ BoxIsPaused(c)
    \/ \E w \in writers : WritesRow(w) \/ WriterFails(w)

ConvSpec == ConvInit /\ [][ConvNext]_convVars

-----------------------------------------------------------------------------
\* Deleting a conversation deletes its sub-conversations: a row whose parent is deleted
\* was written after that deletion had listed the sub-conversations, or is one whose own
\* deletion failed in it, which is logged and leaves the orphan, or its parent was itself
\* deleted as a sub-conversation, because a deletion does not go further down.
NoOrphans ==
    \A c \in AppConvs : rows[c] # NoRow /\ rows[c].parent \in erased /\ rows[rows[c].parent] = NoRow =>
        c \in late \/ c \in spared \/ rows[c].parent \in below

\* A row keeps the parent its start asked for until an update web hook has written it:
\* no title, rename or poll, however stale, cuts a sub-conversation off.
ParentKept ==
    \A c \in AppConvs : rows[c] # NoRow /\ rows[c].parent # startTask[c].parent => c \in unlinked

\* A READY start task has its row and its callback, unless the conversation was deleted.
ReadyIsStored ==
    \A c \in AppConvs : AtStage(c, "ready") =>
        callback[c] # "none" /\ (rows[c] # NoRow \/ c \in erased)

\* What the app server's table may be relied on for, whatever requests overlap.
ConversationBooks == NoOrphans /\ ParentKept /\ ReadyIsStored
=============================================================================
