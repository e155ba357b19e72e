------------------------- MODULE ConversationRecords -------------------------
(* The metadata file of a V0 conversation and everybody who writes it: the   *)
(* request that creates it, the callback that follows every event of the     *)
(* running loop, the rename, the tool that records a pull request, and the   *)
(* deletion.  Each reads the whole record, waits, and writes all of it back; *)
(* a write makes the file again if it is gone.                               *)
(* Below it, the list of the conversations and a client that walks it.       *)
EXTENDS Naturals, FiniteSets, Sequences, SequencesExt
CONSTANTS
    MaxRecordOps,  \* bound: requests
    MaxAgentNews   \* bound: events of the agent

VARIABLES
    record,        \* the metadata file
    agentLoop,     \* the conversation is in _local_agent_loops_by_sid
    starting,      \* POST /start has seen the record and not yet started the loop
    news,          \* events the update callback has not taken
    workBranch,    \* branch checked out in the workspace
    spent,         \* tokens of the agent so far
    updating,      \* who has read the record and not yet written it
    dropping,      \* stage of DELETE
    wanted,        \* history: the fields as the finished writers left them
    overlapped,    \* history: somebody wrote what was read before another's write
    droppedOnce,   \* history: a deletion has finished
    startedLate,   \* history: a loop was started after its record was looked up and gone
    recordOps, newsCount
recordVars == <<record, agentLoop, starting, news, workBranch, spent, updating, dropping, wanted,
                overlapped, droppedOnce, startedLate, recordOps, newsCount>>
recordHistory == <<wanted, overlapped, droppedOnce, startedLate>>

Updaters == {"events", "rename", "pr"}
NoRecord == [title |-> "none", branch |-> 0, tokens |-> 0, prs |-> 0]
NoUpdate == [rec |-> NoRecord, stage |-> "none", stale |-> FALSE]
Titles == {"default", "template"}

RecordInit ==
    /\ record = NoRecord /\ agentLoop = FALSE /\ starting = FALSE /\ news = <<>> /\ workBranch = 0
    /\ spent = 0 /\ updating = [u \in Updaters |-> NoUpdate] /\ dropping = "none"
    /\ wanted = NoRecord /\ overlapped = FALSE /\ droppedOnce = FALSE /\ startedLate = FALSE
    /\ recordOps = 0 /\ newsCount = 0

RecordOp == recordOps < MaxRecordOps /\ recordOps' = recordOps + 1
OpensUpdate(u, rec, stage) == updating' = [updating EXCEPT ![u] = [rec |-> rec, stage |-> stage, stale |-> FALSE]]
\* save_metadata: everyone who has read meanwhile now holds an old record.
Saves(u, intended) ==
    /\ record' = updating[u].rec
    /\ wanted' = intended
    /\ overlapped' = (overlapped \/ updating[u].stale)
    /\ updating' = [x \in Updaters |-> IF x = u THEN NoUpdate
                       ELSE [updating[x] EXCEPT !.stale = @ \/ updating[x].stage # "none"]]

-----------------------------------------------------------------------------
(* Creating, starting, stopping *)

\* initialize_conversation, which saves the record.
Creates(title) ==
    /\ RecordOp /\ record = NoRecord /\ ~droppedOnce
    /\ record' = [NoRecord EXCEPT !.title = title] /\ wanted' = record'
\* start_conversation, in the same request: without settings or key it raises, and
\* the record stays.
CreatesLoop(startable) ==
    /\ agentLoop' = startable
    /\ UNCHANGED <<starting, news, workBranch, spent, updating, dropping, overlapped, droppedOnce,
                   startedLate, newsCount>>

\* POST /start: look the record up; load settings and secrets; start the loop.
StartLooksUp ==
    /\ RecordOp /\ record # NoRecord /\ ~starting /\ starting' = TRUE
    /\ UNCHANGED <<record, agentLoop, news, workBranch, spent, updating, dropping, recordHistory, newsCount>>
StartRefused ==
    /\ starting /\ starting' = FALSE
    /\ UNCHANGED <<record, agentLoop, news, workBranch, spent, updating, dropping, recordHistory, recordOps, newsCount>>
StartsLoop ==
    /\ starting /\ starting' = FALSE /\ agentLoop' = TRUE
    /\ startedLate' = (startedLate \/ record = NoRecord)
    /\ UNCHANGED <<record, news, workBranch, spent, updating, dropping, wanted, overlapped,
                   droppedOnce, recordOps, newsCount>>

\* POST /stop; closing the session ends its event stream.
StopsLoop ==
    /\ RecordOp /\ agentLoop /\ agentLoop' = FALSE /\ news' = <<>>
    /\ UNCHANGED <<record, starting, workBranch, spent, updating, dropping, recordHistory, newsCount>>

-----------------------------------------------------------------------------
(* The update callback: one event at a time *)

\* An event with metrics, one that reports a successful git command, or another.
GitNews(n) == n.kind = "git"
AgentNews(kind) ==
    /\ agentLoop /\ newsCount < MaxAgentNews /\ newsCount' = newsCount + 1
    /\ spent' = (IF kind = "metrics" THEN spent + 1 ELSE spent)
    /\ workBranch' = (IF kind = "git" THEN workBranch + 1 ELSE workBranch)
    /\ news' = Append(news, [kind |-> kind, tokens |-> spent'])
    /\ UNCHANGED <<record, agentLoop, starting, updating, dropping, recordHistory, recordOps>>

\* The branch comes from the workspace of the loop, if it still runs.
BranchSeen(old) == IF agentLoop THEN workBranch ELSE old
WithNews(rec, n) ==
    [rec EXCEPT !.tokens = IF n.kind = "metrics" THEN n.tokens ELSE @,
                !.branch = IF GitNews(n) THEN BranchSeen(@) ELSE @]

MutUpdateReads ==
    /\ news # <<>> /\ updating["events"] = NoUpdate /\ news' = Tail(news)
    /\ OpensUpdate("events", WithNews(record, Head(news)), IF record.title = "default" THEN "titling" ELSE "ready")
    /\ UNCHANGED <<record, agentLoop, starting, workBranch, spent, dropping, recordHistory, recordOps, newsCount>>

\* Without a record get_metadata raises and the event is done with.
UpdateReads ==
    /\ news # <<>> /\ updating["events"] = NoUpdate /\ news' = Tail(news)
    /\ IF record = NoRecord THEN UNCHANGED updating
       ELSE OpensUpdate("events", WithNews(record, Head(news)), IF record.title = "default" THEN "titling" ELSE "ready")
    /\ UNCHANGED <<record, agentLoop, starting, workBranch, spent, dropping, recordHistory, recordOps, newsCount>>
\* auto_generate_title asks a model; without a title the default one stays.
GeneratedTitles == {"default", "generated"}
Titled(title) ==
    /\ updating["events"].stage = "titling"
    /\ updating' = [updating EXCEPT !["events"].stage = "ready", !["events"].rec.title = title]
    /\ UNCHANGED <<record, agentLoop, starting, news, workBranch, spent, dropping, recordHistory, recordOps, newsCount>>
UpdateSaves ==
    LET rec == updating["events"].rec IN
    /\ updating["events"].stage = "ready"
    /\ Saves("events", [wanted EXCEPT !.tokens = rec.tokens, !.branch = rec.branch,
                                      !.title = IF @ = "default" THEN rec.title ELSE @])
    /\ UNCHANGED <<agentLoop, starting, news, workBranch, spent, dropping, droppedOnce, startedLate, recordOps, newsCount>>

-----------------------------------------------------------------------------
(* The other writers *)

\* PATCH; 404 without a record.
RenameReads ==
    /\ RecordOp /\ record # NoRecord /\ updating["rename"] = NoUpdate
    /\ OpensUpdate("rename", [record EXCEPT !.title = "user"], "ready")
    /\ UNCHANGED <<record, agentLoop, starting, news, workBranch, spent, dropping, recordHistory, newsCount>>
RenameSaves ==
    /\ updating["rename"].stage = "ready" /\ Saves("rename", [wanted EXCEPT !.title = "user"])
    /\ UNCHANGED <<agentLoop, starting, news, workBranch, spent, dropping, droppedOnce, startedLate, recordOps, newsCount>>

\* The tools by which the agent opens a pull request.  The host answers with its address,
\* and the number is looked for behind "pull/" or "merge_requests/": the addresses of two
\* hosts have neither.  The record is written back all the same; without one the agent is
\* told of an error, though the request is open.
HasNumber(host) == host \in {"github", "gitlab"}
WithPullRequest(rec, host) == [rec EXCEPT !.prs = IF HasNumber(host) THEN @ + 1 ELSE @]
PrReads(host) ==
    /\ RecordOp /\ record # NoRecord /\ updating["pr"] = NoUpdate
    /\ OpensUpdate("pr", WithPullRequest(record, host), host)
    /\ UNCHANGED <<record, agentLoop, starting, news, workBranch, spent, dropping, recordHistory, newsCount>>
create_pr == PrReads("github")
create_mr == PrReads("gitlab")
create_bitbucket_pr == PrReads("bitbucket")
\* Of a user who is known; else nothing is read or written.
create_azure_devops_pr == PrReads("azure_devops")
PrSaves ==
    /\ updating["pr"] # NoUpdate /\ Saves("pr", WithPullRequest(wanted, updating["pr"].stage))
    /\ UNCHANGED <<agentLoop, starting, news, workBranch, spent, dropping, droppedOnce, startedLate, recordOps, newsCount>>

\* DELETE: the record is looked up, a running loop closed, the runtime deleted, the
\* directory of the conversation removed.
DropLooksUp ==
    /\ RecordOp /\ record # NoRecord /\ dropping = "none" /\ dropping' = "closing"
    /\ UNCHANGED <<record, agentLoop, starting, news, workBranch, spent, updating, recordHistory, newsCount>>
DropCloses ==
    /\ dropping = "closing" /\ dropping' = "erasing" /\ agentLoop' = FALSE
    /\ news' = (IF agentLoop THEN <<>> ELSE news)
    /\ UNCHANGED <<record, starting, workBranch, spent, updating, recordHistory, recordOps, newsCount>>
DropErases ==
    /\ dropping = "erasing" /\ dropping' = "none" /\ record' = NoRecord /\ wanted' = NoRecord
    /\ droppedOnce' = TRUE
    /\ startedLate' = (startedLate \/ agentLoop)
    /\ updating' = [u \in Updaters |-> [updating[u] EXCEPT !.stale = @ \/ updating[u].stage # "none"]]
    /\ UNCHANGED <<agentLoop, starting, news, workBranch, spent, overlapped, recordOps, newsCount>>

RecordNext ==
    \/ \E title \in Titles, startable \in BOOLEAN : Creates(title) /\ CreatesLoop(startable)
    \/ StartLooksUp \/ StartRefused \/ StartsLoop \/ StopsLoop
    \/ \E kind \in {"plain", "metrics", "git"} : AgentNews(kind)
    \/ UpdateReads \/ UpdateSaves \/ \E title \in GeneratedTitles : Titled(title)
    \/ RenameReads \/ RenameSaves
    \/ create_pr \/ create_mr \/ create_bitbucket_pr \/ create_azure_devops_pr \/ PrSaves
    \/ DropLooksUp \/ DropCloses \/ DropErases

-----------------------------------------------------------------------------
\* What was written stands: as long as no writer wrote a record it had read before
\* another's write, the file holds the title the user chose last (never a generated
\* one in its place), every pull request, and the tokens and branch of the latest
\* event that was taken.
WritesStand == ~overlapped => record = wanted

\* A deleted conversation comes back only by a writer that had read it before, and a
\* loop runs without a record only if it was started beside the deletion.
StaysDeleted ==
    /\ droppedOnce /\ record # NoRecord => overlapped
    /\ agentLoop /\ record = NoRecord => startedLate

\* What was written stands, a deleted record stays deleted, and the tokens on record are
\* never more than were spent, whoever wrote them.
RecordsKept == WritesStand /\ StaysDeleted /\ record.tokens <= spent

-----------------------------------------------------------------------------
(* GET /conversations: one page is made of a page of the V0 store and a page *)
(* of the V1 table, sorted together and cut at the limit, and the next page  *)
(* id holds the two next ids.  A source that has no next page starts over    *)
(* with its first when the other still has one: two sources that a change    *)
(* during the walk put out of step never end together again.                 *)
CONSTANTS
    InLists,        \* conversations, numbered by their time of creation
    Limit,         \* the page size
    MaxPages,      \* bound: pages of a walk
    MaxListChanges \* bound: conversations made or lost while the client walks

ASSUME LimitAssumption == Limit \in Nat \ {0}

VARIABLES
    v0, v1,        \* the conversations of each source
    unread,        \* V0 conversations whose metadata cannot be loaded
    children,      \* V1 sub-conversations
    tooOld,        \* conversations up to this one are older than the maximal age
    walk,          \* the client's walk: its page id, pages so far, whether it goes on
    shown,         \* what the pages listed, in order
    cutOff,        \* history: conversations that were cut from a page at the limit
    listChanges    \* changes since the walk began
pageVars == <<v0, v1, unread, children, tooOld, walk, shown, cutOff, listChanges>>

NoWalk == [on |-> "before", id |-> <<0, 0>>, pages |-> 0]

PageInit ==
    /\ v0 = {} /\ v1 = {} /\ unread = {} /\ children = {} /\ tooOld = 0
    /\ walk = NoWalk /\ shown = <<>> /\ cutOff = {} /\ listChanges = 0

NewestFirst(S) == SetToSortSeq(S, LAMBDA a, b : a > b)
\* A page from an offset, and the offset of the next one; 0 is no next page.
Page(s, off, total) ==
    LET end == IF off + Limit < total THEN off + Limit ELSE total
    IN  [items |-> SubSeq(s, off + 1, IF end < Len(s) THEN end ELSE Len(s)),
         next |-> IF end < total THEN end ELSE 0]
\* The V0 store counts the conversations it cannot load, and sorts the others.
V0Page(off) == Page(NewestFirst(v0 \ unread), off, Cardinality(v0))
\* The age of V0 conversations is looked at after the page is cut, that of V1
\* conversations before.
Young(c) == c > tooOld
V1Rows == {c \in v1 \ children : Young(c)}
V1Page(off) == Page(NewestFirst(V1Rows), off, Cardinality(V1Rows))

\* The two pages together, newest first.
Together(p, q) == NewestFirst({c \in ToSet(p.items) : Young(c)} \cup ToSet(q.items))
NextId(p, q) == <<p.next, q.next>>

MutFetches ==
    LET p == V0Page(walk.id[1])
        q == V1Page(walk.id[2])
        all == Together(p, q)
        page == IF Len(all) > Limit THEN SubSeq(all, 1, Limit) ELSE all
    IN  /\ walk.on = "walking" /\ walk.pages < MaxPages
        /\ shown' = shown \o page /\ cutOff' = cutOff \cup (ToSet(all) \ ToSet(page))
        /\ walk' = [on |-> IF p.next = 0 \/ q.next = 0 THEN "done" ELSE "walking",
                    id |-> NextId(p, q), pages |-> walk.pages + 1]
        /\ UNCHANGED <<v0, v1, unread, children, tooOld, listChanges>>

Fetches ==
    LET p == V0Page(walk.id[1])
        q == V1Page(walk.id[2])
        all == Together(p, q)
        page == IF Len(all) > Limit THEN SubSeq(all, 1, Limit) ELSE all
    IN  /\ walk.on = "walking" /\ walk.pages < MaxPages
        /\ shown' = shown \o page /\ cutOff' = cutOff \cup (ToSet(all) \ ToSet(page))
        /\ walk' = [on |-> IF NextId(p, q) = <<0, 0>> THEN "done" ELSE "walking",
                    id |-> NextId(p, q), pages |-> walk.pages + 1]
        /\ UNCHANGED <<v0, v1, unread, children, tooOld, listChanges>>
BeginsWalk ==
    /\ walk.on = "before" /\ walk' = [walk EXCEPT !.on = "walking"]
    /\ UNCHANGED <<v0, v1, unread, children, tooOld, shown, cutOff, listChanges>>

ChangesList ==
    /\ IF walk.on = "before" THEN UNCHANGED listChanges
       ELSE walk.on = "walking" /\ listChanges < MaxListChanges /\ listChanges' = listChanges + 1
    /\ UNCHANGED <<tooOld, walk, shown, cutOff>>
\* The newest conversation so far is made, in either source.
NewestMade == Cardinality(v0 \cup v1) + 1
MakesV0(readable) ==
    /\ ChangesList /\ NewestMade \in InLists /\ v0' = v0 \cup {NewestMade}
    /\ unread' = (IF readable THEN unread ELSE unread \cup {NewestMade}) /\ UNCHANGED <<v1, children>>
MakesV1(child) ==
    /\ ChangesList /\ NewestMade \in InLists /\ v1' = v1 \cup {NewestMade}
    /\ children' = (IF child THEN children \cup {NewestMade} ELSE children) /\ UNCHANGED <<v0, unread>>
TimePasses ==
    /\ walk.on = "before" /\ tooOld < 1 /\ tooOld' = tooOld + 1
    /\ UNCHANGED <<v0, v1, unread, children, walk, shown, cutOff, listChanges>>

PageNext ==
    \/ BeginsWalk \/ Fetches \/ TimePasses
    \/ \E b \in BOOLEAN : MakesV0(b) \/ MakesV1(b)

-----------------------------------------------------------------------------
PagesOf(n) == IF n = 0 THEN 1 ELSE (n + Limit - 1) \div Limit
Lcm(a, b) == CHOOSE n \in 1..(a * b) : /\ n % a = 0 /\ n % b = 0
                                       /\ \A m \in 1..(n - 1) : m % a # 0 \/ m % b # 0
Visible == {c \in v0 \ unread : Young(c)} \cup V1Rows

\* The walk through lists that do not change ends when both sources are on their
\* last page at once: after the least common multiple of their numbers of pages.
WalkEnds == walk.on # "before" => walk.pages <= Lcm(PagesOf(Cardinality(v0)), PagesOf(Cardinality(V1Rows)))
\* It has then listed every conversation, but for the ones cut at the limit of the
\* pages they were on; with a single source it lists each of them once, newest first.
AllListed ==
    /\ Visible = ToSet(shown) \cup (Visible \cap cutOff)
    /\ v0 = {} \/ V1Rows = {} => shown = NewestFirst(Visible)

\* The walk over both lists, as long as nothing is made meanwhile.
PagesWhole == listChanges = 0 => WalkEnds /\ (walk.on = "done" => AllListed)
=============================================================================
