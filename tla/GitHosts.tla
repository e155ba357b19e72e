------------------------------ MODULE GitHosts ------------------------------
(* The hosting services of a user's repositories, as ProviderHandler asks    *)
(* them: one after another, page by page, while a call can fail, a token     *)
(* expire and the repositories change between two pages.  Three services     *)
(* stand for the ways of paging: "link" (GitHub, GitLab: numbered pages, the *)
(* last one known by its Link header), "next" (Bitbucket: workspaces, each   *)
(* with pages that name their successor) and "whole" (Azure DevOps: all at   *)
(* once, cut into pages afterwards).                                         *)
EXTENDS Naturals, Sequences, FiniteSets, SequencesExt
CONSTANTS
    GitOrder,          \* the services the user has tokens for, in their order
    PageLen,           \* repositories or branches on a page
    MaxRepos,          \* MAX_REPOS
    MaxHostChanges,    \* changes at the services (bound)
    MaxHostAsks        \* requests (bound)

ASSUME PageLenAssumption == PageLen \in Nat \ {0} /\ MaxRepos \in Nat

VARIABLES
    owned,         \* service -> its groups of repositories, each newest first
    hasName,       \* services that know the repository the user selected
    hasAgents,     \* services where it has microagents
    expired,       \* services whose token has expired
    hostAsk,       \* the request at hand
    hostChanges,   \* changes made so far
    hostAsks,      \* requests made so far
    verifiedAt,    \* the service the conversation's repository was verified at
    clonedFrom     \* the service it was cloned from
hostVars == <<owned, hasName, hasAgents, expired, hostAsk, hostChanges, hostAsks, verifiedAt, clonedFrom>>
worldVars == <<owned, hasName, hasAgents, expired, hostChanges>>

GitHosts_ == ToSet(GitOrder)
NoHost == "none"
NoAsk == [kind |-> "none", todo |-> <<>>, group |-> 1, page |-> 1, got |-> <<>>, all |-> <<>>, failed |-> {},
          was |-> <<>>, grown |-> {}, shrunk |-> {}, from |-> NoHost]

HostInit ==
    /\ owned = [h \in GitHosts_ |-> IF h = "next" THEN <<<<1, 2, 3>>, <<4, 5>>>> ELSE <<<<1, 2, 3>>>>]
    /\ hasName \in SUBSET GitHosts_ /\ hasAgents \in SUBSET hasName /\ expired = {}
    /\ hostAsk = NoAsk /\ hostChanges = 0 /\ hostAsks = 0
    /\ verifiedAt = NoHost /\ clonedFrom = NoHost

-----------------------------------------------------------------------------
(* All repositories of all services *)

BeginsAsk(kind, todo) ==
    /\ hostAsk.kind \in {"none", "done"} /\ hostAsks < MaxHostAsks /\ hostAsks' = hostAsks + 1
    /\ hostAsk' = [NoAsk EXCEPT !.kind = kind, !.todo = todo, !.was = owned]
ListsRepositories ==
    BeginsAsk("list", GitOrder) /\ UNCHANGED <<worldVars, verifiedAt, clonedFrom>>

Take(s, n) == SubSeq(s, 1, IF Len(s) < n THEN Len(s) ELSE n)
PageOf(s, page) == SubSeq(s, (page - 1) * PageLen + 1, IF page * PageLen < Len(s) THEN page * PageLen ELSE Len(s))
HasNext(s, page) == page * PageLen < Len(s)
\* The service is through: what it gave is kept, and the next one asked.
NextHost(a, got) == [a EXCEPT !.all = @ \o [i \in DOMAIN got |-> <<Head(a.todo), got[i]>>], !.got = <<>>,
                              !.group = 1, !.page = 1, !.todo = Tail(@)]
\* The three ways of paging: what an answer brings and whether another one follows.
LinkPage(group, page) == [items |-> PageOf(group, page), more |-> PageOf(group, page) # <<>> /\ HasNext(group, page)]
NextPage(group, page) == [items |-> PageOf(group, page), more |-> HasNext(group, page)]
WholePage(group) == [items |-> group, more |-> FALSE]
Answer(h, group, page) ==
    IF h = "link" THEN LinkPage(group, page) ELSE IF h = "next" THEN NextPage(group, page) ELSE WholePage(group)
\* Up to MAX_REPOS in all; the last page of a group leads to the next one.
AfterPage(a, h) ==
    LET answer == Answer(h, owned[h][a.group], a.page)
        got == Take(a.got \o answer.items, MaxRepos) IN
    IF Len(got) >= MaxRepos \/ (~answer.more /\ a.group >= Len(owned[h])) THEN NextHost(a, got)
    ELSE IF answer.more THEN [a EXCEPT !.got = got, !.page = @ + 1]
    ELSE [a EXCEPT !.got = got, !.page = 1, !.group = @ + 1]
Listing == hostAsk.kind = "list" /\ hostAsk.todo # <<>>
PageArrives ==
    LET h == Head(hostAsk.todo) IN
    /\ Listing /\ h \notin expired
    /\ hostAsk' = AfterPage(hostAsk, h)
    /\ UNCHANGED <<worldVars, hostAsks, verifiedAt, clonedFrom>>
\* An expired token (there is nothing to refresh it with), a limit, a lost connection:
\* everything this service gave is dropped, and the others are asked.
MutPageFails ==
    /\ Listing
    /\ hostAsk' = [NextHost(hostAsk, hostAsk.got) EXCEPT !.failed = @ \union {Head(hostAsk.todo)}]
    /\ UNCHANGED <<worldVars, hostAsks, verifiedAt, clonedFrom>>
PageFails ==
    /\ Listing
    /\ hostAsk' = [NextHost(hostAsk, <<>>) EXCEPT !.failed = @ \union {Head(hostAsk.todo)}]
    /\ UNCHANGED <<worldVars, hostAsks, verifiedAt, clonedFrom>>
ListAnswered ==
    /\ hostAsk.kind = "list" /\ hostAsk.todo = <<>> /\ hostAsk' = [hostAsk EXCEPT !.kind = "done"]
    /\ UNCHANGED <<worldVars, hostAsks, verifiedAt, clonedFrom>>

-----------------------------------------------------------------------------
(* The service that answers first *)

\* verify_repo_provider: the one specified, then every one in order.
Verifies(specified) ==
    /\ verifiedAt = NoHost
    /\ BeginsAsk("verify", (IF specified = NoHost THEN <<>> ELSE <<specified>>) \o GitOrder)
    /\ UNCHANGED <<worldVars, verifiedAt, clonedFrom>>
\* get_authenticated_git_url, when the runtime clones: no service is specified.
Clones ==
    /\ verifiedAt # NoHost /\ clonedFrom = NoHost /\ BeginsAsk("clone", GitOrder)
    /\ UNCHANGED <<worldVars, verifiedAt, clonedFrom>>
AsksMicroagents ==
    BeginsAsk("microagents", GitOrder) /\ UNCHANGED <<worldVars, verifiedAt, clonedFrom>>

Searching == hostAsk.kind \in {"verify", "clone", "microagents"} /\ hostAsk.todo # <<>>
\* The repository is there, or its microagents are.
HostHas(kind, h) == IF kind = "microagents" THEN h \in hasAgents ELSE h \in hasName
HostKnows ==
    LET h == Head(hostAsk.todo) IN
    /\ Searching /\ h \notin expired /\ HostHas(hostAsk.kind, h)
    /\ hostAsk' = [hostAsk EXCEPT !.kind = "done", !.from = h, !.all = <<<<h, hostAsk.kind>>>>]
    /\ verifiedAt' = (IF hostAsk.kind = "verify" THEN h ELSE verifiedAt)
    /\ clonedFrom' = (IF hostAsk.kind = "clone" THEN h ELSE clonedFrom)
    /\ UNCHANGED <<worldVars, hostAsks>>
\* "Not found" is a failure like another one; a search for microagents takes a failure
\* for an empty directory.
HostDoesNot(fails) ==
    LET h == Head(hostAsk.todo) IN
    /\ Searching /\ (~fails => h \notin expired /\ ~HostHas(hostAsk.kind, h))
    /\ hostAsk' = [hostAsk EXCEPT !.todo = Tail(@), !.failed = IF fails THEN @ \union {h} ELSE @]
    /\ UNCHANGED <<worldVars, hostAsks, verifiedAt, clonedFrom>>
\* Nobody: an error, or an empty list of microagents.
NobodyKnows ==
    /\ hostAsk.kind \in {"verify", "clone", "microagents"} /\ hostAsk.todo = <<>>
    /\ hostAsk' = [hostAsk EXCEPT !.kind = "done",
                     !.from = IF hostAsk.kind = "microagents" THEN "empty" ELSE "error"]
    /\ UNCHANGED <<worldVars, hostAsks, verifiedAt, clonedFrom>>

-----------------------------------------------------------------------------
(* The services *)

Flag(field, x) == IF Listing THEN [hostAsk EXCEPT ![field] = @ \union {x}] ELSE hostAsk
Changes ==
    /\ hostChanges < MaxHostChanges /\ hostChanges' = hostChanges + 1
    /\ UNCHANGED <<hasName, hasAgents, hostAsks, verifiedAt, clonedFrom>>
\* A push brings a repository to the top; a repository is deleted; a token expires.
Pushed(h) ==
    /\ Changes /\ hostAsk' = Flag("grown", <<h, Last(owned[h][1])>>) /\ UNCHANGED expired
    /\ owned' = [owned EXCEPT ![h][1] = <<Last(@)>> \o Front(@)]
Deleted(h) ==
    /\ Changes /\ Len(owned[h][1]) > 1 /\ hostAsk' = Flag("shrunk", h) /\ UNCHANGED expired
    /\ owned' = [owned EXCEPT ![h][1] = Tail(@)]
Expires(h) == Changes /\ expired' = expired \union {h} /\ UNCHANGED <<owned, hostAsk>>

HostNext ==
    \/ ListsRepositories \/ PageArrives \/ PageFails \/ ListAnswered
    \/ \E h \in GitHosts_ \union {NoHost} : Verifies(h)
    \/ Clones \/ AsksMicroagents \/ HostKnows \/ NobodyKnows
    \/ \E fails \in BOOLEAN : HostDoesNot(fails)
    \/ \E h \in GitHosts_ : Pushed(h) \/ Deleted(h) \/ Expires(h)

-----------------------------------------------------------------------------
GivenBy(h) == LET s == SelectSeq(hostAsk.all, LAMBDA x : x[1] = h) IN [i \in DOMAIN s |-> s[i][2]]
IsList == hostAsk.kind = "done" /\ hostAsk.from = NoHost
\* A service that did not change gives all its repositories up to the limit, each
\* once and in its order; one that failed gives none and costs the others nothing.
\* What was deleted meanwhile hides one that stands behind it, what was pushed shows
\* one twice and may be missing itself; nothing else does.
ListingWhole ==
    IsList => \A h \in GitHosts_ :
        LET all == Take(FlattenSeq(hostAsk.was[h]), MaxRepos)
            pushed == {r \in ToSet(all) : <<h, r>> \in hostAsk.grown} IN
        /\ h \in hostAsk.failed => GivenBy(h) = <<>>
        /\ h \notin hostAsk.failed \union hostAsk.shrunk /\ pushed = {} => GivenBy(h) = all
        /\ h \notin hostAsk.failed \union hostAsk.shrunk /\ Len(all) < MaxRepos => ToSet(all) \ pushed \subseteq ToSet(GivenBy(h))
        /\ pushed = {} => IsInjective(GivenBy(h))
\* The repository that is cloned is the one that was verified, unless two services
\* know the name.
CloneMatches == clonedFrom \notin {NoHost, verifiedAt} => Cardinality(hasName) > 1
\* No microagents are reported only if each service has none or could not be asked.
AgentsAnswer == hostAsk.from = "empty" => hasAgents \subseteq hostAsk.failed
\* What the user is told of the repositories and their services.
HostsAnswer == ListingWhole /\ CloneMatches /\ AgentsAnswer
=============================================================================
