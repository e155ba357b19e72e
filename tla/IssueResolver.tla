--------------------------- MODULE IssueResolver ---------------------------
(* The resolver: one command lets an agent work on an issue or on a pull     *)
(* request and appends what came of it to output.jsonl, another one sends    *)
(* that to the hosting service.  The commands share an output directory: a   *)
(* clone of the repository, the results so far and a patched copy.  A branch *)
(* is the set of the changes it holds.                                       *)
EXTENDS Naturals, Sequences, FiniteSets, SequencesExt
CONSTANTS
    Platforms,         \* the hosting services
    MaxCommands,       \* commands (bound)
    MaxResolverFaults  \* failing calls (bound)

VARIABLES
    platform,      \* where the repository is
    forked,        \* the fix is pushed to a fork
    repos,        \* repository -> branch -> its changes; {} is no branch
    clone,         \* <output>/repo: the branch checked out and the local branches
    outputs,       \* output.jsonl
    job,           \* the command that runs
    opened,        \* the pull requests made: their changes and what they are for
    tellings,          \* comments and replies made on the user's pull request
    resolverFaults, commands
resolverVars == <<platform, forked, repos, clone, outputs, job, opened, tellings, resolverFaults, commands>>
remoteVars == <<repos, opened, tellings>>
givenVars == <<platform, forked>>

Kinds == {"issue", "pr"}
FixBranches == {"fix", "fix-try2", "fix-try3"}
\* Changes: of others, and the fix of a kind made by the n-th command.
Theirs(b) == <<b, "others", 0>>
Fix(kind, n) == <<"fix", kind, n>>
NoBranches == [b \in {"main", "feature"} \union FixBranches |-> {}]
\* GitLab counts issues and merge requests apart; the user's two have the same number.
Number(kind) == IF platform = "gitlab" \/ kind = "issue" THEN 1 ELSE 2
\* What the user's pull request has of unresolved review threads, and the ids by which
\* they can be answered, as far as each handler reads them.
GithubFeedback == [threads |-> 2, ids |-> {1, 2}]
GitlabFeedback == [threads |-> 2, ids |-> {1, 2}]
BitbucketFeedback == [threads |-> 0, ids |-> {}]
AzureFeedback == [threads |-> 2, ids |-> {}]
Feedback == CASE platform = "github" -> GithubFeedback [] platform = "gitlab" -> GitlabFeedback
              [] platform = "bitbucket" -> BitbucketFeedback [] OTHER -> AzureFeedback
NoJob == [at |-> "idle", kind |-> "issue", base |-> {}, mixed |-> FALSE, patch |-> "none", success |-> FALSE,
          judged |-> FALSE, out |-> 0, tree |-> {}, name |-> "none", left |-> {}]

ResolverInit ==
    /\ platform \in Platforms /\ forked \in BOOLEAN
    /\ repos = [r \in {"origin", "fork"} |->
                   IF r = "origin" THEN [NoBranches EXCEPT !.main = {Theirs("m")}, !.feature = {Theirs("m"), Theirs("f")}] ELSE NoBranches]
    /\ clone = [on |-> "none", main |-> {}, feature |-> {}]
    /\ outputs = <<>> /\ job = NoJob /\ opened = {} /\ tellings = {} /\ resolverFaults = 0 /\ commands = 0

At(a) == job.at = a
Trouble == resolverFaults < MaxResolverFaults /\ resolverFaults' = resolverFaults + 1
Begins == At("idle") /\ commands < MaxCommands /\ commands' = commands + 1

-----------------------------------------------------------------------------
(* resolve_issue *)

ResolveStarts(kind) ==
    /\ Begins /\ job' = [NoJob EXCEPT !.at = "clone", !.kind = kind]
    /\ UNCHANGED <<givenVars, remoteVars, clone, outputs, resolverFaults>>
\* A clone that is there is used as it is, on whatever branch it is.
Clones_ ==
    /\ At("clone")
    /\ clone' = (IF clone.on = "none" THEN [clone EXCEPT !.on = "main", !.main = repos["origin"].main] ELSE clone)
    /\ job' = [job EXCEPT !.at = "lookup", !.base = clone'[clone'.on], !.mixed = clone.on = "feature"]
    /\ UNCHANGED <<givenVars, remoteVars, outputs, resolverFaults, commands>>
\* An output with this number, of whatever kind: done.
AlreadyDone ==
    /\ At("lookup") /\ \E i \in DOMAIN outputs : outputs[i].number = Number(job.kind)
    /\ job' = NoJob /\ UNCHANGED <<givenVars, remoteVars, clone, outputs, resolverFaults, commands>>
NotDone ==
    /\ At("lookup") /\ \A i \in DOMAIN outputs : outputs[i].number # Number(job.kind)
    /\ job' = [job EXCEPT !.at = IF job.kind = "pr" THEN "checkout" ELSE "work"]
    /\ UNCHANGED <<givenVars, remoteVars, clone, outputs, resolverFaults, commands>>
\* The branch is fetched; a local one that is there already stays where it was.
ChecksOutHead ==
    /\ At("checkout") /\ platform # "bitbucket"
    /\ clone' = [clone EXCEPT !.on = "feature", !.feature = IF @ = {} THEN repos["origin"].feature ELSE @]
    /\ job' = [job EXCEPT !.at = "work", !.base = clone'.feature, !.mixed = FALSE]
    /\ UNCHANGED <<givenVars, remoteVars, outputs, resolverFaults, commands>>
\* Bitbucket's handler knows no head branch.
NoHeadBranch ==
    /\ At("checkout") /\ platform = "bitbucket" /\ job' = NoJob
    /\ UNCHANGED <<givenVars, remoteVars, clone, outputs, resolverFaults, commands>>
\* The agent changes something or nothing, finishes or crashes; then the difference to
\* the base is taken, and a model judges it.  A crashed agent was not successful, and
\* nothing explains its work thread by thread.
AgentWorks(patch, crashed) ==
    /\ At("work")
    /\ job' = [job EXCEPT !.at = IF crashed THEN "write" ELSE "judge", !.patch = patch, !.success = FALSE]
    /\ UNCHANGED <<givenVars, remoteVars, clone, outputs, resolverFaults, commands>>
Judges(success) ==
    /\ At("judge") /\ (success /\ job.kind = "pr" => Feedback.threads > 0)
    /\ job' = [job EXCEPT !.at = "write", !.success = success, !.judged = TRUE]
    /\ UNCHANGED <<givenVars, remoteVars, clone, outputs, resolverFaults, commands>>
WritesOutput ==
    /\ At("write") /\ job' = NoJob
    /\ outputs' = Append(outputs, [kind |-> job.kind, number |-> Number(job.kind), base |-> job.base,
                                   mixed |-> job.mixed, patch |-> job.patch, success |-> job.success,
                                   explained |-> job.judged /\ job.kind = "pr" /\ Feedback.threads > 0])
    /\ UNCHANGED <<givenVars, remoteVars, clone, resolverFaults, commands>>

-----------------------------------------------------------------------------
(* send_pull_request *)

\* The first output with the number; one that is not a success only when asked for.
Sent(kind) == SelectInSeq(outputs, LAMBDA o : o.number = Number(kind))
SendStarts(kind, onFailure) ==
    LET i == Sent(kind) IN
    /\ Begins /\ i # 0
    /\ job' = (IF outputs[i].success \/ onFailure
               THEN [NoJob EXCEPT !.at = "patch", !.kind = kind, !.out = i] ELSE NoJob)
    /\ UNCHANGED <<givenVars, remoteVars, clone, outputs, resolverFaults>>
\* A copy of the clone, at the base of an issue or at the clone's head branch, with the
\* patch as a new commit.
Patches ==
    LET o == outputs[job.out] IN
    /\ At("patch") /\ o.patch = "some"
    /\ job' = [job EXCEPT !.at = IF o.kind = "pr" THEN "push" ELSE "name", !.kind = o.kind, !.mixed = o.mixed,
                          !.tree = (IF o.kind = "pr" THEN clone.feature ELSE o.base) \union {Fix(o.kind, commands)},
                          !.name = IF o.kind = "pr" THEN "feature" ELSE "none"]
    /\ UNCHANGED <<givenVars, remoteVars, clone, outputs, resolverFaults, commands>>
\* Nothing to commit.
NoChanges ==
    /\ At("patch") /\ outputs[job.out].patch = "none" /\ job' = NoJob
    /\ UNCHANGED <<givenVars, remoteVars, clone, outputs, resolverFaults, commands>>
\* get_branch_name: the first name the original repository does not have.
FreeName == CHOOSE b \in FixBranches :
    /\ repos["origin"][b] = {}
    /\ \A c \in FixBranches : repos["origin"][c] = {} => b = c \/ <<b, c>> \in {<<"fix", "fix-try2">>, <<"fix", "fix-try3">>, <<"fix-try2", "fix-try3">>}
NamesBranch ==
    /\ At("name") /\ \E b \in FixBranches : repos["origin"][b] = {}
    /\ job' = [job EXCEPT !.at = "push", !.name = FreeName]
    /\ UNCHANGED <<givenVars, remoteVars, clone, outputs, resolverFaults, commands>>
\* A check that fails says "does not exist".
NameMisread ==
    /\ At("name") /\ Trouble /\ job' = [job EXCEPT !.at = "push", !.name = "fix"]
    /\ UNCHANGED <<givenVars, remoteVars, clone, outputs, commands>>
PushTo == IF job.kind = "issue" /\ forked THEN "fork" ELSE "origin"
FastForward == repos[PushTo][job.name] \subseteq job.tree
MutPushes ==
    /\ At("push")
    /\ repos' = (IF FastForward THEN [repos EXCEPT ![PushTo][job.name] = job.tree] ELSE repos)
    /\ job' = [job EXCEPT !.at = IF job.kind = "pr" THEN "comment" ELSE "open", !.left = Feedback.ids]
    /\ UNCHANGED <<givenVars, clone, outputs, opened, tellings, resolverFaults, commands>>
Pushes ==
    /\ At("push") /\ FastForward
    /\ repos' = [repos EXCEPT ![PushTo][job.name] = job.tree]
    /\ job' = [job EXCEPT !.at = IF job.kind = "pr" THEN "comment" ELSE "open", !.left = Feedback.ids]
    /\ UNCHANGED <<givenVars, clone, outputs, opened, tellings, resolverFaults, commands>>
\* The branch there has changes that the pushed one has not.
PushRejected ==
    /\ At("push") /\ ~FastForward /\ job' = NoJob
    /\ UNCHANGED <<givenVars, remoteVars, clone, outputs, resolverFaults, commands>>
OpensPullRequest ==
    /\ At("open") /\ job' = NoJob
    /\ opened' = opened \union {[to |-> PushTo, head |-> job.name, tree |-> job.tree, mixed |-> job.mixed]}
    /\ UNCHANGED <<givenVars, repos, tellings, clone, outputs, resolverFaults, commands>>
\* A summary of the explanations, or that they could not be read; a comment that cannot
\* be posted is only logged.
Comments(posted) ==
    LET read == outputs[job.out].explained IN
    /\ At("comment") /\ (IF posted THEN UNCHANGED resolverFaults ELSE Trouble)
    /\ tellings' = (IF posted THEN tellings \union {[what |-> "comment", thread |-> 0]} ELSE tellings)
    /\ job' = [job EXCEPT !.at = IF job.left = {} \/ ~read THEN "idle" ELSE "reply", !.left = IF read THEN @ ELSE {}]
    /\ UNCHANGED <<givenVars, repos, opened, clone, outputs, commands>>
\* The explanation of each thread goes to that thread, in their order.
Replies ==
    LET t == CHOOSE x \in job.left : \A y \in job.left : x <= y IN
    /\ At("reply") /\ tellings' = tellings \union {[what |-> "reply", thread |-> t]}
    /\ job' = (IF job.left = {t} THEN NoJob ELSE [job EXCEPT !.left = @ \ {t}])
    /\ UNCHANGED <<givenVars, repos, opened, clone, outputs, resolverFaults, commands>>

\* A call fails, or the command is stopped: nothing is undone.
JobFails ==
    /\ job.at # "idle" /\ Trouble /\ job' = NoJob
    /\ UNCHANGED <<givenVars, remoteVars, clone, outputs, commands>>
\* Somebody else pushes to the user's branch or to the default one.
OthersPush(b) ==
    /\ resolverFaults < MaxResolverFaults /\ resolverFaults' = resolverFaults + 1
    /\ repos' = [repos EXCEPT !["origin"][b] = @ \union {Theirs(b)}]
    /\ UNCHANGED <<givenVars, opened, tellings, clone, outputs, job, commands>>

ResolverNext ==
    \/ \E k \in Kinds : ResolveStarts(k) \/ \E f \in BOOLEAN : SendStarts(k, f)
    \/ Clones_ \/ AlreadyDone \/ NotDone \/ ChecksOutHead \/ NoHeadBranch
    \/ \E p \in {"none", "some"}, c \in BOOLEAN : AgentWorks(p, c)
    \/ \E s \in BOOLEAN : Judges(s)
    \/ WritesOutput \/ Patches \/ NoChanges \/ NamesBranch \/ NameMisread
    \/ Pushes \/ PushRejected \/ OpensPullRequest \/ (\E p \in BOOLEAN : Comments(p)) \/ Replies
    \/ JobFails \/ \E b \in {"main", "feature"} : OthersPush(b)

-----------------------------------------------------------------------------
Fixes(tree, kind) == {x \in tree : x[1] = "fix" /\ x[2] = kind}
\* A pull request holds one fix of its issue and beside it only what the default branch
\* holds, unless the clone had been left on the branch of a pull request.
PullRequestIsFix ==
    \A p \in opened : /\ Cardinality(Fixes(p.tree, "issue")) = 1
                      /\ p.mixed \/ p.tree \ Fixes(p.tree, "issue") \subseteq repos["origin"].main
\* No two pull requests share a branch.
BranchOfItsOwn == \A p, q \in opened : p.to = q.to /\ p.head = q.head => p = q
\* What the user is told of was pushed before, to the branch that it is told on.
ToldAfterPush == tellings # {} => Fixes(repos["origin"].feature, "pr") # {}
\* A result is never pushed twice to a user's pull request: after the first time the
\* clone's branch is behind, and the second push is refused.
PushedOnce == Cardinality(Fixes(repos["origin"].feature, "pr")) <= 1
\* What is pushed, opened and told fits together, whichever command was stopped where.
ResolverKept == PullRequestIsFix /\ BranchOfItsOwn /\ ToldAfterPush /\ PushedOnce
=============================================================================
