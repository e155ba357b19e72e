--------------------------- MODULE WorkspaceSetup ---------------------------
(* What runtime/base.py does to a workspace each time a session starts: the  *)
(* repository is cloned and checked out, the setup script run, the git hook  *)
(* installed over the user's own, the microagents of the system, the         *)
(* organisation and the repository loaded.  Every command may succeed, fail  *)
(* with an exit code, or be answered by an ErrorObservation that leaves      *)
(* unknown whether it ran; the runtime may go away at any point, and the     *)
(* next session starts over in the same workspace.                           *)
EXTENDS Naturals, FiniteSets
CONSTANTS MaxStarts,     \* bound: session starts
          MaxHookEdits   \* bound: hooks the user installs later

VARIABLES
    setup,         \* the step the start is at
    repoDir,       \* the repository's directory exists in the workspace
    branch,        \* what is checked out
    hasScripts,    \* the repository has .openhands/setup.sh and pre-commit.sh
    orgRepo,       \* the organisation has a repository of microagents
    scriptQueue, scriptRuns, \* the script's event for the runtime; its executions
    hook, hookLocal, \* .git/hooks/pre-commit and pre-commit.local
    userHook,      \* the hook the user installed last
    orgDir,        \* the clone of the organisation's microagents
    project, told, \* the template's project exists; what the agent was told of it
    loaded,        \* the microagents this start has loaded
    blurred,       \* history: a command of this workspace's hook got an ErrorObservation
    fault,         \* history: a step of this start failed
    orgLeft,       \* history: a start ended without removing orgDir
    starts, edits
setupVars == <<setup, repoDir, branch, hasScripts, orgRepo, scriptQueue, scriptRuns, hook,
               hookLocal, userHook, orgDir, project, told, loaded, blurred, fault, orgLeft, starts, edits>>
hookState == <<hook, hookLocal, userHook, blurred, edits>>
agentState == <<orgDir, loaded, orgLeft, project, told>>
repoState == <<repoDir, branch, scriptQueue, scriptRuns>>
fixedState == <<hasScripts, orgRepo, starts>>

Outcomes == {"ok", "failed", "error"}

SetupInit ==
    /\ setup = "idle" /\ repoDir = FALSE /\ branch = "none"
    /\ hasScripts \in BOOLEAN /\ orgRepo \in BOOLEAN
    /\ scriptQueue = 0 /\ scriptRuns = 0
    /\ \E h \in {0, 1} : hook = h /\ userHook = h
    /\ hookLocal = 0 /\ orgDir = FALSE /\ loaded = {} /\ project = FALSE /\ told = "nothing"
    /\ blurred = FALSE /\ fault = FALSE /\ orgLeft = FALSE /\ starts = 0 /\ edits = 0

Ours == 100          \* the hook that OpenHands writes
NoHook == 0

SessionStarts ==
    /\ setup \in {"idle", "ready", "broken"} /\ starts < MaxStarts
    /\ starts' = starts + 1 /\ setup' = "clone" /\ loaded' = {} /\ fault' = FALSE
    /\ told' = "nothing" /\ UNCHANGED <<hasScripts, orgRepo, hookState, orgDir, orgLeft, project, repoState>>

\* The sandbox is lost in the middle of a start; its workspace is kept.
RuntimeLost ==
    /\ setup \notin {"idle", "ready", "broken"} /\ setup' = "broken" /\ fault' = TRUE
    /\ orgLeft' = (orgLeft \/ orgDir)
    /\ UNCHANGED <<hasScripts, orgRepo, starts, hookState, orgDir, loaded, project, told, repoState>>

\* git clone into a directory that is there fails; nobody looks at the result.
ClonesRepo ==
    /\ setup = "clone" /\ setup' = "checkout"
    /\ \/ ~repoDir /\ repoDir' = TRUE /\ branch' = "default" /\ UNCHANGED fault
       \/ UNCHANGED <<repoDir, branch>> /\ fault' = (fault \/ ~repoDir)
    /\ UNCHANGED <<fixedState, scriptQueue, scriptRuns, hookState, agentState>>

\* git checkout of the selected branch, or of a new one with a random name; then the remote is set.
ChecksOut ==
    /\ setup = "checkout" /\ setup' = "script"
    /\ \/ repoDir /\ \E b \in {"selected", "new"} : branch' = b /\ UNCHANGED fault
       \/ fault' = TRUE /\ UNCHANGED branch
    /\ UNCHANGED <<fixedState, repoDir, scriptQueue, scriptRuns, hookState, agentState>>

\* maybe_run_setup_script publishes the command and runs it; the runtime is also
\* a subscriber of the stream and runs it again when the event reaches it.
RunsScript ==
    /\ setup = "script" /\ setup' = "hookscript"
    /\ IF hasScripts /\ repoDir
       THEN scriptQueue' = scriptQueue + 1 /\ scriptRuns' = scriptRuns + 1
       ELSE UNCHANGED <<scriptQueue, scriptRuns>>
    /\ UNCHANGED <<fixedState, repoDir, branch, hookState, agentState, fault>>
ScriptEventRuns ==
    /\ scriptQueue > 0 /\ scriptQueue' = scriptQueue - 1 /\ scriptRuns' = scriptRuns + 1
    /\ UNCHANGED <<fixedState, setup, repoDir, branch, hookState, agentState, fault>>

-----------------------------------------------------------------------------
(* maybe_setup_git_hooks: only an exit code other than 0 ends it early *)

HookUnchanged == UNCHANGED <<fixedState, repoState, agentState>>
After(outcome, next) ==
    /\ setup' = IF outcome = "failed" THEN "template" ELSE next
    /\ fault' = (fault \/ outcome # "ok")

\* Without the script there is no hook to install; mkdir and chmod come first.
LooksForHookScript ==
    /\ setup = "hookscript" /\ HookUnchanged /\ UNCHANGED hookState
    /\ \E o \in Outcomes :
        IF hasScripts /\ repoDir THEN After(o, "readhook")
        ELSE o = "ok" /\ setup' = "template" /\ UNCHANGED fault

\* A hook that cannot be read is taken for no hook.
ReadsHook ==
    /\ setup = "readhook" /\ HookUnchanged
    /\ \/ /\ setup' = (IF hook \in {NoHook, Ours} THEN "writehook" ELSE "movehook")
          /\ UNCHANGED <<hookState, fault>>
       \/ /\ setup' = "writehook" /\ fault' = TRUE /\ blurred' = TRUE
          /\ UNCHANGED <<hook, hookLocal, userHook, edits>>

MutMovesHook ==
    /\ setup = "movehook" /\ HookUnchanged /\ UNCHANGED <<userHook, edits, hook, hookLocal, blurred>>
    /\ \E o \in {"ok", "failed"} : After("ok", "writehook")

\* The user's hook is moved to pre-commit.local and made executable.
MovesHook ==
    /\ setup = "movehook" /\ HookUnchanged /\ UNCHANGED <<userHook, edits>>
    /\ \E o \in Outcomes, done \in BOOLEAN :
        /\ (o = "ok" => done) /\ (o = "failed" => ~done)
        /\ IF done THEN hookLocal' = hook /\ hook' = NoHook ELSE UNCHANGED <<hook, hookLocal>>
        /\ blurred' = (blurred \/ o = "error") /\ After(o, "writehook")

WritesHook ==
    /\ setup = "writehook" /\ HookUnchanged /\ setup' = "template"
    /\ \/ hook' = Ours /\ UNCHANGED fault
       \/ UNCHANGED hook /\ fault' = TRUE
    /\ UNCHANGED <<hookLocal, userHook, blurred, edits>>

\* Between sessions the user installs a hook of their own.
UserInstallsHook ==
    /\ setup \in {"ready", "broken"} /\ edits < MaxHookEdits /\ edits' = edits + 1
    /\ hook' = edits + 2 /\ userHook' = edits + 2
    /\ UNCHANGED <<fixedState, repoState, agentState, setup, hookLocal, blurred, fault>>

\* lu init of the template, if the conversation has one: an answer without an
\* exit code is taken for success, and the agent is told so.
InitializesTemplate ==
    /\ setup = "template" /\ setup' = "system"
    /\ \/ UNCHANGED <<project, told, fault>>
       \/ \E o \in Outcomes, done \in BOOLEAN :
            /\ (o = "ok" => done) /\ project' = (project \/ done)
            /\ told' = (IF o = "failed" THEN "failure" ELSE "success")
            /\ fault' = (fault \/ o # "ok")
    /\ UNCHANGED <<fixedState, repoState, hookState, orgDir, loaded, orgLeft>>

-----------------------------------------------------------------------------
(* get_microagents_from_selected_repo *)

AgentsUnchanged == UNCHANGED <<fixedState, repoState, hookState, project, told>>
\* A directory of microagents: read, or unreadable as a whole, which is logged.
Adds(source) == loaded' = loaded \cup {source} /\ UNCHANGED fault
AddsNothing == fault' = TRUE /\ UNCHANGED loaded

\* copy_from is called outside the try: its error ends the start.
LoadsSystem ==
    /\ setup = "system" /\ AgentsUnchanged /\ UNCHANGED <<orgDir, orgLeft>>
    /\ \/ setup' = "org" /\ Adds("system")
       \/ setup' = "org" /\ AddsNothing
       \/ setup' = "broken" /\ AddsNothing

\* The organisation's repository is cloned beside the workspace's own; an old
\* clone in the way, like a missing repository, means none.
ClonesOrg ==
    /\ setup = "org" /\ AgentsUnchanged
    /\ \/ orgRepo /\ ~orgDir /\ orgDir' = TRUE /\ setup' = "orgload" /\ UNCHANGED fault
       \/ setup' = "repo" /\ UNCHANGED orgDir /\ fault' = (fault \/ (orgRepo /\ ~orgDir))
    /\ UNCHANGED <<loaded, orgLeft>>

\* Its microagents are loaded and the clone removed; an error of the load is
\* caught one level up and skips the removal.
LoadsOrg ==
    /\ setup = "orgload" /\ AgentsUnchanged /\ setup' = "repo"
    /\ \/ Adds("org") /\ orgDir' = FALSE /\ UNCHANGED orgLeft
       \/ AddsNothing /\ orgDir' = FALSE /\ UNCHANGED orgLeft
       \/ AddsNothing /\ orgLeft' = TRUE /\ UNCHANGED orgDir

\* The legacy instructions and the repository's own microagents end the start.
LoadsRepo ==
    /\ setup = "repo" /\ AgentsUnchanged /\ UNCHANGED <<orgDir, orgLeft>>
    /\ \/ setup' = "ready" /\ Adds("repo")
       \/ setup' = "ready" /\ AddsNothing
       \/ setup' = "broken" /\ AddsNothing

SetupNext ==
    \/ SessionStarts \/ RuntimeLost \/ ClonesRepo \/ ChecksOut \/ RunsScript \/ ScriptEventRuns
    \/ LooksForHookScript \/ ReadsHook \/ MovesHook \/ WritesHook \/ UserInstallsHook
    \/ InitializesTemplate \/ LoadsSystem \/ ClonesOrg \/ LoadsOrg \/ LoadsRepo

SetupSpec == SetupInit /\ [][SetupNext]_setupVars

-----------------------------------------------------------------------------
\* "Preserving existing pre-commit hook": the hook the user installed last is in
\* .git/hooks after any number of starts that fail or are cut short anywhere,
\* unless a command on it was answered by an ErrorObservation, which the code
\* takes for success.
UserHookKept == userHook # NoHook /\ ~blurred => userHook \in {hook, hookLocal}

\* A start in which nothing failed loads every source there is; the microagents
\* of the organisation are missing only when an earlier start left its clone.
AgentsLoaded ==
    setup = "ready" /\ ~fault =>
        /\ {"system", "repo"} \subseteq loaded
        /\ orgRepo /\ ~orgLeft => "org" \in loaded

\* The agent is told that its project was set up only if it was, or if the answer
\* of the command was lost.
ToldTheTruth == told = "success" /\ ~fault => project

\* What a start leaves in the workspace, and what it gives the agent.
WorkspaceKept == UserHookKept /\ AgentsLoaded /\ ToldTheTruth
=============================================================================
