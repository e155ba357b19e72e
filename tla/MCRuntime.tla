----------------------------- MODULE MCRuntime -----------------------------
(* The shells, the sandboxes, their images and what is set up in them, each  *)
(* on its own: `part` says which of them this behaviour is about.            *)
EXTENDS Shells, DockerRuntime, ActionServer, LocalServers, RemoteRuntime,
        SandboxTools, FileTools, ImageBuild, WorkspaceSetup, Deployments,
        SandboxServices, NestedConversations, TLC
CONSTANTS r1, r2, r3, r4, p1, p2
VARIABLE part

\* r1 and r3 serve one conversation from two processes.
MCName == (r1 :> "c1") @@ (r2 :> "c2") @@ (r3 :> "c1")

\* The session's runtime and one that a request attached.
MCActions == (r1 :> 2) @@ (r2 :> 1)

\* Two runtimes and an attached one of a conversation, one of another.
MCConv == (r1 :> "c1") @@ (r2 :> "c1") @@ (r3 :> "c1") @@ (r4 :> "c2")

\* With a browser, without one and with extra packages, and a forced rebuild.
Asked(b, w, x, f) == [base |-> b, browser |-> w, extra |-> x, forced |-> f]
MCRequests == {Asked(1, TRUE, {}, FALSE), Asked(1, FALSE, {"x"}, FALSE), Asked(2, TRUE, {}, TRUE)}

\* The two ports are alike.
MCPorts == Permutations({p1, p2})

vars == <<part, bashVars, psVars, dockerVars, actionVars, localVars,
          remoteVars, kubeVars, cliVars, browserVars, jupyterVars, windowVars,
          editVars, imageVars, setupVars, deployVars, sandboxVars, nestedVars>>

Init ==
    /\ part \in {"bash", "powershell", "docker", "actions", "local", "remote",
                 "kubernetes", "cli", "browser", "jupyter", "window",
                 "drafts", "images", "workspace", "deployments", "sandboxes",
                 "nested"}
    /\ BashInit
    /\ PsInit
    /\ DockerInit
    /\ ActionInit
    /\ LocalInit /\ (part # "local" => made = 0)
    /\ RemoteInit /\ (part # "remote" => onClose = "kept")
    /\ KubeInit
    /\ CliInit
    /\ BrowserInit
    /\ JupyterInit
    /\ WindowInit /\ (part # "window" => fileLen = 0)
    /\ EditInit /\ (part # "drafts" => autoLint = TRUE /\ editDisk = [f \in EditFiles |-> 0])
    /\ ImageInit /\ (part # "images" => builderKind = "docker" /\ published = {})
    /\ SetupInit /\ (part # "workspace" => ~hasScripts /\ ~orgRepo /\ hook = 0)
    /\ DeployInit
    /\ SandboxInit /\ (part # "sandboxes" => service = "docker")
    /\ NestedInit /\ (part # "nested" => recency = [s \in NestedConvs |-> s])

Next ==
    \/ /\ part = "bash" /\ BashNext
       /\ UNCHANGED <<part, psVars, dockerVars, actionVars, localVars,
                      remoteVars, kubeVars, cliVars, browserVars, jupyterVars,
                      windowVars, editVars, imageVars, setupVars, deployVars,
                      sandboxVars, nestedVars>>
    \/ /\ part = "powershell" /\ PsNext
       /\ UNCHANGED <<part, bashVars, dockerVars, actionVars, localVars,
                      remoteVars, kubeVars, cliVars, browserVars, jupyterVars,
                      windowVars, editVars, imageVars, setupVars, deployVars,
                      sandboxVars, nestedVars>>
    \/ /\ part = "docker" /\ DockerNext
       /\ UNCHANGED <<part, bashVars, psVars, actionVars, localVars,
                      remoteVars, kubeVars, cliVars, browserVars, jupyterVars,
                      windowVars, editVars, imageVars, setupVars, deployVars,
                      sandboxVars, nestedVars>>
    \/ /\ part = "actions" /\ ActionNext
       /\ UNCHANGED <<part, bashVars, psVars, dockerVars, localVars,
                      remoteVars, kubeVars, cliVars, browserVars, jupyterVars,
                      windowVars, editVars, imageVars, setupVars, deployVars,
                      sandboxVars, nestedVars>>
    \/ /\ part = "local" /\ LocalNext
       /\ UNCHANGED <<part, bashVars, psVars, dockerVars, actionVars,
                      remoteVars, kubeVars, cliVars, browserVars, jupyterVars,
                      windowVars, editVars, imageVars, setupVars, deployVars,
                      sandboxVars, nestedVars>>
    \/ /\ part = "remote" /\ RemoteNext
       /\ UNCHANGED <<part, bashVars, psVars, dockerVars, actionVars,
                      localVars, kubeVars, cliVars, browserVars, jupyterVars,
                      windowVars, editVars, imageVars, setupVars, deployVars,
                      sandboxVars, nestedVars>>
    \/ /\ part = "kubernetes" /\ KubeNext
       /\ UNCHANGED <<part, bashVars, psVars, dockerVars, actionVars,
                      localVars, remoteVars, cliVars, browserVars,
                      jupyterVars, windowVars, editVars, imageVars, setupVars,
                      deployVars, sandboxVars, nestedVars>>
    \/ /\ part = "cli" /\ CliNext
       /\ UNCHANGED <<part, bashVars, psVars, dockerVars, actionVars,
                      localVars, remoteVars, kubeVars, browserVars,
                      jupyterVars, windowVars, editVars, imageVars, setupVars,
                      deployVars, sandboxVars, nestedVars>>
    \/ /\ part = "browser" /\ BrowserNext
       /\ UNCHANGED <<part, bashVars, psVars, dockerVars, actionVars,
                      localVars, remoteVars, kubeVars, cliVars, jupyterVars,
                      windowVars, editVars, imageVars, setupVars, deployVars,
                      sandboxVars, nestedVars>>
    \/ /\ part = "jupyter" /\ JupyterNext
       /\ UNCHANGED <<part, bashVars, psVars, dockerVars, actionVars,
                      localVars, remoteVars, kubeVars, cliVars, browserVars,
                      windowVars, editVars, imageVars, setupVars, deployVars,
                      sandboxVars, nestedVars>>
    \/ /\ part = "window" /\ WindowNext
       /\ UNCHANGED <<part, bashVars, psVars, dockerVars, actionVars,
                      localVars, remoteVars, kubeVars, cliVars, browserVars,
                      jupyterVars, editVars, imageVars, setupVars, deployVars,
                      sandboxVars, nestedVars>>
    \/ /\ part = "drafts" /\ EditNext
       /\ UNCHANGED <<part, bashVars, psVars, dockerVars, actionVars,
                      localVars, remoteVars, kubeVars, cliVars, browserVars,
                      jupyterVars, windowVars, imageVars, setupVars,
                      deployVars, sandboxVars, nestedVars>>
    \/ /\ part = "images" /\ ImageNext
       /\ UNCHANGED <<part, bashVars, psVars, dockerVars, actionVars,
                      localVars, remoteVars, kubeVars, cliVars, browserVars,
                      jupyterVars, windowVars, editVars, setupVars,
                      deployVars, sandboxVars, nestedVars>>
    \/ /\ part = "workspace" /\ SetupNext
       /\ UNCHANGED <<part, bashVars, psVars, dockerVars, actionVars,
                      localVars, remoteVars, kubeVars, cliVars, browserVars,
                      jupyterVars, windowVars, editVars, imageVars,
                      deployVars, sandboxVars, nestedVars>>
    \/ /\ part = "deployments" /\ DeployNext
       /\ UNCHANGED <<part, bashVars, psVars, dockerVars, actionVars,
                      localVars, remoteVars, kubeVars, cliVars, browserVars,
                      jupyterVars, windowVars, editVars, imageVars, setupVars,
                      sandboxVars, nestedVars>>
    \/ /\ part = "sandboxes" /\ SandboxNext
       /\ UNCHANGED <<part, bashVars, psVars, dockerVars, actionVars,
                      localVars, remoteVars, kubeVars, cliVars, browserVars,
                      jupyterVars, windowVars, editVars, imageVars, setupVars,
                      deployVars, nestedVars>>
    \/ /\ part = "nested" /\ NestedNext
       /\ UNCHANGED <<part, bashVars, psVars, dockerVars, actionVars,
                      localVars, remoteVars, kubeVars, cliVars, browserVars,
                      jupyterVars, windowVars, editVars, imageVars, setupVars,
                      deployVars, sandboxVars>>

Spec == Init /\ [][Next]_vars

-----------------------------------------------------------------------------
\* The shells: a command is answered with its own output, a job that is followed shows
\* each line once, and the output of a command line is whole or nothing, whatever times
\* out.
ShellsAnswer == AnswersOwnCommand /\ FollowedJobShownOnce /\ CliOutputWhole
\* The runtimes: no two hold one port, no process or sandbox runs on that nobody will end,
\* and the parts of a pod come and go together, however starts, stops and faults overlap.
RuntimesAccounted == CollisionNeedsLateUnlink /\ ServersAccounted /\ RunningIsClaimed /\ WholeOrGone
\* The tools in the sandbox: a page, a cell, a window of a file and an edit are answered
\* with what was asked, late and lost answers included.
ToolsAnswer == BrowserAnswers /\ CellsAnswered /\ WindowKept /\ EditsTold
\* What is in the sandbox when the agent starts: an image that is what its tags say, and
\* the user's hook, the microagents and the project as they were announced.
SandboxContents == ImagesTrue /\ WorkspaceKept
\* The app server's sandboxes and the nested conversation servers: each that runs is on the
\* books, and there are no more than allowed as far as a count can see.
SandboxBooks == SandboxesTracked /\ NestedBooks
=============================================================================
