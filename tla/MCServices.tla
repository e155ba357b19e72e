---------------------------- MODULE MCServices ----------------------------
(* The services around the agent, each on its own: `part` says which of them *)
(* this behaviour is about.                                                  *)
EXTENDS WebHookStore, History, AppConversations, LoopDetection, LlmUsage,
        ConversationRecords, ToolCalls, ConfigLayers, UserSecrets, GitHosts,
        IssueResolver, Patching, Skills, McpTools, Delegation, HeadlessRun
VARIABLE part

\* The pipeline of a web session (its sizes scaled down) and each condenser alone, a
\* summarizer also with the largest keep_first its constructor accepts.
Configs == {
    <<Condenser("window", 0, 0), Condenser("browser", 1, 0), Condenser("summarizing", 8, 2)>>,
    <<Condenser("amortized", 4, 1)>>, <<Condenser("structured", 6, 1)>>, <<Condenser("structured", 6, 2)>>,
    <<Condenser("attention", 4, 1)>>, <<Condenser("recent", 4, 1)>>,
    <<Condenser("masking", 2, 0)>>, <<Condenser("noop", 0, 0)>> }

\* What an agent repeats: steps that differ only in what the detector ignores, two
\* kinds of steps, and errors.
Pair(a, v, o, x) == [act |-> Ev("act", a, v), obs |-> Ev(o, x, 0)]
MCPalettes == {
    {Pair(1, 0, "obs", 1), Pair(1, 1, "obs", 1)}, {Pair(1, 0, "obs", 1), Pair(2, 0, "obs", 1)},
    {Pair(1, 0, "err", 1), Pair(1, 0, "syntax", 1)} }
\* One service of each way of paging.
MCGitOrder == <<"link", "next", "whole">>
\* No skill, one of each kind, one that another place has as another kind, one beside a
\* file that cannot be read.
File(name, kind, named) == [name |-> name, kind |-> kind, named |-> named]
MCSkillDirs == {
    {}, {File("a", "knowledge", TRUE), File("agents", "repo", TRUE)}, {File("a", "repo", TRUE), File("b", "task", FALSE)},
    {File("a", "task", TRUE), File("b", "bad", TRUE)} }
\* No trajectory; one in which the user answers, one that ends with a question, and one
\* that begins with the system message.
MCTrajectories == {
    <<>>, <<"user", "ask", "user", "run", "result", "finish">>,
    <<"env", "user", "run", "blank", "ask">>, <<"system", "user", "run">> }
\* MCP servers of which any two have a tool of one name.
MCSseServers == <<"s1">>
MCShttpServers == <<"h1">>
MCToolsOf == [s1 |-> {"t1", "t2"}, h1 |-> {"t2", "t3"}, d1 |-> {"t3"}, d2 |-> {"t1", "t4"}]

vars == <<part, hookVars, historyVars, convVars, loopVars, usageVars,
          recordVars, pageVars, toolVars, configVars, secretVarsAll, hostVars,
          resolverVars, patchVars, skillVars, mcpVars, delegationVars,
          headlessVars>>

Init ==
    /\ part \in {"hooks", "history", "conversations", "loops", "usage",
                 "records", "pages", "tools", "config", "secrets", "hosts",
                 "resolver", "patching", "skills", "mcp", "delegation",
                 "headless"}
    /\ HookInit
    /\ HistoryInit /\ (part # "history" => condensers = <<Condenser("noop", 0, 0)>>)
    /\ ConvInit
    /\ LoopInit /\ (part # "loops" => stepKinds = CHOOSE k \in Palettes : TRUE)
    /\ UsageInit /\ (part # "usage" => ~routed)
    /\ RecordInit /\ PageInit
    /\ ToolInit /\ (part # "tools" => native)
    /\ ConfigInit
    /\ UserSecretInit /\ (part # "secrets" => legacyTokens = OldToken /\ secretStore = NoSecrets)
    /\ HostInit /\ (part # "hosts" => hasName = {} /\ hasAgents = {})
    /\ ResolverInit /\ (part # "resolver" => platform = "github" /\ ~forked)
    /\ PatchInit
    /\ SkillsInit /\ (part # "skills" => skillServer = "v0" /\ roots = {})
    /\ McpInit /\ (part # "mcp" => mcpRuntime = "cli")
    /\ DelegationInit /\ HeadlessInit

Next ==
    \/ /\ part = "hooks" /\ HookNext
       /\ UNCHANGED <<part, historyVars, convVars, loopVars, usageVars,
                      recordVars, pageVars, toolVars, configVars,
                      secretVarsAll, hostVars, resolverVars, patchVars,
                      skillVars, mcpVars, delegationVars, headlessVars>>
    \/ /\ part = "history" /\ HistoryNext
       /\ UNCHANGED <<part, hookVars, convVars, loopVars, usageVars,
                      recordVars, pageVars, toolVars, configVars,
                      secretVarsAll, hostVars, resolverVars, patchVars,
                      skillVars, mcpVars, delegationVars, headlessVars>>
    \/ /\ part = "conversations" /\ ConvNext
       /\ UNCHANGED <<part, hookVars, historyVars, loopVars, usageVars,
                      recordVars, pageVars, toolVars, configVars,
                      secretVarsAll, hostVars, resolverVars, patchVars,
                      skillVars, mcpVars, delegationVars, headlessVars>>
    \/ /\ part = "loops" /\ LoopNext
       /\ UNCHANGED <<part, hookVars, historyVars, convVars, usageVars,
                      recordVars, pageVars, toolVars, configVars,
                      secretVarsAll, hostVars, resolverVars, patchVars,
                      skillVars, mcpVars, delegationVars, headlessVars>>
    \/ /\ part = "usage" /\ UsageNext
       /\ UNCHANGED <<part, hookVars, historyVars, convVars, loopVars,
                      recordVars, pageVars, toolVars, configVars,
                      secretVarsAll, hostVars, resolverVars, patchVars,
                      skillVars, mcpVars, delegationVars, headlessVars>>
    \/ /\ part = "records" /\ RecordNext
       /\ UNCHANGED <<part, hookVars, historyVars, convVars, loopVars,
                      usageVars, pageVars, toolVars, configVars,
                      secretVarsAll, hostVars, resolverVars, patchVars,
                      skillVars, mcpVars, delegationVars, headlessVars>>
    \/ /\ part = "pages" /\ PageNext
       /\ UNCHANGED <<part, hookVars, historyVars, convVars, loopVars,
                      usageVars, recordVars, toolVars, configVars,
                      secretVarsAll, hostVars, resolverVars, patchVars,
                      skillVars, mcpVars, delegationVars, headlessVars>>
    \/ /\ part = "tools" /\ ToolNext
       /\ UNCHANGED <<part, hookVars, historyVars, convVars, loopVars,
                      usageVars, recordVars, pageVars, configVars,
                      secretVarsAll, hostVars, resolverVars, patchVars,
                      skillVars, mcpVars, delegationVars, headlessVars>>
    \/ /\ part = "config" /\ ConfigNext
       /\ UNCHANGED <<part, hookVars, historyVars, convVars, loopVars,
                      usageVars, recordVars, pageVars, toolVars,
                      secretVarsAll, hostVars, resolverVars, patchVars,
                      skillVars, mcpVars, delegationVars, headlessVars>>
    \/ /\ part = "secrets" /\ UserSecretNext
       /\ UNCHANGED <<part, hookVars, historyVars, convVars, loopVars,
                      usageVars, recordVars, pageVars, toolVars, configVars,
                      hostVars, resolverVars, patchVars, skillVars, mcpVars,
                      delegationVars, headlessVars>>
    \/ /\ part = "hosts" /\ HostNext
       /\ UNCHANGED <<part, hookVars, historyVars, convVars, loopVars,
                      usageVars, recordVars, pageVars, toolVars, configVars,
                      secretVarsAll, resolverVars, patchVars, skillVars,
                      mcpVars, delegationVars, headlessVars>>
    \/ /\ part = "resolver" /\ ResolverNext
       /\ UNCHANGED <<part, hookVars, historyVars, convVars, loopVars,
                      usageVars, recordVars, pageVars, toolVars, configVars,
                      secretVarsAll, hostVars, patchVars, skillVars, mcpVars,
                      delegationVars, headlessVars>>
    \/ /\ part = "patching" /\ PatchNext
       /\ UNCHANGED <<part, hookVars, historyVars, convVars, loopVars,
                      usageVars, recordVars, pageVars, toolVars, configVars,
                      secretVarsAll, hostVars, resolverVars, skillVars,
                      mcpVars, delegationVars, headlessVars>>
    \/ /\ part = "skills" /\ SkillsNext
       /\ UNCHANGED <<part, hookVars, historyVars, convVars, loopVars,
                      usageVars, recordVars, pageVars, toolVars, configVars,
                      secretVarsAll, hostVars, resolverVars, patchVars,
                      mcpVars, delegationVars, headlessVars>>
    \/ /\ part = "mcp" /\ McpNext
       /\ UNCHANGED <<part, hookVars, historyVars, convVars, loopVars,
                      usageVars, recordVars, pageVars, toolVars, configVars,
                      secretVarsAll, hostVars, resolverVars, patchVars,
                      skillVars, delegationVars, headlessVars>>
    \/ /\ part = "delegation" /\ DelegationNext
       /\ UNCHANGED <<part, hookVars, historyVars, convVars, loopVars,
                      usageVars, recordVars, pageVars, toolVars, configVars,
                      secretVarsAll, hostVars, resolverVars, patchVars,
                      skillVars, mcpVars, headlessVars>>
    \/ /\ part = "headless" /\ HeadlessNext
       /\ UNCHANGED <<part, hookVars, historyVars, convVars, loopVars,
                      usageVars, recordVars, pageVars, toolVars, configVars,
                      secretVarsAll, hostVars, resolverVars, patchVars,
                      skillVars, mcpVars, delegationVars>>

Spec == Init /\ [][Next]_vars

-----------------------------------------------------------------------------
\* What is stored of conversations: the app server's rows keep their parents and the
\* conversations that were made ready, records keep every write and stay deleted, and the
\* metrics count each call once and bill it, whatever requests overlap.
ConversationsKept == ConversationBooks /\ RecordsKept /\ UsageBooks
\* What drives the agent: loops end and are located, a delegate and its parent are given
\* the events of their own, live and after a restart, and a tool call reaches the agent
\* as the model made it.
AgentKept == LoopsBroken /\ DelegationKept /\ ToolCallsKept /\ HeadlessKept
\* What the agent can use: the skills nearest to its task, and tools that stay those of
\* the server they were shown for.
ToolsKept == SkillsKept /\ McpKept
\* What is the user's: the layers of the configuration in their order, secrets and tokens
\* that no overlapping request loses, and a repository in which a pull request is one fix
\* and nothing is told of before it is pushed.
UserKept == ConfigLayered /\ SecretsKept /\ ResolverKept
\* What is read of others: whole listings of repositories and of conversations, and the
\* file that a patch describes.
ListsAndPatchesKept == HostsAnswer /\ PagesWhole /\ PatchApplied
=============================================================================
