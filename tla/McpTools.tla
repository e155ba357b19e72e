------------------------------ MODULE McpTools ------------------------------
(* Tools of MCP servers (openhands/mcp, get_mcp_config of the runtimes and   *)
(* runtime/mcp/proxy): listed once when a session starts, and looked up by   *)
(* name on connections made anew for every call.  Servers of the sandbox are *)
(* reached through one proxy in it.                                          *)
EXTENDS Naturals, Sequences, FiniteSets, SequencesExt

CONSTANTS
    SseServers, ShttpServers,  \* sequences of servers of the configuration
    StdioServers,              \* servers that run where the tools run
    ToolsOf,                   \* server -> tools
    MaxMcpSessions, MaxMcpCalls, MaxOutages   \* bounds

\* No tool has a name that `purpose` uses for something else.
ASSUME McpAssumption ==
    /\ SseServers \in Seq(DOMAIN ToolsOf) /\ ShttpServers \in Seq(DOMAIN ToolsOf)
    /\ StdioServers \subseteq DOMAIN ToolsOf /\ IsFiniteSet(StdioServers) /\ "none" \notin DOMAIN ToolsOf
    /\ \A s \in DOMAIN ToolsOf : ToolsOf[s] \cap {"idle", "start", "failed"} = {}

VARIABLES
    mcpRuntime,   \* "sandbox" or "cli"
    stdioConf,    \* stdio servers of the settings, the repository's microagents included
    sseList,      \* config.mcp.sse_servers, which get_mcp_config adds to
    lastUpdated,  \* _last_updated_mcp_stdio_servers
    mounts,       \* the action server: proxies mounted at /mcp, the first one answers
    toConnect,    \* servers create_mcp_clients has still to try
    clients,      \* servers it connected to
    missed,       \* servers it could not connect to
    missedAtStart,
    agentTools,   \* tool -> the server that described it
    purpose,      \* "idle", "start", "failed" or the tool that is being called
    callAnswer,   \* the latest call: [tool, by, missed]
    unreachable, outages, mcpSessions, mcpCalls
mcpVars == <<mcpRuntime, stdioConf, sseList, lastUpdated, mounts, toConnect, clients, missed, missedAtStart, agentTools,
             purpose, callAnswer, unreachable, outages, mcpSessions, mcpCalls>>
outageVars == <<unreachable, outages>>

NoTools == [t \in {} |-> "none"]
NoMcpCall == [tool |-> "none", by |-> "none", missed |-> {}]

McpInit ==
    /\ mcpRuntime \in {"sandbox", "cli"} /\ stdioConf = {} /\ sseList = SseServers /\ lastUpdated = {} /\ mounts = <<>>
    /\ toConnect = <<>> /\ clients = <<>> /\ missed = {} /\ missedAtStart = {} /\ agentTools = NoTools
    /\ purpose = "failed" /\ callAnswer = NoMcpCall /\ unreachable = {} /\ outages = 0 /\ mcpSessions = 0 /\ mcpCalls = 0

\* What a server offers: the proxy offers what its servers do.
Offers(s) == IF s = "proxy" THEN UNION {ToolsOf[d] : d \in Head(mounts)} ELSE ToolsOf[s]
Answering(s) == s \notin unreachable /\ (s = "proxy" => mounts # <<>> /\ Head(mounts) # {})

-----------------------------------------------------------------------------
(* get_mcp_config *)

\* The sandbox is told of the servers that are new to this client.  update_and_remount
\* mounts another proxy behind the one that is there; an error in it is answered with
\* success and a log, and the client takes the servers for known.
Updates(conf, known, there) ==
    IF conf \subseteq known THEN lastUpdated' = known /\ mounts' = there
    ELSE /\ lastUpdated' = known \cup conf
         /\ \/ mounts' = Append(there, known \cup conf)
            \/ mounts' = there
\* The list of the configuration itself is added to: the copy is a shallow one.
WithProxy(list) == IF lastUpdated' = {} THEN list ELSE Append(list, "proxy")
AsksServers(for) ==
    /\ purpose' = for /\ clients' = <<>> /\ missed' = {}
    /\ toConnect' = sseList' \o ShttpServers \o (IF mcpRuntime = "cli" THEN SetToSeq(stdioConf') ELSE <<>>)

\* A session: with a new sandbox or with one that an earlier session left, by a client
\* that knows nothing of it; the settings may have changed.
McpSessionBegins(conf, fresh) ==
    /\ purpose \in {"idle", "failed"} /\ mcpSessions < MaxMcpSessions /\ mcpSessions' = mcpSessions + 1
    /\ stdioConf' = conf /\ agentTools' = NoTools /\ callAnswer' = NoMcpCall /\ missedAtStart' = {} /\ mcpCalls' = 0
    /\ IF mcpRuntime = "cli" THEN lastUpdated' = {} /\ mounts' = <<>> /\ sseList' = SseServers
       ELSE Updates(conf, {}, IF fresh THEN <<>> ELSE mounts) /\ sseList' = WithProxy(SseServers)
    /\ AsksServers("start") /\ UNCHANGED <<mcpRuntime, outageVars>>
\* The request to the sandbox fails: the session does not start.
UpdateRefused(conf) ==
    /\ purpose \in {"idle", "failed"} /\ mcpRuntime = "sandbox" /\ conf # {} /\ mcpSessions < MaxMcpSessions
    /\ mcpSessions' = mcpSessions + 1 /\ purpose' = "failed" /\ stdioConf' = conf /\ lastUpdated' = {}
    /\ sseList' = SseServers /\ agentTools' = NoTools /\ callAnswer' = NoMcpCall
    /\ UNCHANGED <<mcpRuntime, mounts, toConnect, clients, missed, missedAtStart, mcpCalls, outageVars>>
CallBegins(t) ==
    /\ purpose = "idle" /\ t \in DOMAIN agentTools /\ mcpCalls < MaxMcpCalls /\ mcpCalls' = mcpCalls + 1
    /\ IF mcpRuntime = "cli" THEN UNCHANGED <<lastUpdated, mounts, sseList>>
       ELSE Updates(stdioConf, lastUpdated, mounts) /\ sseList' = WithProxy(sseList)
    /\ UNCHANGED stdioConf /\ AsksServers(t)
    /\ UNCHANGED <<mcpRuntime, missedAtStart, agentTools, callAnswer, mcpSessions, outageVars>>

-----------------------------------------------------------------------------
(* create_mcp_clients: one server after the other, a failing one is left out *)

ConnectsNext ==
    LET s == Head(toConnect) IN
    /\ toConnect # <<>> /\ toConnect' = Tail(toConnect)
    /\ IF Answering(s) THEN clients' = Append(clients, s) /\ UNCHANGED missed
       ELSE missed' = missed \cup {s} /\ UNCHANGED clients
    /\ UNCHANGED <<mcpRuntime, stdioConf, sseList, lastUpdated, mounts, missedAtStart, agentTools, purpose, callAnswer,
                   mcpSessions, mcpCalls, outageVars>>
\* Clients that offer a tool, in their order.
Having(t) == {i \in DOMAIN clients : t \in Offers(clients[i])}
First(S) == CHOOSE i \in S : \A j \in S : i <= j
\* set_mcp_tools: of two tools of a name the first is kept.
ToolsListed ==
    /\ purpose = "start" /\ toConnect = <<>> /\ purpose' = "idle" /\ missedAtStart' = missed
    /\ agentTools' = [t \in UNION {Offers(clients[i]) : i \in DOMAIN clients} |-> clients[First(Having(t))]]
    /\ UNCHANGED <<mcpRuntime, stdioConf, sseList, lastUpdated, mounts, toConnect, clients, missed, callAnswer,
                   mcpSessions, mcpCalls, outageVars>>
MutMatchingClient(t) == clients[CHOOSE i \in Having(t) : \A j \in Having(t) : j <= i]
MatchingClient(t) == clients[First(Having(t))]
\* call_tool_mcp: no client with the tool raises; an error or a timeout of the tool is an
\* answer of its server.
CallEnds ==
    /\ purpose \notin {"idle", "start", "failed"} /\ toConnect = <<>>
    /\ callAnswer' = [tool |-> purpose, by |-> IF Having(purpose) = {} THEN "none" ELSE MatchingClient(purpose), missed |-> missed]
    /\ purpose' = "idle"
    /\ UNCHANGED <<mcpRuntime, stdioConf, sseList, lastUpdated, mounts, toConnect, clients, missed, missedAtStart, agentTools,
                   mcpSessions, mcpCalls, outageVars>>

ServerFails(s) ==
    /\ outages < MaxOutages /\ outages' = outages + 1 /\ s \notin unreachable /\ unreachable' = unreachable \cup {s}
    /\ UNCHANGED <<mcpRuntime, stdioConf, sseList, lastUpdated, mounts, toConnect, clients, missed, missedAtStart, agentTools,
                   purpose, callAnswer, mcpSessions, mcpCalls>>
ServerBack(s) ==
    /\ s \in unreachable /\ unreachable' = unreachable \ {s}
    /\ UNCHANGED <<mcpRuntime, stdioConf, sseList, lastUpdated, mounts, toConnect, clients, missed, missedAtStart, agentTools,
                   purpose, callAnswer, outages, mcpSessions, mcpCalls>>

McpNext ==
    \/ \E conf \in SUBSET StdioServers : UpdateRefused(conf) \/ \E fresh \in BOOLEAN : McpSessionBegins(conf, fresh)
    \/ \E t \in DOMAIN agentTools : CallBegins(t)
    \/ ConnectsNext \/ ToolsListed \/ CallEnds
    \/ \E s \in {"proxy"} \cup DOMAIN ToolsOf : ServerFails(s) \/ ServerBack(s)

-----------------------------------------------------------------------------
\* A call goes to the server whose description of the tool the agent has: another one
\* answers only when that server cannot be reached now, or was itself missed at the start
\* of the session and is nearer to the front.
AnsweredByShown ==
    callAnswer.by # "none" /\ callAnswer.by # agentTools[callAnswer.tool] =>
        agentTools[callAnswer.tool] \in callAnswer.missed \/ callAnswer.by \in missedAtStart
\* A tool that the agent has is refused only while its server cannot be reached.
ToolStaysThere ==
    callAnswer.tool # "none" /\ callAnswer.by = "none" => agentTools[callAnswer.tool] \in callAnswer.missed
\* The tools of a session are the same ones from its start on, whatever servers come and go.
McpKept == AnsweredByShown /\ ToolStaysThere
=============================================================================
