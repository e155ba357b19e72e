SPECIFICATION Spec
CONSTANTS
    Writers = {1, 2}
    Paths = {1, 2}
    MaxVersions = 3
    MaxSends = 2
    CondenserConfigs <- Configs
    MaxHistory = 11
    MaxUserMessages = 2
    AppConvs = {1, 2}
    MaxWriters = 2
    MaxConvOps = 4
    Palettes <- MCPalettes
    MaxLoopEvents = 14
    MaxUserTurns = 2
    MaxAttempts = 2
    MaxLlmCalls = 3
    MaxSessions = 2
    MaxMessages = 7
    MaxModelChanges = 1
    MaxRecordOps = 4
    MaxAgentNews = 2
    InLists = {1, 2, 3, 4, 5}
    Limit = 1
    MaxPages = 7
    MaxListChanges = 1
    Loaders = {1, 2}
    SecretRequests = {1, 2}
    MaxSecretOps = 3
    MaxRotations = 1
    GitOrder <- MCGitOrder
    PageLen = 1
    MaxRepos = 4
    MaxHostChanges = 1
    MaxHostAsks = 2
    Platforms = {"github", "gitlab", "bitbucket", "azure"}
    MaxCommands = 4
    MaxResolverFaults = 1
    SkillDirs <- MCSkillDirs
    SseServers <- MCSseServers
    ShttpServers <- MCShttpServers
    StdioServers = {"d1", "d2"}
    ToolsOf <- MCToolsOf
    MaxMcpSessions = 2
    MaxMcpCalls = 2
    MaxOutages = 1
    PatchLines = {1, 2}
    MaxScript = 5
    MaxDelegateEvents = 12
    MaxDelegateUsers = 3
    MaxDelegateRestarts = 1
    Trajectories <- MCTrajectories
    MaxHeadlessRuns = 2
    MaxDecisions = 2
    MaxReports = 1
INVARIANTS
    HookCatchesUp
    PromptWellFormed
    ConversationsKept
    AgentKept
    ToolsKept
    UserKept
    ListsAndPatchesKept
PROPERTIES
    CondensationMakesRoom
CHECK_DEADLOCK FALSE
