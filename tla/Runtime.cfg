SPECIFICATION Spec
CONSTANTS
    r1 = r1
    r2 = r2
    r3 = r3
    r4 = r4
    MaxCalls = 4
    MaxPsCalls = 3
    MaxLines = 2
    Runtimes = {r1, r2, r3}
    NameOf <- MCName
    Attaching = {}
    KeptAlive = {r2}
    p1 = p1
    p2 = p2
    Ports = {p1, p2}
    MaxTries = 2
    MaxFiles = 4
    MaxRestarts = 1
    Nobody = Nobody
    Clients = {r1, r2}
    Attempts = 2
    MaxActions <- MCActions
    LocalConvs = {"c1", "c2"}
    LocalRuntimes = {r1, r2, r3}
    ConvOf <- MCConv
    Attached = {r3}
    DesiredWarm = 1
    MaxServers = 3
    NoServer = NoServer
    Remotes = {r1, r2, r3}
    AttachedRemotes = {r3}
    MaxBoxes = 3
    MaxFaults = 2
    NoBoxId = NoBoxId
    KubeRuntimes = {r1, r2, r3}
    AttachedKube = {r3}
    KeptKube = {r2}
    MaxKubeFaults = 1
    MaxCliLines = 4
    MaxCliCommands = 2
    BrowserTries = 5
    MaxBrowserAsks = 4
    ConnectTries = 3
    MaxCells = 3
    MaxPrints = 2
    MaxDrops = 3
    Window = 4
    Contexts = {1, 2, 3, 4}
    MaxFileLen = 13
    MaxMoves = 4
    EditFiles = {"f", "g"}
    DraftTries = 2
    CorrectNum = 2
    MaxEdits = 2
    Builders = {1, 2}
    ImageRequests <- MCRequests
    MaxImageAsks = 3
    MaxCheckouts = 2
    MaxStarts = 2
    MaxHookEdits = 1
    DeployStarts = {1, 2}
    MaxDeployOps = 6
    MaxTicks = 4
    SandboxRequests = {1, 2}
    NumSandboxes = 3
    MaxSandboxes = 2
    SandboxPorts = {1, 2}
    MaxSandboxOps = 5
    NestedConvs = {1, 2}
    NestedRequests = {1, 2}
    MaxNested = 1
    MaxNestedFaults = 1
INVARIANTS ShellsAnswer RuntimesAccounted ActionsSeeEarlierOnes ToolsAnswer
    SandboxContents DeploymentBooks SandboxBooks
SYMMETRY MCPorts
CHECK_DEADLOCK FALSE
