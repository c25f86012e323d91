CONSTANTS
    r1 = r1
    r2 = r2
    x1 = x1
    x2 = x2
    Accounts = {a1}
    LiveIds <- Alike
    ConnectCalls <- Requests
    NoAccount = NoAccount
    NoLive = NoLive
    FileConns <- Alike
    ListCalls <- Requests
    NoFileConn = NoFileConn
    Nodes <- MCNodes
    DirNodes <- MCDirNodes
    HomeDirs <- MCDirNodes
    SocksTunnels = {p, q}
    Forwards = {}
    Created = {p}
    Blocked = {q}
    NoTunnel = NoTunnel
    TunnelCalls <- Requests
    EventCap = 1
    Dests <- MCDests
    NodeOf <- MCNodeOf
    Routed <- Alike
    MaxNodes = 1
    Segments = 1
    NoDest = NoDest
    NoNode = NoNode
    TraceConns <- MCTraceConns
    TraceHosts <- MCTraceHosts
    HostOf <- MCHostOf
    NoHost = "none"
    Answers <- MCAnswers
    Saved = {k1}
    GroupIds = {g1}
    GroupCalls <- Requests
    NoGroup = NoGroup
    NoRow = NoRow
    Ungrouped = Ungrouped
    Passwords <- MCPasswords
    LongPasswords <- Alike
    VaultCalls <- Requests
    NoPassword = NoPassword
    KeyIds <- Alike
    KeyUsers = {k1}
    KeyForms = {"generate"}
    KeyCalls <- Requests
    NoKey = NoKey
    ProxyIds <- Alike
    FirstPort = 1080
    TypedPorts = {1081}
    FormCalls <- Requests
    TabIds <- Alike
    SessionIds = {s1, s2, s3}
    TabCalls <- Requests
    NoTab = NoTab
    NoSession = NoSession
SPECIFICATION Spec
INVARIANTS
    TypeOK
    LiveCardsAreLive
    NoConnectionGoesAstray
    RowsBelongToThePage
    DeletesHitListedPaths
    
    OneRequestPerRow
    CountersBalance
    GraphTellsTheCounts
    ShowsTheLastTrace
    RowsKeepTheirGroups
    GroupListSettles
    EverySecretOpens
    NamedKeysStay
    KeyListSettles
    SuggestedPortsDiffer
    SessionsHaveTabs
SYMMETRY MCSymmetry
\* A page that has used up its requests, ids and events stops.
CHECK_DEADLOCK FALSE
