CONSTANTS
    s1 = s1
    s2 = s2
    o1 = o1
    o2 = o2
    user = user
    c1 = c1
    c2 = c2
    NoServer = NoServer
    NoLogin = NoLogin
    NotCopied = NotCopied
    NoView = NoView
    SettingsSpace <- OneServer
    MaxAttempts = 1
    MaxRequests = 1
    MaxBacklog = 2
    Clients <- TwoClients
    FirewallModes = {"on"}
    Incoming = {"Connect", "Open", "Close", "Terminate"}
    GarbageFlags <- AnyFlags
SPECIFICATION DaemonSpec
SYMMETRY Symmetric
INVARIANTS
    DaemonTypeOK
    ShutdownPending
    KillswitchOffAtExit
