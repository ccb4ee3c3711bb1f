CONSTANTS
    s1 = s1
    s2 = s2
    o1 = o1
    o2 = o2
    user = user
    NoServer = NoServer
    NoLogin = NoLogin
    NotCopied = NotCopied
    SettingsSpace <- OneServer
    MaxAttempts = 1
    MaxRequests = 1
    MaxBacklog = 10
SPECIFICATION FairSpec
PROPERTIES
    Relaunches
    InterruptionEnds
    DisconnectEnds
