SPECIFICATION MirrorSpec
CONSTANTS
    MaxRequests = 3
    Keys = {"settings", "state"}
    Setting = "settings"
    MaxChanges = 3
    MaxCalls = 2
    MaxUnread = 2
INVARIANTS
    MirrorTypeOK
    RequestsKept
    MirrorsFollow
    ReadYourWrites
PROPERTY Reconnects
CHECK_DEADLOCK FALSE
