CONSTANTS
    N = 2
    MaxPings = 3
    MaxRounds = 3
    MaxStops = 3
    Adapters = {a1, a2}
    MaxReplies = 2
SPECIFICATION PartsSpec
INVARIANTS
    PartsTypeOK
    PingsAccounted
    OneWrite
    NoDestinationStalls
    PingingGoesOn
    RoundFlagsAgree
    AllOrNothing
PROPERTIES
    RoundImplemented
    KillswitchHolds
    CommandsDelivered
