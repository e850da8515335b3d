CONSTANTS
    u1 = u1  u2 = u2  iOS = iOS  Web = Web  c1 = c1  c2 = c2  c3 = c3
    Users <- MCUsers
    Platforms <- MCPlatforms
    PushTerminal <- MCPushTerminal
    Conns <- MCConns2
    MaxFanCalls = 0
    MaxKickCalls = 0
    MaxPresCalls = 1
INIT Init
NEXT Next
SYMMETRY MCSymmetry2
INVARIANT PresenceComplete
CHECK_DEADLOCK FALSE
