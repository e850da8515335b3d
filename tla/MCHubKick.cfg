CONSTANTS
    u1 = u1  u2 = u2  iOS = iOS  Web = Web  c1 = c1  c2 = c2  c3 = c3
    Users <- MCUsers
    Platforms <- MCPlatforms
    PushTerminal <- MCPushTerminal
    Conns <- MCConns3
    MaxFanCalls = 0
    MaxKickCalls = 1
    MaxPresCalls = 0
INIT Init
NEXT Next
SYMMETRY MCSymmetry3
INVARIANT KickEffective
CHECK_DEADLOCK FALSE
