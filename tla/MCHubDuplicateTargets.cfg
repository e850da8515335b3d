CONSTANTS
    u1 = u1  u2 = u2  iOS = iOS  Web = Web  c1 = c1  c2 = c2  c3 = c3
    Users <- MCUsers
    Platforms <- MCPlatforms
    PushTerminal <- MCPushTerminal
    Conns <- MCConns1
    MaxFanCalls = 1
    MaxKickCalls = 0
    MaxPresCalls = 0
INIT Init
NEXT Next
INVARIANT OneResultPerUser
CHECK_DEADLOCK FALSE
