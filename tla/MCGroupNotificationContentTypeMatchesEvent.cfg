CONSTANTS
    u1 = u1  u2 = u2  u3 = u3
    Users <- MCUsers
    AppAdmins <- MCAppAdmins
    MaxCalls = 1
INIT Init
NEXT Next
INVARIANT ContentTypeMatchesEvent
