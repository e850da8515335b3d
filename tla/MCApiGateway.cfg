CONSTANTS
    t1 = t1  t2 = t2  k1 = k1  NoToken = NoToken
    Tokens <- MCTokens
    Keys <- MCKeys
    TokenKey <- MCTokenKey
    MaxRequests = 2
INIT Init
NEXT Next
INVARIANT OneResponse
CHECK_DEADLOCK FALSE
