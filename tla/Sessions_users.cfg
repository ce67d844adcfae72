SPECIFICATION FairSpec
CONSTANTS
    b1 = b1  b2 = b2  w1 = w1  w2 = w2  u1 = u1
    Browsers = {b1, b2}
    Workers = {w1, w2}
    Users = {u1}
    Nobody = Nobody
    Unsure = Unsure
    NULL = NULL
    Timeout = 1
    Prompt = FALSE
    MaxRequests = 3
    MaxRestarts = 1
CHECK_DEADLOCK FALSE
INVARIANTS TypeOK OneBrowserPerSession LoginIsRemembered
PROPERTIES Answered SessionsExpire
