SPECIFICATION FairSpec
CONSTANTS
    c1 = c1  c2 = c2  w1 = w1  w2 = w2  l1 = l1  l2 = l2  r1 = r1  a1 = a1
    Conns = {c1, c2}
    Workers = {w1}
    Loops = {l1}
    Runners = {r1}
    Apps = {}
    NULL = NULL
    MaxRuns = 1
    MaxStops = 0
    MaxReads = 2
    MaxPayloads = 1
CHECK_DEADLOCK FALSE
INVARIANTS StopClosesAll CloseIsKept HandledIsPooled
PROPERTY ServesProtocol
