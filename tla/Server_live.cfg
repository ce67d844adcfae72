SPECIFICATION FairSpec
CONSTANTS
    c1 = c1  c2 = c2  w1 = w1  w2 = w2  l1 = l1  l2 = l2  r1 = r1  a1 = a1
    Conns = {c1}
    Workers = {w1, w2}
    Loops = {l1}
    Runners = {r1}
    Apps = {a1}
    NULL = NULL
    MaxRuns = 1
    MaxStops = 2
    MaxReads = 1
    MaxPayloads = 0
CHECK_DEADLOCK FALSE
PROPERTIES StopCompletes RunReturnsEventually DeadLeavesPool
