SPECIFICATION Spec
CONSTANTS
    c1 = c1  c2 = c2  w1 = w1  w2 = w2  l1 = l1  l2 = l2  r1 = r1  a1 = a1
    Conns = {c1}
    Workers = {w1, w2}
    Loops = {l1, l2}
    Runners = {r1}
    Apps = {a1}
    NULL = NULL
    MaxRuns = 2
    MaxStops = 1
    MaxReads = 2
    MaxPayloads = 0
CHECK_DEADLOCK FALSE
INVARIANTS TypeOK OneOwner NoLostConnection WorkersServe AcceptAlive
PROPERTIES ImplementsProtocol UsesWorkQueue
SYMMETRY Alike
