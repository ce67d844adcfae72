SPECIFICATION Spec
CONSTANTS
    w1 = w1  w2 = w2  w3 = w3  p1 = p1  p2 = p2
    Workers = {w1, w2, w3}
    Pushers = {p1, p2}
    Stopper = stopper
    NULL = NULL
    MaxPushes = 2
CHECK_DEADLOCK FALSE
INVARIANTS EveryMessageHasATaker OneNull
PROPERTIES ImplementsQueue WorkersStop
