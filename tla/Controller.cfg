SPECIFICATION MCSpec
CONSTANTS
    h1 = h1
    h2 = h2
    Keys = {k1}
    Handlers = {h1, h2}
    Workers = {w1, w2}
    MaxVersion = 2
    MaxStarts = 2
    MaxFailures = 2
INVARIANTS ChangeIsPending
PROPERTIES CallsInOrder HandlersCatchUp
CHECK_DEADLOCK FALSE
