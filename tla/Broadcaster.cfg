SPECIFICATION FairSpec
CONSTANTS
    Subs = {s1, s2}
    BufSize = 1
    MaxEvents = 3
    MaxConnects = 2
INVARIANTS RegisteredIsOpen OpenIsComplete
PROPERTIES LeaversAreClosed
CHECK_DEADLOCK FALSE
