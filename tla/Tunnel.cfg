SPECIFICATION FairSpec
CONSTANTS
    Conns = {c1}
    MaxWrites = 2
    MaxReplies = 1
    BufSize = 1
    None = None
INVARIANTS ReadsWhatWasWritten
PROPERTIES TargetGetsAll TunnelDrains CloseEndsPipe
CHECK_DEADLOCK FALSE
