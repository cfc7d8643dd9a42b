SPECIFICATION FairSpec
CONSTANTS
    t1 = t1
    t2 = t2
    Types = {t1, t2}
    Layers <- MCLayers
    MaxEvents = 2
INVARIANTS NobodySendsInVain GapEndsSubscription
PROPERTIES EndsTogether
