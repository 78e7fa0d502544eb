CONSTANTS
    Site <- MCSite
    Alias <- MCAlias
    Asked <- MCAsked
    Proc = {w1, w2}
    None = None
    CacheTimeout = 2
    MaxDeploys = 1
    MaxEvents = 3
CHECK_DEADLOCK FALSE
SPECIFICATION GraphSpec
SYMMETRY Symmetry
INVARIANTS
    DeploysShowUp
    NeighbourhoodIsWhole
    LatestPictureIsServed
