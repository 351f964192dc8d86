SPECIFICATION FairSpec
CONSTANTS
    m1 = m1
    m2 = m2
    own = own
    system = system
    Maps = {m1}
    Nasa = Nasa
    NoFile = NoFile
    Unwritten = Unwritten
    Dirs = {own, system}
    ReadOnly = {}
    HomeDir = own
    NoMaps = NoMaps
    HaveNasa = FALSE
    SameSecond = FALSE
    MaxMaps = 2
    MaxOpen = 1
    MaxTime = 3
INVARIANT
    InSync
PROPERTY
    Settles
