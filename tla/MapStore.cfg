SPECIFICATION Spec
CONSTANTS
    m1 = m1
    m2 = m2
    own = own
    system = system
    Maps = {m1, m2}
    Nasa = Nasa
    NoFile = NoFile
    Unwritten = Unwritten
    Dirs = {own, system}
    ReadOnly = {system}
    HomeDir = own
    NoMaps = NoMaps
    HaveNasa = TRUE
    SameSecond = TRUE
    MaxMaps = 2
    MaxOpen = 1
    MaxTime = 2
SYMMETRY Renamings
INVARIANTS
    NoPhantom
PROPERTY
    DownloadKeeps
