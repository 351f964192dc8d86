SPECIFICATION FairSpec
CONSTANTS
    Parts <- AllParts
    None = None
    Fix = Fix
    Dgps = Dgps
    MaxTimers = 2
    Directions = {ahead, left}
    MaxTalkers = 2
    Capacities <- Percents
    Full = 100
INVARIANTS
    OneReader
    SimulatesWithout
    LevelKnown
PROPERTIES
    Announced
