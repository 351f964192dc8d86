SPECIFICATION Spec
CONSTANTS
    Clients = {a, b}
    Server = Server
    Shifted = Shifted
    Noname = Noname
    MAXSEC = 1
    MAXMSGTIME = 0
    TwoDigits = 1
    MAXLISTENTRIES = 4
    MsgNums = {1}
    Skews <- MCSkews
    MaxTime = 2
    MaxCounter = 3
SYMMETRY Symmetry
INVARIANTS
    UniqueIds
PROPERTIES
    BoardSpec
