SPECIFICATION FairSpec
CONSTANTS
    Clients = {a, b}
    Server = Server
    Shifted = Shifted
    Noname = Noname
    MAXSEC = 1
    MAXMSGTIME = 0
    TwoDigits = 1
    MAXLISTENTRIES = 4
    MsgNums = {1}
    Skews <- MCSlow
    MaxTime = 1
    MaxCounter = 1
PROPERTIES
    OldLeaves
