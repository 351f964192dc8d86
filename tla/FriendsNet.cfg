SPECIFICATION FairSpec
CONSTANTS
    Clients = {a, b}
    Server = Server
    Shifted = Shifted
    Noname = Noname
    MAXSEC = 1
    MAXMSGTIME = 0
    TwoDigits = 100
    MAXLISTENTRIES = 5
    Writers = {a}
    MaxTexts = 2
    MaxNumber = 2
    MaxCounter = 2
INVARIANTS
    ForgottenIsStored
    ConfirmedIsShown
    AnswersArePolled
PROPERTIES
    MessagesAreShown
