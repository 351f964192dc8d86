SPECIFICATION FairSpec
CONSTANTS
    Parts <- AllParts
    Friends = {f}
    Networks = {n}
    Waypoints = {w}
    RoutePoints = {r}
    Ids <- TwoIds
    OsmIds <- TwoIds
    MaxResults = 2
    Views = {here, there}
    NoView = NoView
    HomeView = here
    Categories = {food}
    Limit = 2
    Grow = 1
    ViewMax = 1
    MaxPoints = 5
    NoLine = NoLine
    Files = {home, other}
    Names = {w1, w2}
    NoComment = NoComment
    Comment = Comment
    Garbage = NoComment
    Room = 1
    MaxLines = 2
    MaxNow = 2
    SameSecond = FALSE
INVARIANTS
    ExtrasBelong
    DrawnBelongs
    ListFits
    OwnKept
PROPERTIES
    DeletesChosen
    Reconnects
