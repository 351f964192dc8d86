SPECIFICATION Spec
CONSTANTS
    home = home
    away = away
    Places = {home, away}
    Files <- TrackFiles
    GpxFiles <- ShortFiles
    SaveEvery = 2
    Start = 4
    Chunk = 4
    Growth = 3
    Margin = 1
    Burst = 1
    MaxPoints = 5
    MaxMinute = 1
    WritesFail = TRUE
INVARIANTS
    IncrementalOrdered
    OneTimer
    PointsFit
    DrawnComplete
