SPECIFICATION Spec
CONSTANTS
    p1 = p1
    p2 = p2
    r1 = r1
    Demands <- MCDemands
    Near <- MCNear
    Renderers <- MCRenderers
    Origin = Origin
    NoScale = NoScale
    None = None
    Null = Null
    Torn = Torn
    Freed = Freed
    Raw = Raw
    Maps <- MCMaps
    Fragile <- MCFragile
    Imports <- MCImports
    World <- MCWorld
    Plain <- MCPlain
    Boxes <- MCBoxes
    Half = 6
    Widths <- MCWidths
    Positions <- MCPositions
    Scales <- MCScales
    ZoomMax = 2
    MaxShift = 2
    Spots <- MCSpots
    Places <- MCSpots
    Sources <- MCSources
    Tiled <- MCTiled
    Zooms <- MCZooms
    MaxWindows = 2
INVARIANT CacheTrue
INVARIANT PictureFits
INVARIANT MarkerInView
INVARIANT FetchFits
PROPERTY WantedIsRendered
PROPERTY PositionReturns
