SPECIFICATION WidgetsSpec
CONSTANTS
    MaxValue = 2
    NoObject = NoObject
    NoTarget = NoTarget
    NotAsked = NotAsked
    Absent = Absent
    Kinds = {"toggle", "slider", "button", "box"}
    LcdPx = 16
    NoBox = NoBox
    NoGrid = NoGrid
    LayoutLimit = 4
    Grids <- TestGrids
    Boxes <- TestBoxes
    Published <- TestPublished
    Targets = {g1}
    Directions = {"left", "up"}
    Mapped = {"left"}
    Fingers = {f1, f2}
    NoFinger = NoFinger
    MaxReports = 1
    NoAngle = NoAngle
    NotEasing = NotEasing
    NoTree = NoTree
    Configurations <- Dials
SYMMETRY Symmetry
INVARIANTS AsksAreOfWhatIsStored PressIsReleased ContactActsOnce PointerIsOneFinger StillIsAtRest
PROPERTY FramesShowWhatIsConfigured FramesShowTheValue MovesWhenSeen
