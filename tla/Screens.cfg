SPECIFICATION ConfigurationsSpec
CONSTANTS
    a = a
    b = b
    c = c
    e = e
    MAX_NODES = 3
    MAX_DEPTH = 2
    MAX_SCREEN_COUNT = 3
    Clients <- FourClients
    NoOverlay = NoOverlay
    Events = {"build_fails", "overlay"}
    WordBits = 12
    LcdPx = 16
    Channels <- UnitChannels
    UNKNOWN = UNKNOWN
    CONFIGURATION_VERSION = 1
    NoGroup = NoGroup
    Units <- FiveUnits
    SensorIds = {1}
    NoUnit = NoUnit
    Editors <- PairEditors
    NoEditor = NoEditor
INVARIANTS LiveIsAsBuilt EditedIsAsBuilt BuiltIsTold EffectsAreTrue OverlayIsAsStaged AcceptedIsBuilt
PROPERTY HeldSurvives
