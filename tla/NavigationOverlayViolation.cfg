SPECIFICATION Spec
CONSTANTS
    Group = {1, 2}
    NoGroup = NoGroup
    Overlay = {o1}
    NoOverlay = NoOverlay
    HistoryDepth = 2
    Configuration <- Whole
    Events = {"preview"}
    MaxDepth = 4
    MaxQueued = 3
    MaxDeferred = 2
INVARIANT NoOverlayIsLeft
