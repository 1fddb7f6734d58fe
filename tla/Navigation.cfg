SPECIFICATION Spec
CONSTANTS
    Group = {1, 2, 3}
    NoGroup = NoGroup
    Overlay = {o1, o2}
    NoOverlay = NoOverlay
    HistoryDepth = 2
    Configuration <- MixedConfigurations
    Events = {"rebuild", "preview"}
    MaxDepth = 2
    MaxQueued = 2
    MaxDeferred = 2
INVARIANTS AskedGroupIsShown OneGroupVisible HistoryLeadsBack TrackedOverlayIsOnTop
PROPERTY AskedGroupStands
