SPECIFICATION Spec
CONSTANTS
    Token = {t1}
    NoToken = NoToken
    MaxStageSize = 1
    MaxRev = 1
    Handler = {h1}
    NoHandler = NoHandler
    Config = {c1}
    NoConfig = NoConfig
    Broken = Broken
    Events = {"store", "queue_fails", "show_fails"}
SYMMETRY Symmetry
VIEW LiveView
INVARIANT RebuildIsQueued
