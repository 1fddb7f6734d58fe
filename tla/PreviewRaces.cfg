SPECIFICATION Spec
CONSTANTS
    Token = {t1, t2}
    NoToken = NoToken
    MaxStageSize = 2
    MaxRev = 2
    Handler = {h1, h2}
    NoHandler = NoHandler
    Config = {c1}
    NoConfig = NoConfig
    Broken = Broken
    Events = {"queue_fails"}
SYMMETRY Symmetry
VIEW LiveView
INVARIANTS ApplyExclusive ApplyKeepsItsSession TransferFits
PROPERTIES RevGoesForward
