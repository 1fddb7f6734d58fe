SPECIFICATION Spec
CONSTANTS
    Token = {t1, t2}
    NoToken = NoToken
    MaxStageSize = 1
    MaxRev = 2
    Handler = {h1}
    NoHandler = NoHandler
    Config = {c1, c2}
    NoConfig = NoConfig
    Broken = Broken
    Events = {"store"}
SYMMETRY Symmetry
VIEW LiveView
INVARIANT StoreShowsWhatItStored
