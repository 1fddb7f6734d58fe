SPECIFICATION Spec
CONSTANTS
    Token = {t1, t2}
    NoToken = NoToken
    MaxStageSize = 1
    MaxRev = 1
    Handler = {h1}
    NoHandler = NoHandler
    Config = {c1, c2}
    NoConfig = NoConfig
    Broken = Broken
    Events = {"lease_out", "link_drop", "show_fails", "alloc_fails"}
SYMMETRY Symmetry
VIEW LiveView
INVARIANTS TypeOK NothingLeftBehind EndShowsStored StagedIsShown
