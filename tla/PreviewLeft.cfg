SPECIFICATION FairSpec
CONSTANTS
    Token = {t1}
    NoToken = NoToken
    MaxStageSize = 1
    MaxRev = 1
    Handler = {h1}
    NoHandler = NoHandler
    Config = {c1}
    NoConfig = NoConfig
    Broken = Broken
    Events = {"lease_out", "link_drop", "clients_leave", "only_then"}
INVARIANT AskedEndIsDue
PROPERTIES RequestsAreAnswered AbandonedSessionEnds
CHECK_DEADLOCK FALSE
