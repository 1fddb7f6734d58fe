SPECIFICATION FairSpec
CONSTANTS
    BRIGHTNESS_MIN = 1
    BRIGHTNESS_MAX = 3
    Requests <- Asked
    Sensed <- SensedHigh
    NoNumber = NoNumber
    NoSensor = NoSensor
    ambient = ambient
    Stores <- StoredByClients
    MaxEvents = 1
    Events = {"driver_fails", "write_fails", "restart"}
PROPERTY QuietChangeIsWritten
INVARIANTS ChosenIsStored FollowsWhatIsConfigured
