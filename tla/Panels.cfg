SPECIFICATION FairSpec
CONSTANTS
    Users = {"flush", "service"}
    Nobody = Nobody
    SINGLE = SINGLE
    QUAD_1_1_4 = QUAD_1_1_4
    NoCommand = NoCommand
    NoOp = NoOp
    HardwareFaults = {"stuck", "cs_fails", "dma_fails", "init_fails"}
    max_buf_size = 4
    BytesPerPixel = 2
    panel_x = 2
    panel_y = 2
    orientation = "NORMAL"
    Writes <- AreasFlushed
    panel_width = 3
    panel_height = 2
    rotation_tile_ = 2
    line_pixels = 4
    NotCached = NotCached
    Rotations = {90, 180, 270}
    Areas <- AreasDrawn
    MaxAreas = 2
    Versions = {0, 1}
    Accelerators = {TRUE, FALSE}
    Boards = {"amoled", "lcd"}
CHECK_DEADLOCK FALSE
PROPERTY EveryCallReturns
INVARIANTS LinesAreAsked DoneIsOwn LeftUnselected FrameIsTheScreen
