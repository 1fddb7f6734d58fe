-------------------------- MODULE UiRendererService --------------------------
(***************************************************************************)
(* The rotated display: LVGL draws areas of the screen as the driver sees  *)
(* it turned, and RotatedFlushCb() puts each into the one frame the panel  *)
(* scans out, with the PPA when it takes the area and on the CPU when not. *)
(* All of it runs on the renderer's thread, under the LVGL lock.           *)
(*                                                                         *)
(* A pixel is the point it was drawn for and a version: pixels that land   *)
(* in another place, or not at all, differ from what should be there.      *)
(*                                                                         *)
(* The CPU writes the frame in its cache, and whole lines of it go to      *)
(* memory: at the latest when display_write() hands the frame over, or as  *)
(* they are evicted.  The PPA writes memory, and the scanout reads it.     *)
(* Nothing keeps a line that both wrote to from losing what one of them    *)
(* put there.                                                              *)
(***************************************************************************)
EXTENDS Integers, Sequences

CONSTANTS
    panel_width, panel_height,
    rotation_tile_,
    line_pixels,            \* in a line of the cache
    Rotations,              \* degrees, as CONFIG_EERIE_LEAP_UI_ROTATION may be
    Areas,                  \* what LVGL may draw again, before the turn
    MaxAreas,               \* bound: areas of one refresh
    Versions,
    Accelerators,           \* BOOLEAN: whether the PPA takes the area
    NotCached

ASSUME TileAssumption == rotation_tile_ \in Nat \ {0}
ASSUME LineAssumption == line_pixels \in Nat \ {0}
ASSUME PanelSizeAssumption == panel_width \in Nat \ {0} /\ panel_height \in Nat \ {0}
ASSUME RotationsAssumption == Rotations \subseteq {90, 180, 270}
ASSUME AreasAssumption ==
    \A a \in Areas : {a.x1, a.y1, a.x2, a.y2} \subseteq Nat /\ a.x1 <= a.x2 /\ a.y1 <= a.y2
ASSUME VersionsAssumption == Versions # {}
ASSUME NotCachedAssumption == NotCached \notin [point : Int \X Int, version : Versions]

VARIABLES
    rotation,
    screen,                 \* the version LVGL drew last at each point
    to_flush,               \* the areas of this refresh that are not flushed yet
    frame,                  \* in memory: what the panel scans out
    cache,                  \* of the frame, at each of its points
    dirty,                  \* the lines that are not written back
    writers                 \* auxiliary: who turned points of each line, since the CPU last wrote all of it

frameVars == <<frame, cache, dirty, writers>>
rendererVars == <<rotation, screen, to_flush, frameVars>>

IsQuarterTurn == rotation \in {90, 270}
Width == IF IsQuarterTurn THEN panel_height ELSE panel_width
Height == IF IsQuarterTurn THEN panel_width ELSE panel_height
Points(width, height) == {<<x, y>> : x \in 0 .. width - 1, y \in 0 .. height - 1}
Panel == Points(panel_width, panel_height)
Screen == Points(Width, Height)

AreaWidth(area) == area.x2 - area.x1 + 1
AreaHeight(area) == area.y2 - area.y1 + 1
Covers(area, p) == p[1] \in area.x1 .. area.x2 /\ p[2] \in area.y1 .. area.y2
IsOnScreen(area) == area.x2 < Width /\ area.y2 < Height

\* lv_display_rotate_area().
RotateArea(area) ==
    CASE rotation = 90 -> [x1 |-> area.y1, x2 |-> area.y2,
                           y1 |-> panel_height - area.x2 - 1, y2 |-> panel_height - area.x1 - 1]
      [] rotation = 180 -> [x1 |-> panel_width - area.x2 - 1, x2 |-> panel_width - area.x1 - 1,
                            y1 |-> panel_height - area.y2 - 1, y2 |-> panel_height - area.y1 - 1]
      [] OTHER -> [x1 |-> panel_width - area.y2 - 1, x2 |-> panel_width - area.y1 - 1,
                   y1 |-> area.x1, y2 |-> area.x2]

\* Where lv_draw_sw_rotate() and the PPA put a point of a width by height area.
Turned(p, width, height) ==
    CASE rotation = 90 -> <<p[2], width - p[1] - 1>>
      [] rotation = 180 -> <<width - p[1] - 1, height - p[2] - 1>>
      [] OTHER -> <<height - p[2] - 1, p[1]>>

-----------------------------------------------------------------------------
Least(a, b) == IF a < b THEN a ELSE b
Tiles(length) == {t \in 0 .. length - 1 : t % rotation_tile_ = 0}

\* A mistake it could have, which nothing uses: each tile's rows are counted from
\* the end of the tile.
FaultyTileRow(x, y, tile_y, width, height, clockwise) ==
    IF clockwise THEN <<y, width - x - 1>>
    ELSE <<Least(tile_y + rotation_tile_, height) - (y - tile_y) - 1, x>>

\* Where the inner loop writes: a destination row for each source column, filled
\* forwards from the tile's first row or backwards from it.
TileRow(x, y, tile_y, width, height, clockwise) ==
    IF clockwise THEN <<tile_y + (y - tile_y), width - x - 1>>
    ELSE <<(height - tile_y - 1) - (y - tile_y), x>>

\* RotateTiledRgb565(): where each point of the source goes.
RotateTiledRgb565(width, height, clockwise) ==
    UNION {UNION {
        {<<<<x, y>>, TileRow(x, y, tile_y, width, height, clockwise)>> :
            x \in tile_x .. Least(tile_x + rotation_tile_, width) - 1,
            y \in tile_y .. Least(tile_y + rotation_tile_, height) - 1} :
        tile_y \in Tiles(height)} : tile_x \in Tiles(width)}

\* Rotate(): quarter turns by tiles, others by LVGL.
Rotate(width, height) ==
    IF IsQuarterTurn
    THEN RotateTiledRgb565(width, height, rotation = 90)
    ELSE {<<p, Turned(p, width, height)>> : p \in Points(width, height)}

RotateAccelerated(width, height) ==
    {<<p, Turned(p, width, height)>> : p \in Points(width, height)}

\* The pixels of an area, at their places on the panel.
Pixels(area, version, moves) ==
    LET rotated == RotateArea(area)
        Place(m) == <<rotated.x1 + m[2][1], rotated.y1 + m[2][2]>>
    IN  [q \in {Place(m) : m \in moves} \cap Panel |->
            LET p == (CHOOSE m \in moves : Place(m) = q)[1]
            IN  [point |-> <<area.x1 + p[1], area.y1 + p[2]>>, version |-> version]]

-----------------------------------------------------------------------------
\* The frame is as the panel scans it, row after row.
Line(q) == (q[2] * panel_width + q[1]) \div line_pixels
PointsOf(line) == {q \in Panel : Line(q) = line}
Lines == {Line(q) : q \in Panel}
Touched(pixels) == {Line(q) : q \in DOMAIN pixels}

Overlaid(pixels, below) == [q \in Panel |-> IF q \in DOMAIN pixels THEN pixels[q] ELSE below[q]]

\* What the CPU reads.
Cached == [q \in Panel |-> IF cache[q] = NotCached THEN frame[q] ELSE cache[q]]

\* The lines the CPU writes to are in its cache from then on.
ByCpu(pixels) ==
    [frame |-> frame,
     cache |-> [q \in Panel |->
                    IF Line(q) \in Touched(pixels) THEN Overlaid(pixels, Cached)[q] ELSE cache[q]],
     dirty |-> dirty \cup Touched(pixels),
     writers |-> [line \in Lines |->
                    CASE line \notin Touched(pixels) -> writers[line]
                      [] PointsOf(line) \subseteq DOMAIN pixels -> {"cpu"}
                      [] OTHER -> writers[line] \cup {"cpu"}]]

ByPpa(pixels) ==
    [frame |-> Overlaid(pixels, frame),
     cache |-> cache,
     dirty |-> dirty,
     writers |-> [line \in Lines |->
                    writers[line] \cup IF line \in Touched(pixels) THEN {"ppa"} ELSE {}]]

WrittenBack(lines, memory, cached) ==
    [q \in Panel |-> IF Line(q) \in lines THEN cached[q] ELSE memory[q]]

\* A line leaves the cache for another whenever the CPU needs the room.
Evict(line) ==
    /\ \E q \in PointsOf(line) : cache[q] # NotCached
    /\ frame' = WrittenBack(dirty \cap {line}, frame, cache)
    /\ cache' = [q \in Panel |-> IF Line(q) = line THEN NotCached ELSE cache[q]]
    /\ dirty' = dirty \ {line}
    /\ UNCHANGED <<rotation, screen, to_flush, writers>>

-----------------------------------------------------------------------------
WholeScreen == [x1 |-> 0, y1 |-> 0, x2 |-> Width - 1, y2 |-> Height - 1]

\* InitializeRotation(): a black frame, and LVGL has all of the screen to draw.
RendererInit ==
    /\ rotation \in Rotations
    /\ screen = [p \in Screen |-> CHOOSE v \in Versions : TRUE]
    /\ to_flush = <<[area |-> WholeScreen, version |-> CHOOSE v \in Versions : TRUE]>>
    /\ frame = [q \in Panel |-> [point |-> <<-1, -1>>, version |-> CHOOSE v \in Versions : TRUE]]
    /\ cache = frame
    /\ dirty = {}
    /\ writers = [line \in Lines |-> {}]

\* LVGL draws some areas again, one after the other.
Draws(drawn) ==
    [p \in Screen |->
        LET Over == {i \in DOMAIN drawn : Covers(drawn[i].area, p)}
        IN  IF Over = {} THEN screen[p]
            ELSE drawn[CHOOSE i \in Over : \A j \in Over : j <= i].version]

Render ==
    /\ to_flush = <<>>
    /\ \E n \in 1 .. MaxAreas :
        \E drawn \in [1 .. n -> [area : {a \in Areas : IsOnScreen(a)}, version : Versions]] :
            /\ screen' = Draws(drawn)
            /\ to_flush' = drawn
    /\ UNCHANGED <<rotation, frameVars>>

\* The next area, by the PPA or, when it is not there or rejects it, by the CPU.
\* After the last, display_write() has what the CPU wrote in memory, and the
\* panel scans out the one frame there is.
RotatedFlushCb ==
    /\ to_flush # <<>>
    /\ LET next == Head(to_flush)
           width == AreaWidth(next.area)
           height == AreaHeight(next.area)
           is_last == Tail(to_flush) = <<>>
       IN  \E accelerated \in Accelerators :
            LET turned ==
                    IF accelerated
                    THEN ByPpa(Pixels(next.area, next.version, RotateAccelerated(width, height)))
                    ELSE ByCpu(Pixels(next.area, next.version, Rotate(width, height)))
            IN  /\ frame' = WrittenBack(IF is_last THEN turned.dirty ELSE {}, turned.frame, turned.cache)
                /\ dirty' = IF is_last THEN {} ELSE turned.dirty
                /\ cache' = turned.cache
                /\ writers' = turned.writers
    /\ to_flush' = Tail(to_flush)
    /\ UNCHANGED <<rotation, screen>>

RendererNext == Render \/ RotatedFlushCb \/ \E line \in Lines : Evict(line)

-----------------------------------------------------------------------------
\* Where the CPU turned one area and the PPA another, the two disagree over a line
\* of the cache they share (ui_renderer_service.cpp:194).
IsShared(line) == {"cpu", "ppa"} \subseteq writers[line]

\* Once a refresh is flushed, the panel shows every point of the screen where
\* the whole screen turned would have it, whichever areas were drawn, whether
\* the PPA or the CPU turned each of them and whenever the cache is evicted: all
\* but the points whose line both of them wrote to since the CPU last wrote the
\* whole of it, of which the code promises nothing.
FrameIsTheScreen ==
    to_flush = <<>> =>
        \A p \in Screen :
            LET q == Turned(p, Width, Height)
            IN  ~IsShared(Line(q)) => frame[q] = [point |-> p, version |-> screen[p]]

=============================================================================
