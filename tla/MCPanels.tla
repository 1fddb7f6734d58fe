------------------------------ MODULE MCPanels ------------------------------
(***************************************************************************)
(* Instances of Panels for TLC.  A buffer of 4 bytes stands for the        *)
(* panel's 10240, and areas of 2, 4, 6 and 8 bytes for those that take one *)
(* chunk, just one, one and a part, and just two.                          *)
(***************************************************************************)
EXTENDS Panels

Area(x, width, height) == [x |-> x, y |-> 0, width |-> width, height |-> height]

\* The panel is 2 wide: an area at 3 is refused.
AreasFlushed == {Area(0, 1, 1), Area(0, 2, 1), Area(1, 1, 3), Area(0, 2, 2), Area(3, 1, 1), Area(0, 0, 1)}

\* A longer area, for pixels after the selection was taken.
LongArea == {Area(0, 2, 3)}

Rectangle(x1, y1, x2, y2) == [x1 |-> x1, y1 |-> y1, x2 |-> x2, y2 |-> y2]

\* A panel 3 wide and 2 high, whose first line of the cache is a row and a third:
\* turned, a column and a block; turned over, a row and the block.
AreasDrawn == {Rectangle(1, 0, 1, 2), Rectangle(0, 1, 2, 1), Rectangle(0, 0, 1, 1)}

=============================================================================
