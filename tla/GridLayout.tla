------------------------------ MODULE GridLayout ------------------------------
(***************************************************************************)
(* Boxes in the cells of a screen's grid, y from the bottom, and what they *)
(* are in pixels, y from the top.                                          *)
(*                                                                         *)
(* The source computes in uint32_t and casts what comes out to int, which  *)
(* is the same number as long as the screen has fewer than 2^31 pixels.    *)
(***************************************************************************)
EXTENDS Integers

CONSTANT LcdPx                  \* the pixels of each side of the screen

ASSUME LcdPxAssumption == LcdPx \in Nat \ {0}

Within(value, low, high) == IF value < low THEN low ELSE IF value > high THEN high ELSE value

\* What the constructor takes; any other grid it refuses.
IsLayout(grid) == grid.width \in 1 .. LcdPx /\ grid.height \in 1 .. LcdPx

\* A box of the whole grid takes the whole screen, with no spacing.
ExtentPx(cells, of, spacing) ==
    IF cells = of THEN LcdPx ELSE (LcdPx \div of) * cells - 2 * spacing

SizePx(grid, width, height) ==
    [width |-> ExtentPx(width, grid.width, grid.spacing), height |-> ExtentPx(height, grid.height, grid.spacing)]

\* The step from one cell to the next.
StepPx(of, spacing) == LcdPx \div of + 2 * spacing

Distance(a, b) == IF a > b THEN a - b ELSE b - a

BoxPx(grid, box) ==
    LET size == SizePx(grid, box.width, box.height)
    IN  [x |-> StepPx(grid.width, grid.spacing) * box.x,
         y |-> Distance(LcdPx, StepPx(grid.height, grid.spacing) * box.y + size.height),
         width |-> size.width, height |-> size.height]

\* What the validator asks of the box of a root widget: it may overhang the grid.
ValidateBox(grid, box) ==
    /\ box.width \in 1 .. grid.width
    /\ box.height \in 1 .. grid.height
    /\ box.x \in 0 .. grid.width - 1
    /\ box.y \in 0 .. grid.height - 1

=============================================================================
