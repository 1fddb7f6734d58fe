------------------------------- MODULE MCWidgets -------------------------------
(***************************************************************************)
(* Widgets for TLC: a control of each kind with a group to go to, a swipe  *)
(* that navigates and one that does not, and two fingers; a box on a grid  *)
(* that does not divide the screen, with and without spacing; and a dial   *)
(* over three values, plain, animated, and with an animated needle.        *)
(***************************************************************************)
EXTENDS Widgets, TLC

TestGrids == {[width |-> 3, height |-> 3, spacing |-> s] : s \in {0, 1}}

TestBoxes ==
    {[x |-> 0, y |-> 0, width |-> 1, height |-> 1],
     [x |-> 1, y |-> 1, width |-> 2, height |-> 1],
     [x |-> 2, y |-> 2, width |-> 2, height |-> 2]}

TestPublished == {-9, 0, 1, 2, 9}

Symmetry == Permutations(Fingers)

Dials ==
    {[animation |-> [dial |-> "none", needle |-> "none"],
      bound |-> [dial |-> {"VALUE", "IS_ACTIVE"}, needle |-> {"IS_VISIBLE"}]],
     [animation |-> [dial |-> "rotation", needle |-> "blinking"],
      bound |-> [dial |-> {"IS_VISIBLE", "IS_ANIMATION_ACTIVE"}, needle |-> {"IS_ANIMATION_ACTIVE"}]],
     [animation |-> [dial |-> "none", needle |-> "blinking"],
      bound |-> [dial |-> {"VALUE"}, needle |-> {"IS_ANIMATION_ACTIVE"}]]}

=============================================================================
