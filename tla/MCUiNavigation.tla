--------------------------- MODULE MCUiNavigation ---------------------------
(***************************************************************************)
(* Instances of UiNavigation for TLC.                                      *)
(***************************************************************************)
EXTENDS UiNavigation

Config(groups, start, broken, throws, shown, broken_overlays) ==
    [groups |-> groups, start |-> start, broken |-> broken, throws |-> throws,
     overlays |-> shown, broken_overlays |-> broken_overlays]

\* Three groups, one of which cannot be drawn; two that cannot, one of them by an exception,
\* with a start group that is not there and overlays that cannot be built; a start
\* group that fails before one that does not; nothing to show.
MixedConfigurations ==
    {Config({1, 2, 3}, 1, {2}, {}, Overlay, {}),
     Config({1, 3}, 2, {1, 3}, {3}, Overlay, Overlay),
     Config({2, 3}, 3, {3}, {}, {}, {}),
     Config({}, 1, {}, {}, {}, {})}

Whole == {Config({1, 2}, 1, {}, {}, Overlay, {})}
=============================================================================
