-------------------------- MODULE MCLayoutProperty --------------------------
(***************************************************************************)
(* LayoutProperty with two containers that do layout and one that does     *)
(* not, and values of each kind.                                           *)
(***************************************************************************)
EXTENDS LayoutProperty

CONSTANTS box, window, split, half, sibling, px5, px9

MCContainers == {box, window, split}
MCIgnoring == {split}
MCScalars == {px5, px9}
MCPercents == {half}
MCSiblings == {sibling}
=============================================================================
