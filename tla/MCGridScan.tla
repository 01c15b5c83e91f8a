----------------------------- MODULE MCGridScan -----------------------------
(***************************************************************************)
(* Three parameters: bounds that are and that are not multiples of the     *)
(* steps.                                                                  *)
(***************************************************************************)
EXTENDS GridScan

ThreeUpper == <<2, 3, 2>>
ThreeWidths == <<1, 2, 1>>
ThreeParameters == [1 .. 3 -> 0 .. 4]
ThreeLowerBounds == <<0, 0, 0>>
=============================================================================
