----------------------------- MODULE MCAoiViews -----------------------------
(* A small instance of AoiViews.  One row of three cells gives the         *)
(* distances 0, 1 and 2; the positions lie on both sides of cell borders.  *)
EXTENDS AoiViews

Strip == {<<0, 0>>, <<3, 0>>, <<5, 0>>}
=============================================================================
