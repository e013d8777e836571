------------------------- MODULE MCPresenterLibrary -------------------------
(* Two presentations are remembered, one more can be imported, and the     *)
(* process may die twice.                                                  *)
EXTENDS PresenterLibrary, TLC

\* The slides of a presentation are alike.
SlideSymmetry == Permutations(Slides)
=============================================================================
