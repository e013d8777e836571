-------------------------- MODULE MCPresenterStage --------------------------
(***************************************************************************)
(* A slide, a video and a camera: enough for a card to follow another      *)
(* before the one before that has been let go.                             *)
(***************************************************************************)
EXTENDS PresenterStage

=============================================================================
