------------------------ MODULE MCAdaptiveController ------------------------
(***************************************************************************)
(* The controller with shorter limits and short ranges, whose ladders down *)
(* and up still need several changes; one of them has a minimum above the  *)
(* bitrate of the user.                                                    *)
(***************************************************************************)
EXTENDS AdaptiveController

ShortRanges == {<<2000, 1800>>, <<900, 1800>>}

=============================================================================
