--------------------------- MODULE MCOutputPause ---------------------------
(* Two video encoders and an audio encoder.                                *)
EXTENDS OutputPause, TLC

\* Segments shorter and longer than a frame interval, and first frames at
\* every distance from them.
MCShapes == [segment : {2, 5}, tick : {1, 2, 3}]
OneShape == [segment : {5}, tick : {3}]
=============================================================================
