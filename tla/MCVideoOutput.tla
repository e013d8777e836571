---------------------------- MODULE MCVideoOutput ----------------------------
(* Instances of VideoOutput.  Inputs other than "full" take every second     *)
(* frame.                                                                     *)
EXTENDS VideoOutput, TLC

MCDivisor == [i \in Inputs |-> IF i = "full" THEN 1 ELSE 2]
=============================================================================
