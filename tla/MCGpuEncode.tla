---------------------------- MODULE MCGpuEncode ----------------------------
(* Two encoders, and two textures besides the one that is rendered to.     *)
EXTENDS GpuEncode, TLC
=============================================================================
