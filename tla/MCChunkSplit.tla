---------------------------- MODULE MCChunkSplit ----------------------------
(***************************************************************************)
(* Model checking of chunk.Split over bounded texts and parameters: zero,  *)
(* negative and oversized ones, and sizes on both sides of a multiple of   *)
(* 8, where the overlap that replaces a bad one changes.                   *)
(***************************************************************************)
EXTENDS ChunkSplit

MCWordCounts == 0..24
MCSizes == -1..17
MCOverlaps == -1..18

=============================================================================
