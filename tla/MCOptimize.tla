----------------------------- MODULE MCOptimize -----------------------------
(***************************************************************************)
(* Instances of Optimize for TLC, with the values of MCTrack.  No sample   *)
(* may be empty: the reference of ChunksInTimeOrder tells the first sample *)
(* of a chunk by its bytes.                                                *)
(***************************************************************************)
EXTENDS MCTrack, Optimize
=============================================================================
