----------------------------- MODULE MCUvcQueue -----------------------------
(* The bounds are plain numbers, given in the cfg files.                   *)
EXTENDS UvcRefinement
=============================================================================
