--------------------------- MODULE MCUvcVideoQueue ---------------------------
(* The bounds are plain numbers, given in the cfg file.                    *)
EXTENDS UvcVideoRefinement
=============================================================================
