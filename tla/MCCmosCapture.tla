--------------------------- MODULE MCCmosCapture ----------------------------
(* Full size; below a 32nd of the width and a quarter of the height, with  *)
(* lines that leave a burst of 12 words; and below a 64th.                 *)
EXTENDS CmosCapture

OneThread   == {1}
TwoThreads  == {1, 2}
EightBlocks == 1 .. 8

AllFormats == {[w |-> 640, h |-> 480, bytes |-> 2], [w |-> 12, h |-> 120, bytes |-> 4],
               [w |-> 8, h |-> 8, bytes |-> 2]}
=============================================================================
