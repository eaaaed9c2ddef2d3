--------------------------- MODULE UvcRefinement ----------------------------
(***************************************************************************)
(* The UVC driver implements CaptureQueue: mainqueue is the queue of the   *)
(* filled buffers followed by that of the waiting ones.                    *)
(***************************************************************************)
EXTENDS UvcQueue

InState(s) == Kept(mainqueue, {b \in Buffers : bstate[b] = s})

Held == {b \in 1 .. count : bstate[b] = "IDLE"}

Capture == INSTANCE CaptureQueue WITH
  held      <- Held,
  waiting   <- InState("QUEUED"),
  filled    <- InState("DONE"),
  streaming <- on,
  broken    <- ~Undisturbed \/ fault

(* Whatever the application does and however the packets of a frame come   *)
(* in, buffers are filled in the order of QBUF, only between STREAMON and  *)
(* STREAMOFF, and DQBUF hands them out in the order they were filled, until *)
(* ioctl and handler overlap or a URB is lost.                             *)
ImplementsCapture == Capture!Spec

=============================================================================
