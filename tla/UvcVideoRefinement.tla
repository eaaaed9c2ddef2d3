------------------------- MODULE UvcVideoRefinement -------------------------
(***************************************************************************)
(* The UVC driver of Linux implements CaptureQueue: mainqueue is the queue *)
(* of the filled buffers followed by that of the waiting ones; a buffer in *)
(* error is the application's already, though DQBUF has yet to say so.     *)
(***************************************************************************)
EXTENDS UvcVideoQueue, Lists

Held    == {b \in 1 .. count : bstate[b] \in {"IDLE", "ERROR"}}
Waiting == Kept(mainq, {b \in Buffers : bstate[b] \in {"QUEUED", "ACTIVE"} \/ Unsettled(b)})
Filled  == Kept(mainq, {b \in Buffers : bstate[b] = "DONE" /\ ~Unsettled(b)})

Capture == INSTANCE CaptureQueue WITH
  held      <- Held,
  waiting   <- Waiting,
  filled    <- Filled,
  streaming <- on,
  broken    <- overtaken \/ corrupt

(* In any order of calls, through failures, unplugging and suspending,     *)
(* buffers are filled in the order of QBUF, only between STREAMON and      *)
(* STREAMOFF, and handed out in that order; until DQBUF takes a buffer     *)
(* that looks DONE before the handler is through with it, or REQBUFS or    *)
(* QBUF clears or links again what is still linked.                        *)
ImplementsCapture == Capture!Spec

=============================================================================
