------------------------- MODULE VideobufRefinement -------------------------
(***************************************************************************)
(* The virtual driver implements CaptureQueue: q->stream is the queue of   *)
(* the filled buffers followed by that of the waiting ones.  A buffer is   *)
(* known to the application by its index in q->bufs.                       *)
(***************************************************************************)
EXTENDS VideobufQueue

InState(S) == Indices(Kept(stream, {b \in Structs : vstate[b] \in S}), bufs)

Held    == {i \in 1 .. Len(bufs) : vstate[bufs[i]] \in {"NEEDS_INIT", "IDLE"}}
Waiting == InState({"PREPARED", "QUEUED"})
Filled  == InState({"DONE"})

Capture == INSTANCE CaptureQueue WITH
  held      <- Held,
  waiting   <- Waiting,
  filled    <- Filled,
  streaming <- streaming,
  broken    <- disturbed \/ fault

(* Blocking or not, from one thread or several, with poll or without:      *)
(* buffers are filled in the order of QBUF, only while the device streams, *)
(* and DQBUF hands them out in that order; STREAMOFF and munmap give all   *)
(* of them back.                                                           *)
ImplementsCapture == Capture!Spec

=============================================================================
