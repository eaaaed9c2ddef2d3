---------------------------- MODULE CaptureQueue ----------------------------
(***************************************************************************)
(* What a V4L2 capture driver promises the application that streams from   *)
(* it: a buffer is with the application, waits for data, or is filled;     *)
(* buffers are filled in the order they were queued, only while the device *)
(* streams, and are handed out in the order they were filled.              *)
(*                                                                         *)
(* The drivers of this repository promise it only while their two sides do *)
(* not collide: "broken" says that the promise is off.                     *)
(***************************************************************************)
EXTENDS Naturals, Sequences, Functions

CONSTANT NBuf              \* most buffers the application asks for

VARIABLES held,            \* buffers the application may use or queue
          waiting,         \* queued and not yet filled
          filled,          \* filled and not yet dequeued
          streaming, broken

cvars == <<held, waiting, filled, streaming, broken>>

Init ==
  /\ held = {} /\ waiting = << >> /\ filled = << >>
  /\ streaming = FALSE /\ broken = FALSE

(* REQBUFS, or close: n new buffers, all with the application.             *)
Reset(n) ==
  /\ held' = 1 .. n /\ waiting' = << >> /\ filled' = << >>
  /\ streaming' \in {streaming, FALSE} /\ broken' = broken

Queue(b) ==
  /\ b \in held
  /\ held' = held \ {b} /\ waiting' = Append(waiting, b)
  /\ UNCHANGED <<filled, streaming>> /\ broken' = broken

Fill ==
  /\ streaming /\ waiting # << >>
  /\ waiting' = Tail(waiting) /\ filled' = Append(filled, Head(waiting))
  /\ UNCHANGED <<held, streaming>> /\ broken' = broken

Dequeue ==
  /\ filled # << >>
  /\ held' = held \cup {Head(filled)} /\ filled' = Tail(filled)
  /\ UNCHANGED <<waiting, streaming>> /\ broken' = broken

(* STREAMON, and STREAMOFF of a driver that keeps its queues.              *)
Switch == streaming' \in BOOLEAN /\ UNCHANGED <<held, waiting, filled>> /\ broken' = broken

(* STREAMOFF of a driver that gives all buffers back.                      *)
Cancel ==
  /\ held' = held \cup Range(waiting) \cup Range(filled)
  /\ waiting' = << >> /\ filled' = << >> /\ streaming' = FALSE
  /\ broken' = broken

(* The device is given up: what waits goes back to the application, whose  *)
(* DQBUF returns it with an error.                                         *)
Discard ==
  /\ held' = held \cup Range(waiting) /\ waiting' = << >>
  /\ UNCHANGED <<filled, streaming>> /\ broken' = broken

(* From here on anything may happen.                                       *)
Break == broken' = TRUE

Next ==
  \/ /\ ~broken
     /\ \/ \E n \in 0 .. NBuf : Reset(n)
        \/ \E b \in 1 .. NBuf : Queue(b)
        \/ Fill \/ Dequeue \/ Switch \/ Cancel \/ Discard
  \/ Break

Spec == Init /\ [][Next]_cvars

=============================================================================
