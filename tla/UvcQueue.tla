------------------------------ MODULE UvcQueue ------------------------------
(***************************************************************************)
(* The buffer queues and the URBs of the UVC driver                        *)
(* (src/ov7740/.../myuvc/12th/myuvc.c).                                    *)
(*                                                                         *)
(* The ioctls run one at a time: video_ioctl2 is installed as ".ioctl",    *)
(* which the kernel calls with the big kernel lock held.  The completion   *)
(* handler myuvc_video_complete takes no lock and may run on another CPU,  *)
(* one URB at a time: its steps, one for every access to what the ioctls   *)
(* write, interleave with those of an ioctl.  Only the handler and         *)
(* VIDIOC_QBUF touch irqqueue, so that list is modelled by its pointers    *)
(* and its updates write by write; mainqueue belongs to the ioctls and is  *)
(* a sequence.                                                             *)
(***************************************************************************)
EXTENDS Integers, Sequences, Functions, Lists

CONSTANTS NBuf,        \* entries of myuvc_queue.buffer[]
          NUrb,        \* MYUVC_URBS
          NPkt,        \* urb->number_of_packets
          Length,      \* buf.length, in units of payload
          MaxPayload,  \* most payload of a packet, in the same units
          MaxOrphans,  \* bound on the URBs that urb[] no longer reaches
          Orderly      \* the application keeps to the order A7 .. A18 of the comments,
                       \* and asks for no more buffers than buffer[] has

ASSUME ConstantsAssumption ==
  /\ NBuf \in Nat \ {0} /\ NUrb \in Nat \ {0} /\ NPkt \in Nat \ {0}
  /\ Length \in Nat \ {0} /\ MaxPayload \in Nat \ {0}
  /\ MaxOrphans \in Nat /\ Orderly \in BOOLEAN

Buffers == 1 .. NBuf
Irqq    == 0                \* the list head myuvc_queue.irqqueue
Nil     == NBuf + 1         \* NULL after memset, or LIST_POISON after list_del
Nodes   == {Irqq, Nil} \cup Buffers

VARIABLES
  count,       \* myuvc_queue.count; 0 when there is no memory
  bstate,      \* state of each buffer
  used,        \* buf.bytesused of each buffer
  mainqueue,
  next, prev,  \* irqqueue: the links of the head and of each buffer's "irq"
  op,          \* the write QBUF's insertion into irqqueue does next
  opBuf, opPrev,
  live,        \* URBs in flight that urb[] points to
  orphans,     \* URBs in flight that urb[] does not point to any more
  h,           \* what the completion handler does next
  hBuf, hPkt, hKind,
  hNum,        \* what it has read or computed: dest, then nbytes, then the sum
  hEnd,        \* the tests of the packet that will make the buffer DONE
  hLinks,      \* the neighbours list_del has read
  on,          \* the application's view: STREAMON succeeded, no STREAMOFF since
  fault,       \* the kernel dereferenced NULL, poison or freed memory,
               \* or wrote behind a buffer or behind buffer[]
  raced,       \* history: the two sides overlapped on one buffer or in the links
  stale,       \* history: QBUF emptied the buffer after dest was computed
  orphaned     \* history: a URB in flight was lost from urb[]

bufVars  == <<count, bstate, used, mainqueue>>
irqLinks == <<next, prev>>
opVars   == <<op, opBuf, opPrev>>
urbVars  == <<live, orphans>>
hVars    == <<h, hBuf, hPkt, hKind, hLinks, hNum, hEnd, stale>>
vars     == <<bufVars, irqLinks, opVars, urbVars, hVars, on, fault, raced, orphaned>>

NoLinks   == [n \in {Irqq} \cup Buffers |-> Nil]
EmptyList == [NoLinks EXCEPT ![Irqq] = Irqq]     \* INIT_LIST_HEAD

Init ==
  /\ count = 0 /\ bstate = [b \in Buffers |-> "IDLE"] /\ used = [b \in Buffers |-> 0]
  /\ mainqueue = << >> /\ next = NoLinks /\ prev = NoLinks
  /\ op = "none" /\ opBuf = Nil /\ opPrev = Nil
  /\ live = 0 /\ orphans = 0
  /\ h = "idle" /\ hBuf = Nil /\ hPkt = 0 /\ hKind = "live" /\ hLinks = <<Nil, Nil>>
  /\ hNum = 0 /\ hEnd = {} /\ stale = FALSE
  /\ on = FALSE /\ fault = FALSE /\ raced = FALSE /\ orphaned = FALSE

Running == ~fault
NoIoctl == Running /\ op = "none"

-----------------------------------------------------------------------------
(* Ioctls.                                                                 *)

(* URBs in flight that urb[] points to, with the one being completed; and  *)
(* those it does not point to.                                             *)
LiveNow   == live + (IF h # "idle" /\ hKind = "live" THEN 1 ELSE 0)
OrphanNow == orphans + (IF h # "idle" /\ hKind = "orphan" THEN 1 ELSE 0)

(* urb[] is overwritten: no URB in flight can be killed any more.          *)
LoseUrbs ==
  /\ OrphanNow + LiveNow <= MaxOrphans
  /\ orphans' = orphans + live /\ live' = 0
  /\ hKind' = IF h = "idle" THEN hKind ELSE "orphan"
  /\ orphaned' = (orphaned \/ LiveNow > 0)

(* myuvc_free_buffers and the second memset of REQBUFS: buffers, both list *)
(* heads and urb[] are zeroed; a handler in the middle of a URB goes on    *)
(* with a buffer that is gone.                                             *)
ZeroQueue ==
  /\ bstate' = [b \in Buffers |-> "IDLE"] /\ used' = [b \in Buffers |-> 0]
  /\ mainqueue' = << >>
  /\ LoseUrbs
  /\ fault' = (hBuf # Nil)
  /\ UNCHANGED <<opVars, h, hBuf, hPkt, hLinks, hNum, hEnd, stale, on, raced>>

(* Mutant: no INIT_LIST_HEAD of irqqueue. *)
ReqbufsNoInit(n) ==
  /\ NoIoctl /\ (Orderly => ~on)
  /\ count' = n /\ next' = NoLinks /\ prev' = NoLinks
  /\ ZeroQueue

(* myuvc_vidioc_reqbufs, n buffers allocated.  Nothing checks that the     *)
(* queue is idle.                                                          *)
Reqbufs(n) ==
  /\ NoIoctl /\ (Orderly => ~on)
  /\ count' = n /\ next' = EmptyList /\ prev' = EmptyList
  /\ ZeroQueue

(* Nothing compares the count with the size of buffer[] either: the loop   *)
(* that fills the entries in runs over its end.                            *)
ReqbufsTooMany ==
  /\ NoIoctl /\ ~Orderly
  /\ fault' = TRUE
  /\ UNCHANGED <<bufVars, irqLinks, opVars, urbVars, hVars, on, raced, orphaned>>

(* A count of 0, or no memory for even one buffer: the list heads stay 0.  *)
ReqbufsNone ==
  /\ NoIoctl /\ (Orderly => ~on) /\ count > 0
  /\ count' = 0 /\ next' = NoLinks /\ prev' = NoLinks
  /\ ZeroQueue

(* Mutant: the state of the buffer is not checked. *)
QbufAnyState(b) ==
  /\ NoIoctl
  /\ b <= count /\ Len(mainqueue) <= NBuf
  /\ bstate' = [bstate EXCEPT ![b] = "QUEUED"] /\ used' = [used EXCEPT ![b] = 0]
  /\ mainqueue' = Append(mainqueue, b)
  /\ op' = "read_tail" /\ opBuf' = b
  /\ raced' = (raced \/ hBuf = b)
  /\ stale' = (stale \/ (h = "copy" /\ hBuf = b))
  /\ UNCHANGED <<count, irqLinks, opPrev, urbVars, h, hBuf, hPkt, hKind, hLinks,
                 hNum, hEnd, on, fault, orphaned>>

(* myuvc_vidioc_qbuf up to the first list: the state, then mainqueue.      *)
Qbuf(b) ==
  /\ NoIoctl
  /\ b <= count /\ bstate[b] = "IDLE"
  /\ bstate' = [bstate EXCEPT ![b] = "QUEUED"] /\ used' = [used EXCEPT ![b] = 0]
  /\ mainqueue' = Append(mainqueue, b)
  /\ op' = "read_tail" /\ opBuf' = b
  /\ raced' = (raced \/ hBuf = b)
  /\ stale' = (stale \/ (h = "copy" /\ hBuf = b))
  /\ UNCHANGED <<count, irqLinks, opPrev, urbVars, h, hBuf, hPkt, hKind, hLinks,
                 hNum, hEnd, on, fault, orphaned>>

(* list_add_tail(&buf->irq, &irqqueue): read the tail, then write the link *)
(* of the head, those of the new entry and that of the old tail.           *)
Overlap == h = "unlink_next"

ReadTail ==
  /\ Running /\ op = "read_tail" /\ op' = "link_head"
  /\ opPrev' = prev[Irqq]
  /\ raced' = (raced \/ Overlap)
  /\ UNCHANGED <<opBuf, bufVars, irqLinks, urbVars, hVars, on, fault, orphaned>>

LinkHead ==
  /\ Running /\ op = "link_head" /\ op' = "link_new"
  /\ prev' = [prev EXCEPT ![Irqq] = opBuf]
  /\ raced' = (raced \/ Overlap)
  /\ UNCHANGED <<opBuf, opPrev, bufVars, next, urbVars, hVars, on, fault, orphaned>>

LinkNew ==
  /\ Running /\ op = "link_new" /\ op' = "link_tail"
  /\ next' = [next EXCEPT ![opBuf] = Irqq] /\ prev' = [prev EXCEPT ![opBuf] = opPrev]
  /\ raced' = (raced \/ Overlap)
  /\ UNCHANGED <<opBuf, opPrev, bufVars, urbVars, hVars, on, fault, orphaned>>

LinkTail ==
  /\ Running /\ op = "link_tail" /\ op' = "none" /\ opBuf' = Nil /\ opPrev' = Nil
  /\ fault' = (opPrev = Nil)
  /\ next' = IF opPrev = Nil THEN next ELSE [next EXCEPT ![opPrev] = opBuf]
  /\ raced' = (raced \/ Overlap)
  /\ UNCHANGED <<bufVars, prev, urbVars, hVars, on, orphaned>>

(* myuvc_vidioc_dqbuf: only the first buffer of mainqueue is looked at.    *)
Dqbuf ==
  /\ NoIoctl /\ mainqueue # << >>
  /\ LET b == Head(mainqueue) IN
       /\ bstate[b] = "DONE"
       /\ bstate' = [bstate EXCEPT ![b] = "IDLE"]
       /\ raced' = (raced \/ hBuf = b)
  /\ mainqueue' = Tail(mainqueue)
  /\ UNCHANGED <<count, used, irqLinks, opVars, urbVars, hVars, on, fault, orphaned>>

(* Before REQBUFS, or after REQBUFS(0), the head of mainqueue is zero:     *)
(* list_empty is false and the first entry is a NULL pointer.  Poll does   *)
(* the same; it changes nothing of the queues (it only enters the wait     *)
(* queue of the first buffer), so this is the one step of it to be seen.   *)
DqbufUnallocated ==
  /\ NoIoctl /\ ~Orderly /\ count = 0
  /\ fault' = TRUE
  /\ UNCHANGED <<bufVars, irqLinks, opVars, urbVars, hVars, on, raced, orphaned>>

(* myuvc_vidioc_streamon: urb[] is filled again, whatever it held.         *)
Streamon ==
  /\ NoIoctl /\ (Orderly => ~on /\ count > 0)
  /\ OrphanNow + LiveNow <= MaxOrphans
  /\ live' = NUrb /\ orphans' = orphans + live
  /\ hKind' = IF h = "idle" THEN hKind ELSE "orphan"
  /\ orphaned' = (orphaned \/ LiveNow > 0)
  /\ on' = TRUE
  /\ UNCHANGED <<bufVars, irqLinks, opVars, h, hBuf, hPkt, hLinks, hNum, hEnd, stale, fault,
                 raced>>

(* ... k URBs submitted, the next refused (k = 0: allocation failed, which *)
(* is only printed, and the first submission refuses a NULL URB):          *)
(* myuvc_uninit_urbs drops them all without stopping those in flight.      *)
StreamonFails(k) ==
  /\ NoIoctl /\ (Orderly => ~on /\ count > 0)
  /\ OrphanNow + LiveNow + k <= MaxOrphans
  /\ live' = 0 /\ orphans' = orphans + live + k
  /\ hKind' = IF h = "idle" THEN hKind ELSE "orphan"
  /\ orphaned' = (orphaned \/ LiveNow + k > 0)
  /\ UNCHANGED <<bufVars, irqLinks, opVars, h, hBuf, hPkt, hLinks, hNum, hEnd, stale, on,
                 fault, raced>>

(* Mutant: the handler is not waited for. *)
StreamoffNoWait ==
  /\ NoIoctl /\ (Orderly => on)
  /\ live' = 0 /\ on' = FALSE
  /\ UNCHANGED <<bufVars, irqLinks, opVars, orphans, hVars, fault, raced, orphaned>>

(* myuvc_vidioc_streamoff: usb_kill_urb waits for the handler of a URB it  *)
(* kills and refuses the resubmission.  Buffers and queues are not touched.*)
Streamoff ==
  /\ NoIoctl /\ (Orderly => on)
  /\ h = "idle" \/ hKind = "orphan"
  /\ live' = 0 /\ on' = FALSE
  /\ UNCHANGED <<bufVars, irqLinks, opVars, orphans, hVars, fault, raced, orphaned>>

Insertion == ReadTail \/ LinkHead \/ LinkNew \/ LinkTail

Ioctl ==
  \/ \E n \in Buffers : Reqbufs(n)
  \/ ReqbufsNone \/ ReqbufsTooMany
  \/ \E b \in Buffers : Qbuf(b)
  \/ Insertion
  \/ Dqbuf \/ DqbufUnallocated
  \/ Streamon \/ \E k \in 0 .. NUrb - 1 : StreamonFails(k)
  \/ Streamoff

-----------------------------------------------------------------------------
(* The completion handler: myuvc_video_complete.                           *)

InFlight(kind) == IF kind = "live" THEN live > 0 ELSE orphans > 0

TakeUrb(kind) ==
  /\ Running /\ h = "idle" /\ InFlight(kind)
  /\ live' = IF kind = "live" THEN live - 1 ELSE live
  /\ orphans' = IF kind = "orphan" THEN orphans - 1 ELSE orphans

(* A status other than 0: the URB is not submitted again.                  *)
CompleteError(kind) ==
  /\ TakeUrb(kind)
  /\ UNCHANGED <<bufVars, irqLinks, opVars, hVars, on, fault, raced, orphaned>>

(* With no buffer in irqqueue the data of the URB is dropped.              *)
CompleteNoBuffer(kind) ==
  /\ TakeUrb(kind) /\ next[Irqq] = Irqq
  /\ h' = "resubmit" /\ hKind' = kind
  /\ UNCHANGED <<bufVars, irqLinks, opVars, hBuf, hPkt, hLinks, hNum, hEnd, stale, on, fault,
                 raced, orphaned>>

(* Mutant: the last buffer instead of the first. *)
CompleteLast(kind) ==
  /\ TakeUrb(kind) /\ prev[Irqq] # Irqq
  /\ fault' = (prev[Irqq] = Nil)
  /\ h' = "packet" /\ hKind' = kind /\ hBuf' = prev[Irqq] /\ hPkt' = 0
  /\ UNCHANGED <<bufVars, irqLinks, opVars, hLinks, hNum, hEnd, stale, on, raced, orphaned>>

(* The first buffer of irqqueue is the buffer of the whole URB.            *)
CompleteFirst(kind) ==
  /\ TakeUrb(kind) /\ next[Irqq] # Irqq
  /\ fault' = (next[Irqq] = Nil)
  /\ h' = "packet" /\ hKind' = kind /\ hBuf' = next[Irqq] /\ hPkt' = 0
  /\ UNCHANGED <<bufVars, irqLinks, opVars, hLinks, hNum, hEnd, stale, on, raced, orphaned>>

(* Mutant: one packet too many. *)
PacketOneMore ==
  /\ Running /\ h = "packet" /\ hPkt <= NPkt
  /\ h' = "copy" /\ hPkt' = hPkt + 1
  /\ hNum' = used[hBuf] /\ stale' = FALSE
  /\ UNCHANGED <<bufVars, irqLinks, opVars, urbVars, hBuf, hKind, hLinks, hEnd,
                 on, fault, raced, orphaned>>

(* The next packet: dest is computed from bytesused.                       *)
PacketDest ==
  /\ Running /\ h = "packet" /\ hPkt < NPkt
  /\ h' = "copy" /\ hPkt' = hPkt + 1
  /\ hNum' = used[hBuf] /\ stale' = FALSE
  /\ UNCHANGED <<bufVars, irqLinks, opVars, urbVars, hBuf, hKind, hLinks, hEnd,
                 on, fault, raced, orphaned>>

(* A packet that was lost, is too short or carries the error bit.          *)
PacketSkipped ==
  /\ Running /\ h = "copy"
  /\ h' = "packet" /\ hNum' = 0 /\ stale' = FALSE
  /\ UNCHANGED <<bufVars, irqLinks, opVars, urbVars, hBuf, hPkt, hKind, hLinks, hEnd,
                 on, fault, raced, orphaned>>

(* Mutant: the whole payload is copied. *)
PacketCopyAll(len, eof) ==
  /\ Running /\ h = "copy"
  /\ fault' = (hNum + len > Length)
  /\ h' = "add" /\ hNum' = len
  /\ hEnd' = (IF len > Length - used[hBuf] THEN {"full"} ELSE {}) \cup (IF eof THEN {"eof"} ELSE {})
  /\ UNCHANGED <<bufVars, irqLinks, opVars, urbVars, hBuf, hPkt, hKind, hLinks, stale,
                 on, raced, orphaned>>

(* A payload of len units: bytesused is read again for the room left, and  *)
(* as much as that is copied to dest.                                      *)
PacketCopy(len, eof) ==
  /\ Running /\ h = "copy"
  /\ LET maxlen == Length - used[hBuf]
         nbytes == IF len < maxlen THEN len ELSE maxlen
     IN  /\ fault' = (hNum + nbytes > Length)
         /\ h' = "add" /\ hNum' = nbytes
         /\ hEnd' = (IF len > maxlen THEN {"full"} ELSE {}) \cup (IF eof THEN {"eof"} ELSE {})
  /\ UNCHANGED <<bufVars, irqLinks, opVars, urbVars, hBuf, hPkt, hKind, hLinks, stale,
                 on, raced, orphaned>>

(* bytesused += nbytes: a read, then a write.                              *)
PacketAdd ==
  /\ Running /\ h = "add" /\ h' = "store"
  /\ hNum' = used[hBuf] + hNum
  /\ UNCHANGED <<bufVars, irqLinks, opVars, urbVars, hBuf, hPkt, hKind, hLinks, hEnd, stale,
                 on, fault, raced, orphaned>>

PacketStore ==
  /\ Running /\ h = "store"
  /\ h' = IF hEnd = {} THEN "packet" ELSE "tests"
  /\ used' = [used EXCEPT ![hBuf] = hNum] /\ hNum' = 0 /\ stale' = FALSE
  /\ UNCHANGED <<count, bstate, mainqueue, irqLinks, opVars, urbVars, hBuf, hPkt, hKind,
                 hLinks, hEnd, on, fault, raced, orphaned>>

(* The buffer is DONE when the payload did not all fit, ...                *)
PacketFull ==
  /\ Running /\ h = "tests" /\ "full" \in hEnd
  /\ h' = IF "eof" \in hEnd THEN "tests" ELSE "packet"
  /\ bstate' = [bstate EXCEPT ![hBuf] = "DONE"] /\ hEnd' = hEnd \ {"full"}
  /\ UNCHANGED <<count, used, mainqueue, irqLinks, opVars, urbVars, hBuf, hPkt, hKind,
                 hLinks, hNum, stale, on, fault, raced, orphaned>>

(* ... and (once more) at the end-of-frame bit, unless it is empty.  The   *)
(* loop goes on with the same buffer.                                      *)
PacketEof ==
  /\ Running /\ h = "tests" /\ hEnd = {"eof"}
  /\ h' = "packet" /\ hEnd' = {}
  /\ bstate' = IF used[hBuf] # 0 THEN [bstate EXCEPT ![hBuf] = "DONE"] ELSE bstate
  /\ UNCHANGED <<count, used, mainqueue, irqLinks, opVars, urbVars, hBuf, hPkt, hKind,
                 hLinks, hNum, stale, on, fault, raced, orphaned>>

(* Mutant: a DONE buffer stays in irqqueue. *)
EndOfPacketsNoDel ==
  /\ Running /\ h = "packet" /\ hPkt = NPkt
  /\ h' = "resubmit" /\ hBuf' = Nil /\ hPkt' = 0
  /\ UNCHANGED <<bufVars, irqLinks, opVars, urbVars, hKind, hLinks, hNum, hEnd, stale,
                 on, fault, raced, orphaned>>

EndOfPackets ==
  /\ Running /\ h = "packet" /\ hPkt = NPkt
  /\ h' = IF bstate[hBuf] = "DONE" THEN "unlink_prev" ELSE "resubmit"
  /\ hBuf' = IF bstate[hBuf] = "DONE" THEN hBuf ELSE Nil
  /\ hPkt' = 0
  /\ UNCHANGED <<bufVars, irqLinks, opVars, urbVars, hKind, hLinks, hNum, hEnd, stale,
                 on, fault, raced, orphaned>>

(* list_del(&buf->irq): both neighbours are read, then written.            *)
UnlinkPrev ==
  /\ Running /\ h = "unlink_prev" /\ h' = "unlink_next"
  /\ hLinks' = <<prev[hBuf], next[hBuf]>>
  /\ fault' = (Nil \in {prev[hBuf], next[hBuf]})
  /\ prev' = IF next[hBuf] = Nil THEN prev ELSE [prev EXCEPT ![next[hBuf]] = prev[hBuf]]
  /\ raced' = (raced \/ op \in {"link_head", "link_new", "link_tail"})
  /\ UNCHANGED <<bufVars, next, opVars, urbVars, hBuf, hPkt, hKind, hNum, hEnd, stale, on,
                 orphaned>>

UnlinkNext ==
  /\ Running /\ h = "unlink_next" /\ h' = "resubmit"
  /\ next' = [next EXCEPT ![hLinks[1]] = hLinks[2], ![hBuf] = Nil]
  /\ prev' = [prev EXCEPT ![hBuf] = Nil]
  /\ hBuf' = Nil /\ hLinks' = <<Nil, Nil>>
  /\ raced' = (raced \/ op \in {"link_head", "link_new", "link_tail"})
  /\ UNCHANGED <<bufVars, opVars, urbVars, hPkt, hKind, hNum, hEnd, stale, on, fault, orphaned>>

(* usb_submit_urb again; a failure is only printed.                        *)
Resubmit ==
  /\ Running /\ h = "resubmit" /\ h' = "idle"
  /\ live' = IF hKind = "live" THEN live + 1 ELSE live
  /\ orphans' = IF hKind = "orphan" THEN orphans + 1 ELSE orphans
  /\ UNCHANGED <<bufVars, irqLinks, opVars, hBuf, hPkt, hKind, hLinks, hNum, hEnd, stale,
                 on, fault, raced, orphaned>>

ResubmitFails ==
  /\ Running /\ h = "resubmit" /\ h' = "idle"
  /\ UNCHANGED <<bufVars, irqLinks, opVars, urbVars, hBuf, hPkt, hKind, hLinks, hNum, hEnd,
                 stale,
                 on, fault, raced, orphaned>>

Kinds == {"live", "orphan"}

Complete == \E kind \in Kinds : CompleteNoBuffer(kind) \/ CompleteFirst(kind)
Copy     == \E len \in 0 .. MaxPayload, eof \in BOOLEAN : PacketCopy(len, eof)
FrameEnd == \E len \in 1 .. MaxPayload : PacketCopy(len, TRUE)
Packet   == PacketDest \/ PacketSkipped \/ PacketAdd \/ PacketStore \/ PacketFull \/ PacketEof

Handler ==
  \/ Complete \/ \E kind \in Kinds : CompleteError(kind)
  \/ Packet \/ Copy
  \/ EndOfPackets \/ UnlinkPrev \/ UnlinkNext \/ Resubmit \/ ResubmitFails

Next == Ioctl \/ Handler

Spec == Init /\ [][Next]_vars

(* An ioctl in progress goes on; the controller completes the URBs it has; *)
(* the handler, once called, runs to its end; and the camera goes on       *)
(* ending frames: among its packets there are always more that end one.    *)
FairSpec == /\ Spec
            /\ WF_vars(Insertion) /\ WF_vars(Complete)
            /\ WF_vars(Packet \/ EndOfPackets \/ UnlinkPrev \/ UnlinkNext)
            /\ WF_vars(Resubmit \/ ResubmitFails)
            /\ SF_vars(FrameEnd)

-----------------------------------------------------------------------------
(* Properties.                                                             *)

(* Type correctness of the queues, the links, the URBs and the handler.    *)
TypeOK ==
  /\ count \in 0 .. NBuf
  /\ bstate \in [Buffers -> {"IDLE", "QUEUED", "DONE"}] /\ used \in [Buffers -> 0 .. Length]
  /\ mainqueue \in Seq(Buffers)
  /\ next \in [{Irqq} \cup Buffers -> Nodes] /\ prev \in [{Irqq} \cup Buffers -> Nodes]
  /\ op \in {"none", "read_tail", "link_head", "link_new", "link_tail"}
  /\ opBuf \in Nodes /\ opPrev \in Nodes
  /\ live \in 0 .. NUrb /\ orphans \in 0 .. MaxOrphans
  /\ h \in {"idle", "packet", "copy", "add", "store", "tests",
           "unlink_prev", "unlink_next", "resubmit"}
  /\ hBuf \in Nodes /\ hPkt \in 0 .. NPkt /\ hKind \in Kinds /\ hLinks \in Nodes \X Nodes
  /\ hNum \in Nat /\ hEnd \in SUBSET {"full", "eof"} /\ stale \in BOOLEAN
  /\ on \in BOOLEAN /\ fault \in BOOLEAN /\ raced \in BOOLEAN /\ orphaned \in BOOLEAN

(* Everything below but DoneFrameClosed is about a driver whose two sides  *)
(* have not overlapped on one buffer or in the links, and that has not     *)
(* lost URBs from urb[]: only there does the code, which takes no lock,    *)
(* promise anything.                                                       *)
Undisturbed == ~raced /\ ~orphaned

(* The buffers of mainqueue the handler has still to fill or to unlink.    *)
Unfilled == Kept(mainqueue, {b \in Buffers : bstate[b] = "QUEUED" \/ b = hBuf})

(* irqqueue holds the buffers of q in that order, forward and backward; as *)
(* in the ring of the kernel's lists, the head stands before the first and *)
(* behind the last.                                                        *)
At(q, k)  == IF k \in 1 .. Len(q) THEN q[k] ELSE Irqq

Linked(q) ==
  \A k \in 0 .. Len(q) : next[At(q, k)] = At(q, k + 1) /\ prev[At(q, k + 1)] = At(q, k)

(* Between updates irqqueue holds exactly the buffers of mainqueue that    *)
(* wait for data, in the order the application queued them, its "prev"     *)
(* links mirror its "next" links, and a buffer outside mainqueue is IDLE,  *)
(* so that the application can queue it again.                             *)
QueuesAgree ==
  (Undisturbed /\ op = "none" /\ h # "unlink_next" /\ count > 0) =>
    /\ Linked(Unfilled)
    /\ \A b \in 1 .. count : (bstate[b] = "IDLE") <=> b \notin Range(mainqueue)

(* Filled buffers come first in mainqueue: VIDIOC_DQBUF, which looks at    *)
(* the first one only, never refuses while another is DONE, and hands the  *)
(* frames out in the order they were captured.                             *)
DoneFirst ==
  Undisturbed =>
    \A i, j \in 1 .. Len(mainqueue) :
      (i < j /\ bstate[mainqueue[j]] = "DONE") => bstate[mainqueue[i]] = "DONE"

(* An application that keeps the order of the comments A7 .. A18, and asks *)
(* for no more buffers than buffer[] has, never makes the kernel follow a  *)
(* NULL, poisoned or freed pointer or write behind a buffer.               *)
NoFault == (Orderly /\ Undisturbed) => ~fault

(* What is copied never leaves the buffer, in whatever order the calls     *)
(* come and wherever they overlap with the handler, but for one place: dest *)
(* and maxlen are computed from two reads of bytesused, and a copy behind  *)
(* the end needs VIDIOC_QBUF to have emptied the buffer between them (of a *)
(* buffer that VIDIOC_DQBUF handed out although the handler still has it). *)
CopyInBounds ==
  [][(h = "copy" /\ h' = "add") => (hNum + hNum' <= Length \/ stale)]_<<h, hNum, stale>>

(* After STREAMOFF no handler runs and no URB is in flight.                *)
StoppedIsQuiet == (~orphaned /\ ~on) => live = 0 /\ h = "idle"

(* The handler does not write a buffer the application holds: nothing is   *)
(* added to it and it does not become DONE (QBUF and REQBUFS only reset).  *)
AppBufferUntouched ==
  [][\A b \in Buffers :
       (bstate[b] = "IDLE" /\ Undisturbed') =>
         bstate'[b] # "DONE" /\ used'[b] <= used[b]]_<<bstate, used, raced, orphaned>>

(* A queued buffer is filled, as long as the stream runs, a URB is left    *)
(* and the two sides do not overlap.                                       *)
QueuedIsFilled ==
  \A b \in Buffers :
    (bstate[b] = "QUEUED" /\ on) ~>
      (bstate[b] # "QUEUED" \/ ~on \/ LiveNow = 0 \/ ~Undisturbed \/ fault)

(* The comments on the packet loop: a buffer is DONE when the data of one  *)
(* frame have all been received, and then leaves irqqueue.  So nothing is  *)
(* added to it after it became DONE.                                       *)
DoneFrameClosed ==
  [][\A b \in Buffers :
       (bstate[b] = "DONE" /\ bstate'[b] = "DONE") => used'[b] = used[b]]_<<bstate, used>>

=============================================================================
