---------------------------- MODULE UvcVideoQueue ----------------------------
(***************************************************************************)
(* The UVC driver of Linux (src/video/uvc), which the application's README *)
(* prescribes for USB cameras: the buffer queue of uvc_queue.c, the        *)
(* isochronous completion handler and the stream control of uvc_video.c,   *)
(* and the ioctls, mmap and release of uvc_v4l2.c, for capture.            *)
(*                                                                         *)
(* ioctls run under the big kernel lock, which a sleeping one gives up;    *)
(* what matters then is queue->mutex, which DQBUF keeps while it waits for *)
(* data: "dqBuf" is the buffer it waits for, 0 when the mutex is free.     *)
(* The completion handler runs on another CPU, one URB at a time; a step   *)
(* of it ends where its caller could see the difference.  One handle is    *)
(* privileged, and one of its threads at a time starts, stops or closes    *)
(* the stream ("ctl").                                                     *)
(***************************************************************************)
EXTENDS Integers, Sequences, FiniteSets, Functions

CONSTANTS NBuf,          \* UVC_MAX_VIDEO_BUFFERS
          NUrb,          \* UVC_URBS
          NPkt,          \* packets of a URB
          Length,        \* bytes of a buffer
          MaxPayload,    \* most bytes of a packet
          MaxMaps        \* bound on the mappings of buffers

ASSUME ConstantsAssumption ==
  /\ NBuf \in Nat \ {0} /\ NUrb \in Nat \ {0} /\ NPkt \in Nat \ {0}
  /\ Length \in Nat \ {0} /\ MaxPayload \in Nat \ {0} /\ MaxMaps \in Nat

Buffers == 1 .. NBuf

VARIABLES
  count,          \* queue->count
  bstate,         \* buf->state
  used,           \* buf->buf.bytesused, 0 here once DQBUF has returned the buffer
  mixed,          \* history: data were copied behind those of a frame known to be over
  passed,         \* history: the frame of the data in the first of irqqueue is over
  mainq, irqq,    \* queue->mainqueue, queue->irqqueue
  maps,           \* the sum of vma_use_count over the buffers
  on, disconnected, drop,     \* queue->flags
  dqBuf, dqAsleep, dqTakes,   \* DQBUF: its buffer, waits for it, has read its state
  ctl,            \* where starting, stopping, closing or suspending is
  unplugged, frozen,
  lastFid,        \* video->last_fid, -1 here while there are no URBs
  live,           \* the number of URBs in flight
  h, hBuf, hPkt, hAgain,      \* the handler: a FID to decode again, or -1
  overtaken,      \* history: DQBUF took a buffer the handler was not through with
  corrupt         \* history: a linked buffer was linked again or cleared

bufVars  == <<bstate, used, mixed, passed>>
flagVars == <<on, disconnected, drop>>
dqVars   == <<dqBuf, dqAsleep, dqTakes>>
usbVars  == <<unplugged, frozen, lastFid, live>>
hVars    == <<h, hBuf, hPkt, hAgain>>
vars == <<count, bufVars, mainq, irqq, maps, flagVars, dqVars, ctl, usbVars, hVars,
          overtaken, corrupt>>

Init ==
  /\ count = 0 /\ bstate = [b \in Buffers |-> "IDLE"]
  /\ used = [b \in Buffers |-> 0] /\ mixed = [b \in Buffers |-> FALSE] /\ passed = FALSE
  /\ mainq = << >> /\ irqq = << >> /\ maps = 0
  /\ on = FALSE /\ disconnected = FALSE /\ drop = FALSE
  /\ dqBuf = 0 /\ dqAsleep = FALSE /\ dqTakes = FALSE /\ ctl = "idle"
  /\ unplugged = FALSE /\ frozen = FALSE /\ lastFid = -1 /\ live = 0
  /\ h = "idle" /\ hBuf = 0 /\ hPkt = 0 /\ hAgain = -1
  /\ overtaken = FALSE /\ corrupt = FALSE

HeadOr0(q) == IF q = << >> THEN 0 ELSE Head(q)

(* list_del: both callers unlink the buffer that is first (QueuesAgree).   *)
Unlinked(q, b) == IF HeadOr0(q) = b THEN Tail(q) ELSE q

(* wake_up: the sleeper looks at its buffer again. *)
Wake(S) == dqAsleep' = (dqAsleep /\ dqBuf \notin S)

(* The buffer looks DONE, and the handler may keep it all the same: it     *)
(* makes it DONE once more, looks at its state again, or puts it back.     *)
Unsettled(b) == h \in {"eof", "look", "drop"} /\ hBuf = b

-----------------------------------------------------------------------------
(* Calls of the application.  They are possible while its process is not   *)
(* frozen and the file is open.                                            *)

Running == ctl \in {"idle", "on", "off", "undo"}
HasMutex == Running /\ dqBuf = 0

(* uvc_alloc_buffers: refused while a buffer is mapped; it does not look  *)
(* at the lists, whose links a new allocation clears.  (No entry from      *)
(* count on is read.)                                                      *)
Reqbufs(n) ==
  /\ HasMutex /\ maps = 0
  /\ count' = n
  /\ bstate' = [b \in Buffers |-> "IDLE"]
  /\ used' = [b \in Buffers |-> 0] /\ mixed' = [b \in Buffers |-> FALSE] /\ passed' = FALSE
  /\ corrupt' = (mainq # << >> \/ irqq # << >>)
  /\ UNCHANGED <<mainq, irqq, maps, flagVars, dqVars, ctl, usbVars, hVars, overtaken>>

(* uvc_v4l2_mmap of a buffer, or uvc_vm_open of a copy of the mapping. *)
Mmap ==
  /\ HasMutex /\ count > 0 /\ maps < MaxMaps /\ maps' = maps + 1
  /\ UNCHANGED <<count, bufVars, mainq, irqq, flagVars, dqVars, ctl, usbVars, hVars,
                 overtaken, corrupt>>

(* uvc_vm_close, without a lock. *)
Munmap ==
  /\ Running /\ maps > 0 /\ maps' = maps - 1
  /\ UNCHANGED <<count, bufVars, mainq, irqq, flagVars, dqVars, ctl, usbVars, hVars,
                 overtaken, corrupt>>

(* Mutant: the device may be gone. *)
QbufNoCheck(b) ==
  /\ HasMutex /\ b <= count /\ bstate[b] = "IDLE"
  /\ bstate' = [bstate EXCEPT ![b] = "QUEUED"]
  /\ mainq' = Append(mainq, b) /\ irqq' = Append(irqq, b)
  /\ used' = [used EXCEPT ![b] = 0] /\ mixed' = [mixed EXCEPT ![b] = FALSE]
  /\ corrupt' = (b \in Range(irqq))
  /\ UNCHANGED <<count, passed, maps, flagVars, dqVars, ctl, usbVars, hVars, overtaken>>

(* uvc_queue_buffer.  A buffer DQBUF returned before the handler unlinked  *)
(* it is linked a second time.                                             *)
Qbuf(b) ==
  /\ HasMutex /\ b <= count /\ bstate[b] = "IDLE" /\ ~disconnected
  /\ bstate' = [bstate EXCEPT ![b] = "QUEUED"]
  /\ mainq' = Append(mainq, b) /\ irqq' = Append(irqq, b)
  /\ used' = [used EXCEPT ![b] = 0] /\ mixed' = [mixed EXCEPT ![b] = FALSE]
  /\ corrupt' = (b \in Range(irqq))
  /\ UNCHANGED <<count, passed, maps, flagVars, dqVars, ctl, usbVars, hVars, overtaken>>

(* uvc_dequeue_buffer takes the mutex and looks at the first buffer ...    *)
Dqbuf ==
  /\ HasMutex /\ mainq # << >>
  /\ dqBuf' = Head(mainq)
  /\ UNCHANGED <<count, bufVars, mainq, irqq, maps, flagVars, dqAsleep, dqTakes, ctl, usbVars,
                 hVars, overtaken, corrupt>>

(* ... sleeps, with the mutex, until the buffer is finished ...            *)
DqbufSleep ==
  /\ dqBuf # 0 /\ ~dqAsleep /\ ~dqTakes /\ bstate[dqBuf] \in {"QUEUED", "ACTIVE"}
  /\ dqAsleep' = TRUE
  /\ UNCHANGED <<count, bufVars, mainq, irqq, maps, flagVars, dqBuf, dqTakes, ctl, usbVars, hVars,
                 overtaken, corrupt>>

(* ... reads that it is, with no lock the handler knows of ...             *)
DqbufTake ==
  /\ dqBuf # 0 /\ ~dqAsleep /\ ~dqTakes /\ bstate[dqBuf] \in {"DONE", "ERROR"}
  /\ dqTakes' = TRUE
  /\ UNCHANGED <<count, bufVars, mainq, irqq, maps, flagVars, dqBuf, dqAsleep, ctl, usbVars, hVars,
                 overtaken, corrupt>>

(* The handler is not through with the buffer DQBUF is about to return.    *)
TooEarly == Unsettled(dqBuf) \/ bstate[dqBuf] \notin {"DONE", "ERROR"}

(* ... and makes it IDLE, whatever it is by now, and takes it off          *)
(* mainqueue (with -EIO if it was in error).  What it has is forgotten,    *)
(* here and not in QBUF, when nobody will look at it before.               *)
DqbufGive ==
  /\ dqTakes
  /\ bstate' = [bstate EXCEPT ![dqBuf] = "IDLE"] /\ mainq' = Unlinked(mainq, dqBuf)
  /\ IF TooEarly THEN UNCHANGED <<used, mixed>>
     ELSE used' = [used EXCEPT ![dqBuf] = 0] /\ mixed' = [mixed EXCEPT ![dqBuf] = FALSE]
  /\ dqBuf' = 0 /\ dqTakes' = FALSE
  /\ overtaken' = (overtaken \/ TooEarly)
  /\ UNCHANGED <<count, passed, irqq, maps, flagVars, dqAsleep, ctl, usbVars, hVars, corrupt>>

(* A signal ends the wait; a buffer that was put back since the wait ended *)
(* ends the call.                                                          *)
DqbufInterrupted ==
  /\ dqBuf # 0 /\ ~dqTakes /\ bstate[dqBuf] \in {"QUEUED", "ACTIVE"}
  /\ dqBuf' = 0 /\ dqAsleep' = FALSE
  /\ UNCHANGED <<count, bufVars, mainq, irqq, maps, flagVars, dqTakes, ctl, usbVars, hVars,
                 overtaken, corrupt>>

-----------------------------------------------------------------------------
(* Starting and stopping.                                                  *)

(* uvc_video_enable(1): the queue is enabled; the format decides whether   *)
(* incomplete frames are dropped.                                          *)
Streamon ==
  /\ HasMutex /\ ctl = "idle" /\ ~on
  /\ on' = TRUE /\ drop' \in BOOLEAN /\ ctl' = "on"
  /\ UNCHANGED <<count, bufVars, mainq, irqq, maps, disconnected, dqVars, usbVars, hVars,
                 overtaken, corrupt>>

(* uvc_init_video submits the URBs. *)
InitVideo ==
  /\ ctl = "on" /\ ~unplugged
  /\ lastFid' = -1 /\ live' = NUrb /\ ctl' = "idle"
  /\ UNCHANGED <<count, bufVars, mainq, irqq, maps, flagVars, dqVars, unplugged, frozen,
                 hVars, overtaken, corrupt>>

(* The commit fails, or the submission after n URBs, which are killed.     *)
(* The queue stays enabled: STREAMON then fails until STREAMOFF.           *)
InitVideoFails(n) ==
  /\ ctl = "on" /\ (unplugged => n = 0)
  /\ live' = n /\ ctl' = (IF n = 0 THEN "idle" ELSE "undo")
  /\ lastFid' = -1
  /\ UNCHANGED <<count, bufVars, mainq, irqq, maps, flagVars, dqVars, unplugged, frozen,
                 hVars, overtaken, corrupt>>

(* STREAMOFF kills the URBs first, without the mutex.                      *)
Streamoff ==
  /\ Running /\ ctl = "idle" /\ ctl' = "off"
  /\ UNCHANGED <<count, bufVars, mainq, irqq, maps, flagVars, dqVars, usbVars, hVars,
                 overtaken, corrupt>>

(* The last reference to the file is gone: no call and no mapping is left. *)
Release ==
  /\ HasMutex /\ ctl = "idle" /\ maps = 0 /\ ctl' = "close"
  /\ UNCHANGED <<count, bufVars, mainq, irqq, maps, flagVars, dqVars, usbVars, hVars,
                 overtaken, corrupt>>

(* The processes are frozen before the device is suspended; a sleeping     *)
(* DQBUF is interrupted.                                                   *)
Suspend ==
  /\ HasMutex /\ ctl = "idle" /\ ~unplugged
  /\ frozen' = (frozen \/ on) /\ ctl' = (IF on THEN "suspend" ELSE "suspended")
  /\ UNCHANGED <<count, bufVars, mainq, irqq, maps, flagVars, dqVars, unplugged, lastFid, live,
                 hVars, overtaken, corrupt>>

(* uvc_video_resume: the stream goes on, or is not running ...             *)
Resume ==
  /\ ctl = "suspended" /\ ~unplugged /\ frozen' = FALSE /\ ctl' = "idle"
  /\ lastFid' = -1 /\ live' = (IF on THEN NUrb ELSE live) 
  /\ passed' = (HeadOr0(irqq) # 0 /\ used[HeadOr0(irqq)] # 0)
  /\ UNCHANGED <<count, bstate, used, mixed, mainq, irqq, maps, flagVars, dqVars, unplugged,
                 hVars, overtaken, corrupt>>

(* ... or the commit or a submission fails, and the stream is stopped.     *)
ResumeFails(n) ==
  /\ ctl = "suspended" /\ ~unplugged /\ (~on => n = 0)
  /\ frozen' = FALSE /\ ctl' = "restop" /\ live' = n /\ lastFid' = -1
  /\ UNCHANGED <<count, bufVars, mainq, irqq, maps, flagVars, dqVars, unplugged,
                 hVars, overtaken, corrupt>>

(* Nobody resumes a device that is gone; the processes run again.          *)
ThawUnplugged ==
  /\ ctl = "suspended" /\ unplugged /\ ctl' = "idle"
  /\ UNCHANGED <<count, bufVars, mainq, irqq, maps, flagVars, dqVars, usbVars, hVars,
                 overtaken, corrupt>>

(* Every URB has been given back: usb_kill_urb waits for each.             *)
Killed == live = 0 /\ h = "idle"

(* uvc_uninit_video is through, with nothing else to do.                   *)
UninitDone ==
  /\ ctl \in {"undo", "suspend"} /\ Killed
  /\ ctl' = (IF ctl = "undo" THEN "idle" ELSE "suspended") /\ lastFid' = -1
  /\ UNCHANGED <<count, bufVars, mainq, irqq, maps, flagVars, dqVars, unplugged, frozen, live,
                 hVars, overtaken, corrupt>>

(* Mutant: the buffers stay on mainqueue. *)
DisableKeepsMain ==
  /\ ctl \in {"off", "close", "restop"} /\ Killed /\ dqBuf = 0
  /\ irqq' = << >> /\ UNCHANGED mainq
  /\ bstate' = [b \in Buffers |-> "IDLE"]
  /\ used' = [b \in Buffers |-> 0] /\ mixed' = [b \in Buffers |-> FALSE] /\ passed' = FALSE
  /\ on' = FALSE /\ lastFid' = -1
  /\ count' = (IF ctl = "close" THEN 0 ELSE count)
  /\ ctl' = (IF ctl = "close" THEN "closed" ELSE "idle")
  /\ UNCHANGED <<maps, disconnected, drop, dqVars, unplugged, frozen, live, hVars,
                 overtaken, corrupt>>

(* uvc_queue_enable(0), when the mutex is free: the queue is cancelled, and *)
(* every buffer is IDLE again; release also frees them.                    *)
Disable ==
  /\ ctl \in {"off", "close", "restop"} /\ Killed /\ dqBuf = 0
  /\ irqq' = << >> /\ mainq' = << >>
  /\ bstate' = [b \in Buffers |-> "IDLE"]
  /\ used' = [b \in Buffers |-> 0] /\ mixed' = [b \in Buffers |-> FALSE] /\ passed' = FALSE
  /\ on' = FALSE /\ lastFid' = -1
  /\ count' = (IF ctl = "close" THEN 0 ELSE count)
  /\ ctl' = (IF ctl = "close" THEN "closed" ELSE "idle")
  /\ UNCHANGED <<maps, disconnected, drop, dqVars, unplugged, frozen, live, hVars,
                 overtaken, corrupt>>

Open ==
  /\ ctl = "closed" /\ ~unplugged /\ ctl' = "idle"
  /\ UNCHANGED <<count, bufVars, mainq, irqq, maps, flagVars, dqVars, usbVars, hVars,
                 overtaken, corrupt>>

-----------------------------------------------------------------------------
(* The completion handler.                                                 *)

Unplug ==
  /\ ~unplugged /\ unplugged' = TRUE
  /\ UNCHANGED <<count, bufVars, mainq, irqq, maps, flagVars, dqVars, ctl, frozen, lastFid, live,
                 hVars, overtaken, corrupt>>

(* uvc_video_complete with a status: -ENOENT when uvc_uninit_video kills   *)
(* the URB, -ESHUTDOWN when the device is gone, or an error of the bus.    *)
(* uvc_queue_cancel ends all waiting buffers, unless the device is frozen. *)
CompleteStatus(shutdown) ==
  /\ h = "idle" /\ live > 0 /\ live' = live - 1
  /\ shutdown => unplugged
  /\ IF frozen /\ ~shutdown THEN UNCHANGED <<bstate, passed, irqq, disconnected, dqAsleep>>
     ELSE /\ bstate' = [b \in Buffers |-> IF b \in Range(irqq) THEN "ERROR" ELSE bstate[b]]
          /\ irqq' = << >> /\ passed' = FALSE /\ Wake(Range(irqq))
          /\ disconnected' = (disconnected \/ shutdown)
  /\ UNCHANGED <<count, used, mixed, mainq, maps, on, drop, dqBuf, dqTakes, ctl, unplugged,
                 frozen, lastFid, hVars, overtaken, corrupt>>

(* Mutant: the buffer that was queued last. *)
CompleteTakesLast ==
  /\ h = "idle" /\ live > 0 /\ ~unplugged
  /\ live' = live - 1 /\ h' = "packet" /\ hPkt' = 0 /\ hAgain' = -1
  /\ hBuf' = IF irqq = << >> THEN 0 ELSE irqq[Len(irqq)]
  /\ UNCHANGED <<count, bufVars, mainq, irqq, maps, flagVars, dqVars, ctl, unplugged, frozen,
                 lastFid, overtaken, corrupt>>

(* ... and without: the first buffer of irqqueue, if any, is filled.       *)
Complete ==
  /\ h = "idle" /\ live > 0 /\ ~unplugged
  /\ live' = live - 1 /\ h' = "packet" /\ hPkt' = 0 /\ hAgain' = -1
  /\ hBuf' = HeadOr0(irqq)
  /\ UNCHANGED <<count, bufVars, mainq, irqq, maps, flagVars, dqVars, ctl, unplugged, frozen,
                 lastFid, overtaken, corrupt>>

(* The next packet, or once more the one that ended a frame.               *)
Decoding(fid) ==
  /\ h = "packet" /\ (IF hAgain = -1 THEN hPkt < NPkt ELSE fid = hAgain)

PacketDone == hPkt' = hPkt + 1 /\ hAgain' = -1

(* A packet that is lost, too short or has the error bit.                  *)
Skip ==
  /\ h = "packet" /\ hAgain = -1 /\ hPkt < NPkt /\ PacketDone
  /\ UNCHANGED <<count, bufVars, mainq, irqq, maps, flagVars, dqVars, ctl, usbVars, h, hBuf,
                 overtaken, corrupt>>

DecodeNoBuffer(fid) ==
  /\ Decoding(fid) /\ hBuf = 0
  /\ lastFid' = fid /\ PacketDone
  /\ UNCHANGED <<count, bufVars, mainq, irqq, maps, flagVars, dqVars, ctl, unplugged, frozen, live,
                 h, hBuf, overtaken, corrupt>>

InSync(fid) == bstate[hBuf] = "ACTIVE" \/ fid # lastFid

DecodeOutOfSync(fid) ==
  /\ Decoding(fid) /\ hBuf # 0 /\ ~InSync(fid) /\ PacketDone
  /\ UNCHANGED <<count, bufVars, mainq, irqq, maps, flagVars, dqVars, ctl, usbVars, h, hBuf,
                 overtaken, corrupt>>

(* Mutant: the FID that toggles is not noticed. *)
ToggledNever(fid) == FALSE

Toggled(fid) == fid # lastFid /\ used[hBuf] # 0

(* Whether the buffer DONE with that many bytes is to be put back.         *)
AfterDone(bytes) == IF drop /\ bytes # Length THEN "drop" ELSE "next"

(* The packet begins the next frame: the buffer is DONE.                   *)
DecodeToggled(fid) ==
  /\ Decoding(fid) /\ hBuf # 0 /\ InSync(fid) /\ Toggled(fid)
  /\ bstate' = [bstate EXCEPT ![hBuf] = "DONE"]
  /\ h' = AfterDone(used[hBuf]) /\ hAgain' = fid
  /\ UNCHANGED <<count, used, mixed, passed, mainq, irqq, maps, flagVars, dqVars, ctl, usbVars,
                 hBuf, hPkt, overtaken, corrupt>>

(* Mutant: more than there is room for. *)
CopiedAll(len) == len

Copied(len) == IF len <= Length - used[hBuf] THEN len ELSE Length - used[hBuf]

(* The data in the buffer are known to be of an earlier frame than the     *)
(* packet: a FID or a restart of the stream between them told so.  (When   *)
(* all that is between them is lost nothing tells, and the packet counts   *)
(* as one of the same frame.)                                              *)
Over(fid) == used[hBuf] # 0 /\ (passed \/ fid # lastFid)

(* uvc_video_decode_data and _end: the data are copied as far as they fit. *)
(* The buffer is DONE when some do not, and again, or for the first time,  *)
(* when the packet has the EOF bit and the buffer has data.                *)
DecodeStore(fid, len, eof) ==
  LET overflow == len > Length - used[hBuf]
      total    == used[hBuf] + Copied(len)
  IN
  /\ Decoding(fid) /\ hBuf # 0 /\ InSync(fid) /\ ~Toggled(fid)
  /\ lastFid' = fid /\ PacketDone
  /\ used' = [used EXCEPT ![hBuf] = total]
  /\ passed' = (Copied(len) = 0 /\ Over(fid))
  /\ mixed' = [mixed EXCEPT ![hBuf] = @ \/ (Copied(len) > 0 /\ Over(fid))]
  /\ bstate' = [bstate EXCEPT ![hBuf] = IF overflow \/ (eof /\ total # 0) THEN "DONE" ELSE "ACTIVE"]
  /\ h' = IF overflow /\ eof THEN "eof" ELSE IF overflow \/ (eof /\ total # 0) THEN "look" ELSE h
  /\ UNCHANGED <<count, mainq, irqq, maps, flagVars, dqVars, ctl, unplugged, frozen, live,
                 hBuf, overtaken, corrupt>>

(* uvc_video_decode_end after an overflow: DONE for the second time.       *)
DecodeEnd ==
  /\ h = "eof"
  /\ bstate' = [bstate EXCEPT ![hBuf] = "DONE"] /\ h' = "look"
  /\ UNCHANGED <<count, used, mixed, passed, mainq, irqq, maps, flagVars, dqVars, ctl, usbVars,
                 hBuf, hPkt, hAgain, overtaken, corrupt>>

(* The handler reads the state again, and goes on with the same buffer if  *)
(* DQBUF has made it IDLE.                                                 *)
Look ==
  /\ h = "look"
  /\ h' = (IF bstate[hBuf] \in {"DONE", "ERROR"} THEN AfterDone(used[hBuf]) ELSE "packet")
  /\ UNCHANGED <<count, bufVars, mainq, irqq, maps, flagVars, dqVars, ctl, usbVars,
                 hBuf, hPkt, hAgain, overtaken, corrupt>>

(* uvc_queue_next_buffer puts an incomplete buffer back, without a lock ...*)
NextBufferDrops ==
  /\ h = "drop"
  /\ bstate' = [bstate EXCEPT ![hBuf] = "QUEUED"]
  /\ used' = [used EXCEPT ![hBuf] = 0] /\ mixed' = [mixed EXCEPT ![hBuf] = FALSE] /\ passed' = FALSE
  /\ h' = "packet"
  /\ UNCHANGED <<count, mainq, irqq, maps, flagVars, dqVars, ctl, usbVars, hBuf, hPkt, hAgain,
                 overtaken, corrupt>>

(* Mutant: nobody is woken. *)
NextBufferNoWake ==
  /\ h = "next"
  /\ irqq' = Unlinked(irqq, hBuf) /\ hBuf' = HeadOr0(irqq')
  /\ h' = "packet" /\ passed' = FALSE
  /\ UNCHANGED <<count, bstate, used, mixed, mainq, maps, flagVars, dqVars, ctl, usbVars, hPkt,
                 hAgain, overtaken, corrupt>>

(* ... or unlinks it, wakes who waits for it, and goes on with the next.   *)
NextBuffer ==
  /\ h = "next"
  /\ irqq' = Unlinked(irqq, hBuf) /\ Wake({hBuf}) /\ hBuf' = HeadOr0(irqq')
  /\ h' = "packet" /\ passed' = FALSE
  /\ UNCHANGED <<count, bstate, used, mixed, mainq, maps, flagVars, dqBuf, dqTakes, ctl, usbVars,
                 hPkt, hAgain, overtaken, corrupt>>

(* The URB is submitted again; that may fail, and does for one that is     *)
(* being killed and when the device is gone.                               *)
Resubmit ==
  /\ h = "packet" /\ hPkt = NPkt /\ hAgain = -1
  /\ h' = "idle" /\ hBuf' = 0 /\ hPkt' = 0
  /\ live' \in {live} \cup (IF unplugged THEN {} ELSE {live + 1})
  /\ UNCHANGED <<count, bufVars, mainq, irqq, maps, flagVars, dqVars, ctl, unplugged, frozen,
                 lastFid, hAgain, overtaken, corrupt>>

-----------------------------------------------------------------------------
Ioctl ==
  \/ \E n \in 0 .. NBuf : Reqbufs(n)
  \/ Mmap \/ Munmap \/ \E b \in Buffers : Qbuf(b)
  \/ Dqbuf \/ DqbufSleep \/ DqbufTake \/ DqbufGive \/ DqbufInterrupted

Control ==
  \/ Streamon \/ InitVideo \/ \E n \in 0 .. NUrb - 1 : InitVideoFails(n) \/ ResumeFails(n)
  \/ Streamoff \/ Release \/ Open
  \/ Suspend \/ Resume \/ ThawUnplugged
  \/ UninitDone \/ Disable

Decode ==
  \/ Skip
  \/ \E fid \in {0, 1} :
       \/ DecodeNoBuffer(fid) \/ DecodeOutOfSync(fid) \/ DecodeToggled(fid)
       \/ \E len \in 0 .. MaxPayload, eof \in BOOLEAN : DecodeStore(fid, len, eof)

Handler == Decode \/ DecodeEnd \/ Look \/ NextBufferDrops \/ NextBuffer \/ Resubmit

Usb ==
  \/ Unplug \/ Complete
  \/ \E shutdown \in BOOLEAN : CompleteStatus(shutdown)

(* After a list is corrupted nothing can be said.                          *)
Next == ~corrupt /\ (Ioctl \/ Control \/ Handler \/ Usb)

Spec == Init /\ [][Next]_vars

-----------------------------------------------------------------------------
(* Properties.                                                             *)

(* The types; what is counted stays within its bounds, so that no data are *)
(* copied past the end of a buffer.                                        *)
TypeOK ==
  /\ count \in 0 .. NBuf
  /\ bstate \in [Buffers -> {"IDLE", "QUEUED", "ACTIVE", "DONE", "ERROR"}]
  /\ used \in [Buffers -> 0 .. Length]
  /\ mixed \in [Buffers -> BOOLEAN] /\ passed \in BOOLEAN
  /\ mainq \in Seq(Buffers) /\ irqq \in Seq(Buffers) /\ maps \in 0 .. MaxMaps
  /\ on \in BOOLEAN /\ disconnected \in BOOLEAN /\ drop \in BOOLEAN
  /\ dqBuf \in Buffers \cup {0} /\ dqAsleep \in BOOLEAN /\ dqTakes \in BOOLEAN
  /\ ctl \in {"idle", "on", "off", "close", "closed", "undo", "suspend", "suspended", "restop"}
  /\ unplugged \in BOOLEAN /\ frozen \in BOOLEAN /\ lastFid \in {-1, 0, 1}
  /\ live \in 0 .. NUrb
  /\ h \in {"idle", "packet", "eof", "look", "drop", "next"} /\ hBuf \in Buffers \cup {0}
  /\ hPkt \in 0 .. NPkt /\ hAgain \in {-1, 0, 1}
  /\ overtaken \in BOOLEAN /\ corrupt \in BOOLEAN

(* The handler has made its buffer DONE.                                   *)
Finishing == {"eof", "look", "drop", "next"}

(* What is on irqqueue, without the buffer the handler has finished.       *)
Wanting == IF h \in Finishing THEN Tail(irqq) ELSE irqq

(* How many buffers in front of mainqueue are finished.                    *)
Finished == Len(mainq) - Len(Wanting)

(* Lists and states say the same between the steps that change them.  What *)
(* is not IDLE is on mainqueue, once.  The end of mainqueue is irqqueue:   *)
(* those are the buffers that want data, and only the first of them has    *)
(* some; those before it are finished.  The handler fills the first of     *)
(* irqqueue, DQBUF waits for the first of mainqueue.                       *)
QueuesAgree ==
  ~corrupt /\ ~overtaken =>
    /\ Finished >= 0 /\ \A i \in 1 .. Len(Wanting) : Wanting[i] = mainq[Finished + i]
    /\ \A i, j \in 1 .. Len(mainq) : mainq[i] = mainq[j] => i = j
    /\ \A i \in 1 .. Len(mainq) :
         bstate[mainq[i]] \in IF i <= Finished THEN {"DONE", "ERROR"}
                              ELSE IF i = Finished + 1 THEN {"QUEUED", "ACTIVE"}
                              ELSE {"QUEUED"}
    /\ \A b \in Buffers \ Range(mainq) : bstate[b] = "IDLE"
    /\ Range(mainq) \subseteq 1 .. count
    /\ hBuf # 0 => hBuf = HeadOr0(irqq)
    /\ h \in Finishing /\ bstate[hBuf] # "IDLE" => Finished > 0 /\ hBuf = mainq[Finished]
    /\ dqBuf # 0 => dqBuf = HeadOr0(mainq)

(* A finished buffer has data, and never of two frames between which a FID *)
(* or a restart was seen, whatever else is lost and wherever the stream is *)
(* suspended; and it is full when incomplete frames are dropped            *)
(* (uvc_queue.c:483).  Frames with the same FID do share a buffer when all *)
(* that is between them is lost (uvc_video.c:433): the property does not   *)
(* deny it.                                                                *)
OneFrame ==
  ~corrupt => \A b \in 1 .. count :
    bstate[b] = "DONE" =>
      /\ used[b] > 0 /\ ~mixed[b]
      /\ drop /\ ~Unsettled(b) => used[b] = Length

(* The comment at uvc_queue.c:466: once the handler has told that the      *)
(* device is gone, no buffer waits for data, so that DQBUF cannot sleep    *)
(* forever.                                                                *)
DisconnectedIsDrained ==
  disconnected /\ ~corrupt =>
    irqq = << >> /\ \A b \in 1 .. count : bstate[b] \notin {"QUEUED", "ACTIVE"}

(* No wakeup is lost: DQBUF sleeps only while its buffer wants data, or the *)
(* handler is about to wake it or to put the buffer back; also when URBs    *)
(* are killed and when the device is gone.                                 *)
SleeperIsWoken ==
  dqAsleep => \/ bstate[dqBuf] \in {"QUEUED", "ACTIVE"}
              \/ h \in Finishing /\ hBuf = dqBuf

=============================================================================
