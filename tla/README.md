# A verification project for the WDS_PRJ video system

WDS_PRJ is a video capture and display system for an S3C2440 board (ARM, one
CPU, Linux 2.6/3.x): three camera drivers written against V4L2, the I2C adapter
driver the CMOS sensor needs, and an application that shows a camera on a
screen. Its README prescribes the UVC driver of Linux for USB cameras, whose
source is in `src/video/uvc`. The repository holds several generations of each
program (`src/myuvc/1..11th`, `src/myvivi/1..7th`, `src/video2lcd/1th..`); the
models follow the most complete one. Line numbers are those of the GB18030
files, counted at every `\n`.

## 1. Inventory

### 1.1 Components, their state and their operations

| component | source | state | operations |
|---|---|---|---|
| I2C adapter | `src/ov7740/i2c_bus_s3c2440.c` | one global `s3c2440_i2c_xfer_data`: `msgs`, `msn_num`, `cur_msg`, `cur_ptr`, `state`, `err`, wait queue; controller registers | `s3c2440_i2c_xfer` (process), `s3c2440_i2c_xfer_irq` (interrupt), `start`, `stop` |
| UVC driver | `src/ov7740/参考源码/myuvc/12th/myuvc.c` (the finished program of which `src/myuvc` holds the increments) | `struct myuvc_queue`: buffers, `mainqueue`, `irqqueue`, the URBs | `vidioc_reqbufs/querybuf/qbuf/dqbuf/streamon/streamoff`, `poll`, `mmap`, `munmap`, `video_complete` (interrupt), `probe`, `disconnect` |
| virtual driver | `src/myvivi/7th/myvivi.c` on `src/video/videobuf-core.c`, `videobuf-vmalloc.c` | `struct videobuf_queue` (`bufs`, `stream`, `streaming`, `reading`), `myvivi_vb_local_queue`, the timer | videobuf ioctls, `poll`, `mmap`, `open`, `close`, timer function |
| CMOS capture driver | `src/ov7740/cmos_ov7740_drv.c` | `img_buff[4]`, `bytesperline`, `buf_size`, scaler parameters, `ev_cam`, CAMIF registers | `s_fmt`, `reqbufs`, `streamon`, `streamoff`, `read`, `release`, interrupts, `probe`, `remove` |
| application | `src/video2lcd/video2lcd` | device, converter, display and frame buffers of `main.c` | `InitDevice`, `GetFrame`, `PutFrame`, converters, zoom, merge, `FlushPixelDatasToDev` |
| Linux UVC driver | `src/video/uvc` | `uvc_video_queue`: `buffer[]`, `mainqueue`, `irqqueue`, `flags`; `uvc_video_device`: `urb[]`, `last_fid`, `frozen` | `uvc_v4l2_open/release/mmap`, the buffer ioctls, `uvc_video_enable`, `uvc_video_complete`, `disconnect`, `suspend`, `resume` |
| video memory pool (called by nobody) | `display/disp_manager.c` | list of `T_VideoMem` with `eVideoMemState`, `ePicState`, `iID` | `AllocVideoMem`, `GetVideoMem`, `PutVideoMem`, ... |
| pixel operations | `render/operation/zoom.c`, `merge.c`, `convert/*.c` | none | `PicZoom`, `PicMerge`, `PicMergeRegion`, converters |
| debug client | `src/video2lcd/video2lcd/netprint_client.c` | socket, thread | UDP print protocol |

Vendored code: `src/video` is a copy of Linux `drivers/media/video` (583 files);
the two videobuf files the virtual driver is built on and the UVC driver matter here.
`src/参考` is luvcview; the rest are logs and course material.

### 1.2 How they interact

`main.c` drives `video/v4l2.c`, which issues the V4L2 ioctls of whichever camera
driver is behind `/dev/videoN`: REQBUFS, QUERYBUF + mmap and QBUF for each
buffer, STREAMON, then the loop poll, DQBUF, convert, zoom, merge, flush, QBUF.
A driver's file operations run in process context; frames arrive from interrupt
context (UVC: URB completion; CMOS: CAMIF interrupts; virtual: a kernel timer).
The two sides share the buffer lists without a lock (myuvc, virtual timer), under a
spin lock that does not cover the states of the buffers (Linux UVC), or a single
event flag (CMOS).  The CMOS driver programs its sensor through i2c-core,
which serialises `s3c2440_i2c_xfer`.

### 1.3 What is hard

* I2C: a transfer that times out is not cancelled, so the interrupt handler can
  run on dead messages or between the assignments that set up the next call;
  the same code handles address, data, end of message over any number of messages.
* UVC: the completion handler marks a buffer DONE packet by packet and takes it off the
  interrupt list only at the end of the URB, while DQBUF and QBUF on another context use
  the state and reset the byte count the handler reads twice for one copy; buffers live
  on two lists; the count of REQBUFS is not limited; REQBUFS, STREAMON, STREAMOFF have
  no busy checks; allocation and submission can fail half way.
* virtual driver: DQBUF blocks with `vb_lock` held; the timer fills a buffer
  only when somebody waits for it and takes no lock; a failed `mmap` leaves a
  buffer that looks mapped and has no memory.
* CMOS: the format can change between REQBUFS, read and release; `ev_cam` is
  cleared after the copy; registers are OR-ed over earlier values.
* Linux UVC driver: the handler on another CPU marks a buffer DONE, then unlinks it
  or puts it back; DQBUF sleeps with the queue's mutex; the device is unplugged or
  suspended at any time; frames are told apart by one bit while packets get lost.
* application: initialisation ladder with partial failure, frame ownership on
  drivers that differ in what their ioctls return, buffers allocated once for the
  first frame's size although every JPEG picture has its own, sizes computed in float.

### 1.4 What makes each part correct

* I2C adapter: a call that returns 0 has moved every byte of every message, once
  and in order; a refusal is reported; the store of a received byte is in bounds;
  exactly the last byte of a read is not acknowledged; the walk does not stall.
* UVC driver: the copy stays inside the buffer; a buffer belongs to one side at a
  time; the two lists agree; frames come out in the order buffers were queued;
  STREAMOFF leaves nothing running; what is queued is filled.
* virtual driver: the timer's list and the stream agree, so that the sleeper and
  the timer mean the same buffer; no freed buffer is touched; sleepers are woken.
* CMOS driver: the camera writes only into frames the driver owns; pages are freed
  once and with their order; the register arithmetic is right for every format;
  read waits for, and returns, a frame.
* Linux UVC driver: lists and states agree; a finished buffer has one frame, a whole
  one where that is asked for; who sleeps in DQBUF is woken, also when the device goes.
* application: the frame in hand is the one DQBUF gave and PutFrame queues; while the
  frames have one size no memory is smaller than what is written to it; every buffer
  is shown again and again.
* pixel operations: the screen shows the whole frame, in proportion, in the middle,
  each place what lies under it.

## 2. Plan

Modules, in the order they were written:

1. `I2cBus`: the adapter, process against interrupt.
2. `UvcQueue`, with the abstract `CaptureQueue` and the mapping `UvcRefinement`.
3. `VideobufQueue`, with `VideobufRefinement` onto the same `CaptureQueue`.
4. `CmosCapture`: formats, pages, read and the camera interface.
5. `Picture` and `CaptureApp`: the pixel operations; `v4l2.c` and the loop of `main.c`,
   composed with `CaptureQueue` (the driver is whatever implements it) or reading.
6. `UvcVideoQueue`, with `UvcVideoRefinement` onto `CaptureQueue`.

`CaptureQueue` stands between the two halves of the system: three drivers are shown
to implement it, with what they promise while their sides do not collide, and the
application is checked, and proved, on top of it.  `Lists` is what the three mappings
share: the elements of a list that are in a set, in the order of the list (`Kept`).
It is a recursive function of its own, because the prover has no definition of the
library's `SelectSeq`; `ListProofs` has its laws.

Every invariant, action property and refinement the passing runs check is proved
(section 5).  What is left: a second, unprivileged handle and bulk transfers of the
Linux driver; probe and mmap of myuvc; and, in the proofs, what holds in spite of a
race: `QueuesAgree` of the two UVC drivers says nothing once a race has occurred, not
even of the buffers the race did not touch.  A further run has to replace one of the twelve.

## 3. The modules and the code

In every module a *history variable* records something the code does not keep
(what happened so far) and constrains no step; it is marked so where it is declared.

Some of them say that something has happened after which the code promises nothing,
and the properties that need the promise end there.  The model goes on (only `corrupt`
stops it), so that what the code does then is still explored, and a property that does
not need the promise is checked there too.

| history | set when | ends |
|---|---|---|
| `late` (I2C) | an interrupt comes and no call waits | the promises about that one call, but for the bounds of a read; the next call on a quiet bus has them again |
| `raced` (myuvc) | DQBUF, QBUF or the handler meet on a buffer or in the links | lists, order, ownership, `CaptureQueue`; not `CopyInBounds`, not `StoppedIsQuiet` |
| `stale` (myuvc) | QBUF empties the buffer between the two reads of `bytesused` | `CopyInBounds` for that one copy |
| `orphaned` (myuvc) | a URB in flight is lost from `urb[]` | the same as `raced`, and `StoppedIsQuiet` |
| `disturbed` (myvivi) | the timer function and a call meet, or the application leaves the usual sequence | everything but the types |
| `misused`, `dangling` (CMOS) | calls in an impossible order; a REQBUFS failed or the driver was bound again | `misused`: `DmaInside`, `NoFault`, `BurstCovers`; `dangling`: `OwnPages`, `NoFault`, not `DmaInside` |
| `varied` (application) | a frame has another size than the one before | that memory is enough, that the screen around the picture is untouched; not `FrameBelongsToApp`, not the picture itself |
| `overtaken` (Linux UVC) | DQBUF takes a buffer the handler then puts back or looks at | `QueuesAgree`, `CaptureQueue`; not `OneFrame`, `SleeperIsWoken`, `DisconnectedIsDrained` |
| `corrupt` (Linux UVC) | a linked buffer is linked again or cleared | the model |

A hazard of PROJECT.json whose bad outcome lies behind one of them has a note that
says so.

### 3.1 `I2cBus`

The state is `s3c2440_i2c_xfer_data` field by field (`msgs` and `msgAt` are the
pointer `msgs`, which `msgs++` advances), the place of the process in
`s3c2440_i2c_xfer` (`pc`), and three facts about the controller: what it is doing,
whether it will acknowledge, how many bytes it clocked.  The process has one action
per assignment of the set-up (`SetMsgs`, `SetNum`, `SetCurMsg`, `SetCurPtr`,
`SetErr`, `StartState`, `StartHw`), then it sleeps until `Return` or `Timeout`.
`Irq` is the whole handler with its fall-through from START to WRITE or READ.  The
board has one CPU: the handler is atomic, but may come between any two assignments.
A timeout changes neither the controller nor `state`, so an operation may stay
outstanding; `late` records that since the last call began an interrupt came that no
waiting call was due.  `ReadInBounds` is about every interrupt that stores a byte, the
late ones included: for a call that waits the byte goes to its place; if none waits the
last call has timed out, and its buffer, which belongs to a caller that has gone on, is
still not left.

### 3.2 `UvcQueue`, `CaptureQueue`, `UvcRefinement`

The ioctls of myuvc run under the big kernel lock (`video_ioctl2` installed as
`.ioctl`), the completion handler takes no lock.  So an ioctl is one action, except
for the insertion of QBUF into `irqqueue`, which is modelled pointer by pointer
(`ReadTail`, `LinkHead`, `LinkNew`, `LinkTail`).  The handler has an action for each
access a call on another CPU can come between: it reads `bytesused` for `dest`
(`PacketDest`) and again for `maxlen`, and copies (`PacketCopy`), reads it to add
(`PacketAdd`), writes the sum (`PacketStore`), tests for a full buffer (`PacketFull`) and
for EOF (`PacketEof`), and the two writes of its `list_del` are apart.  `irqqueue` is therefore links
(`next`, `prev`), while `mainqueue`, which only ioctls touch, is a sequence.
`REQBUFS` zeroes the whole structure: URBs that are in flight then are no longer
reachable (`orphans`).  `QueuesAgree` relates the two lists: `irqqueue` is `Linked`, forward
and backward, through the buffers of `mainqueue` that are not filled (`Unfilled`), in that
order; while QBUF or the handler is between two pointer writes it says nothing, and the
invariant of section 5 says what the links are then.  Sizes are in units of payload.
The array has `NBuf` entries (32 in the code) and REQBUFS does not limit the count
(`ReqbufsTooMany`).  `CopyInBounds` is an action property: at the copy, destination and
length together stay inside the buffer, unless QBUF emptied the buffer between the two
reads (`stale`).  poll has no action: `myuvc_poll` only looks at the state of the first
of `mainqueue`, which DQBUF does again, and its sleep ends by the `wake_up` that stands
with the unlinking; no property is about it.
`raced` and `orphaned` record that both sides met on a buffer or in the links, and that a
URB was lost.

`CaptureQueue` is what an application may rely on: a buffer is held, waiting or
filled; filled in the order queued, handed out in the order filled, and only while
streaming.  It may be `broken` at any time, after which it promises nothing; the
mapping makes that so only after a race or a lost URB.  `Discard` is there for the
Linux driver: the buffers that wait go back to the application in error when the
device is gone.

### 3.3 `VideobufQueue`, `VideobufRefinement`

Every videobuf call holds `vb_lock`, so a call is one action, except for a DQBUF that
sleeps on a buffer with the lock held, and poll, which sleeps without it.
`myvivi_timer_function` takes no lock at all and has one action per access
(`TimerStart`, `TimerFill`, `TimerUnlink`, `TimerUnlinked`, `TimerWake`, `TimerRearm`).
The program is built for a PC kernel (the Makefile names
`linux-headers-2.6.31-generic`), so the timer may run on another CPU in the middle of a
call.  `videobuf_buffer` structures come from a pool, so that a pointer to freed memory
is visible; which free structures REQBUFS gets is left open (`Allocate`), and so is
which of its allocations fails (`ReqbufsNoMemory`, whose roll-back frees only some).
Memory is `mapped` (map and `baddr` are set), `backed` (`vmalloc` is memory) and `vma`
(the application has it): a failed `mmap` (`MmapFails`) leaves a buffer `mapped` and not
`backed`, which QBUF takes and the timer function writes to.  A thread asleep in DQBUF
goes on only when the timer function's, or a cancelling call's, `wake_up` has made it
`buf_woken`.  Not followed: a map's memory that somebody else gets, and the length of
the memory (S_FMT after REQBUFS, `myvivi.c:68`).  `disturbed` records that the timer
function and a call met on one buffer or list, that a poll started a read, an allocation
failed, a second open, or that an unmapped buffer was started.

### 3.4 `CmosCapture`

The driver's static variables (`target`, `buf_size`, `bytesperline`, `img`, `sc`,
`ev_cam`), the registers that matter (`addr` for CIPRCLRSA1..4, `burst` for CIPRCTRL,
`enabled` for CIIMGCPT, and `ctrl` for the main ratios in CIPRSCCTRL, into which every
STREAMON ors its own and only the reset clears), and the page allocator (`pages`: the
order of each block, or `Free`).  Each ioctl is one action; `ReqbufsFails(t, n)` is
REQBUFS whose allocation `n + 1` fails; `read` is several steps, because it sleeps and
then copies buffer after buffer with interrupts and other threads' ioctls in between; a
copy may fail (`ReadFails`), which leaves `ev_cam` set.  `RemoveUnmaps` and
`RemoveFrees` are the two halves of unbinding, between which the interrupt is still
installed; `Probe` binds the driver again with its static variables as they were left.
Faults (a wrong free, a copy from memory the driver does not have, the handler on
unmapped registers, a division by zero) stop the model.  `ready`, `filled`, `dangling`
and `misused` are history.  A *misuse* is one of the orders nobody can expect to work:
S_FMT while streaming or reading, STREAMON or read without REQBUFS since S_FMT, close
while streaming, unbinding after S_FMT without a new REQBUFS.

### 3.5 `Picture`, `CaptureApp`

`Picture` holds the pure part: the size `main.c` zooms to, `PicZoom`, `PicMerge` and
the formats the converters accept.  A picture maps places to pixels; a pixel is an
identity, so that one can see where it came from.  A quotient computed in float may
come out one below when it is exact (`Truncated`); sizes so large that rounding
could cross an integer are left out.  `iLineBytes` is always the width times the
bytes of a pixel, so places are counted in pixels.

`CaptureApp` is `main` from `VideoDeviceInit` on: one action per call of
`V4l2InitDevice` (`Negotiate`, `Reqbufs`, `MapBuffer`, `QueueBuffer`,
`ReadWriteMode`), then per stage of the loop (`GetFrame...`, `Convert`, `Zoom`,
`Merge`, `PutFrame...`).  Its driver is `CaptureQueue` with `broken` FALSE: the
application is one thread that keeps the order of the ioctls, and that is when the
drivers keep their promise.  The drivers differ in what they tell the application; a
camera is a record of that: it streams or is read, its formats and sizes, whether
REQBUFS returns a count, whether DQBUF writes the index, whether close stops it.
myuvc returns the count, which `v4l2.c:147` takes for an error: the application never
gets to the DQBUF that names no buffer.  Every error ends the program; nobody calls
StopDevice or ExitDevice.  Each frame brings its size: the JPEG pictures of a camera may
differ, the others have the size S_FMT answered.  The converted and the zoomed picture
have memory once, for the first frame (`convBytes`, `zoomBytes`); a larger one is the
step to `overrun`, where the model ends (`Within`).  Either `malloc` may fail, which
ends the program in one way or another (`Failure`).  The converters are `Yuv2RgbConvert`
and `Mjpeg2RgbConvert`; the one from RGB565 only says it converts to RGB565 and is never
called.
Assumed: the `malloc` of `PicZoom`'s table succeeds; a YUYV frame has an even number
of pixels (`PairsAssumption`); some format is supported (`iPixelFormat` is read
uninitialised at `v4l2.c:112` otherwise).  The memory of the CRT screen is never cleared:
around the picture it is `Unset`.

### 3.6 `UvcVideoQueue`, `UvcVideoRefinement`

`mainq` and `irqq` are the two lists, `bstate`, `used` and `maps` the fields of the
buffers.  ioctls run under the big kernel lock, which a call that sleeps gives up; what
serialises the calls then is `queue->mutex`, which DQBUF holds while it waits (`dqBuf`):
so a call is one action, except DQBUF (`Dqbuf`, `DqbufSleep`, `DqbufTake`,
`DqbufInterrupted`) and starting and stopping, which wait for URBs and for the mutex
(`ctl` says where: `Streamon` / `InitVideo`, `Streamoff` / `Disable`, `Suspend` /
`UninitDone` / `Resume`, ...).  The completion handler is on another CPU; it handles one
URB at a time, and has an action per packet, per turn of the loop around
`uvc_video_decode_start`, and, because nothing locks the state of a buffer against
DQBUF, for each access that follows a buffer's end: DONE for the first time
(`DecodeStore`), DONE again at EOF (`DecodeEnd`), the second look at the state (`Look`),
then `NextBufferDrops` (put back) or `NextBuffer` (unlink and wake).  DQBUF's own look
at the state and its write of IDLE are apart as well (`dqTakes`).  `Unlinked` takes a
buffer off a list only when it is first there, which `QueuesAgree` shows it is; after
`overtaken` (DQBUF took a buffer before the handler's second look, or before it is put
back) or `corrupt` (a linked buffer is linked again or cleared) less, or nothing, is
said.  For fewer states, `used` is 0 while a buffer is IDLE and `lastFid` is -1 while
there are no URBs. `passed` and `mixed` are history, and tell frames apart where the
driver can: `passed` says that a sign was seen (another FID, EOF, a restart) that the
frame in the first buffer of `irqqueue` is over, `mixed` that data were added after
that.  Where all signs are lost two frames of the same FID share a buffer
(`uvc_video.c:433`), and `OneFrame` does not deny it.  Simplified: one privileged
handle, whose stream one thread switches at a time; poll only reads; isochronous capture
without the quirks; the memory itself is not a part of the state.

## 4. Runs

| run | specification | bounds | about | result |
|---|---|---|---|---|
| `i2c_safety` | `AnsweringSpec` | all transfers of 1 or 2 messages of 0..2 bytes (`MCTransfers`, `MaxMsgs` 2) | the promises of 1.4, in order and to the end | holds, 183 000 states |
| `i2c_late_irq` | `Spec` | three transfers up to 3 messages | success after a timed-out call | violated |
| `uvc_safety` | `FairSpec` | 2 buffers, 2 URBs of 2 packets, `Length` 2, `MaxPayload` 2, `MaxOrphans` 0, orderly | memory, ownership, agreement of the lists, STREAMOFF; what is queued is filled | holds, 1 246 000 |
| `uvc_any_order` | `Spec` | the same with `MaxOrphans` 1, any order | `CopyInBounds`, `CaptureQueue` | holds, 7 788 000 |
| `uvc_done_open` | `Spec` | 2 buffers, 1 URB of 2 packets | a DONE buffer is not written | violated |
| `vb_safety` | `FairSpec` | 2 threads, `NBuf` 2, `Pool` 2, `MaxOpens` 1, signals | lists, memory, `CaptureQueue`, sleepers | holds, 408 000 |
| `vb_poll_two` | `FairSpec` | the same without signals | frames keep coming | violated |
| `cmos_safety` | `FairSpec` | 2 threads, 3 formats, 8 blocks, signals, orderly | memory, faults, arithmetic, readers | holds, 740 000 |
| `cmos_stale` | `Spec` | 1 thread, no signals | read returns what the camera wrote | violated |
| `app_safety` | `FairSpec` | 5 cameras with 5 sizes each (JPEG: 3, which may follow one another), 2 screens, `NbBuffer` 3 | ownership, memory, the picture, every buffer is shown | holds, 54 500 |
| `app_converters` | `Spec` | the 2 cameras of `src/video2lcd/README.md`, the screen of `main.c:58` | the program ends only on a failure | violated |
| `uvcvideo_safety` | `Spec` | 2 buffers, 2 URBs of 2 packets, `Length` 2, `MaxPayload` 1, 1 mapping | lists, frames, sleeper, unplugging, `CaptureQueue` | holds, 1 228 000 |

What the violations show:

* `i2c_late_irq`: a call times out and returns with its byte still on the wire; the
  next call sets `STATE_START`, the old byte's interrupt comes before the START is
  written to `iicstat`, is taken for the answer to the new address and moves the
  cursor: the call ends with 0 and data that was never sent.
* `uvc_done_open`: the packet loop marks a buffer DONE at the frame's end and does
  not leave the loop; the packets after it, of the next frame, go to the same buffer.
* `vb_poll_two`: a poll sleeps on the first buffer, another thread dequeues it, the
  poll goes back to sleep on the wait queue of the *old* buffer; the timer function
  finds nobody waiting on the new first buffer and makes no frame.
* `cmos_stale`: the flag `ev_cam` of an unread frame survives STREAMOFF and REQBUFS.
* `app_converters`: `isSupport` of the YUYV and the RGB565 converter asks for RGB565
  twice, so that nothing converts to the 32 bit pixels of the screen `main.c` selects,
  although both converters can; the program ends before it starts the camera.

Races without a violation run of their own: QBUF of myuvc against the removal in its
handler (a QUEUED buffer then is on no interrupt list) and STREAMOFF of the virtual
driver against its timer function (a cancelled buffer is marked DONE) are where the
histories `raced` and `disturbed` become true, and the promises of `CaptureQueue` end.
In the Linux driver a STREAMOFF can hang: it kills the URBs before it takes the mutex,
and a QBUF and a DQBUF in between leave DQBUF asleep with the mutex and nothing that
fills its buffer.  Its handler, when DQBUF takes the buffer between the two looks at its
state, keeps a buffer the application holds (`overtaken`). The copy of myuvc leaves its
buffer in the one interleaving `stale` names; the picture of myvivi goes to no memory
after the failure `FilledUnbacked` names; a JPEG picture larger than the first one goes
past its memory (`overrun`).  The model reaches all of these, and the properties name
each as the only exception.

### 4.1 Bounds, and why they are enough

Message lengths 0, 1 and 2 are what the handler distinguishes (nothing, last, one before
last), two messages what it distinguishes among messages (last or not). Two buffers make
both lists have a head that is not the tail, which is where the two list updates meet;
two URBs let one be resubmitted while the other ends; two packets allow a frame to end
inside a URB.  `Length` and `MaxPayload` 2 let a packet fit, fit exactly and overrun.
`MaxOrphans` bounds the URBs that get lost, which the driver itself would go on losing;
one lets its completion meet a live one's, and an orderly application loses one only
when a submission fails half way, which `uvc_any_order` has.  Two threads are enough for
one to take what the other waits for.  `Pool` 2 makes REQBUFS reuse freed structures.
`MaxOpens` 1 leaves out the second open (the action is there; see the hazards).  Eight
blocks allow one REQBUFS on top of another and its failure at each allocation; the
formats are the sensor's own, one whose ratios are 32 and 4 exactly and whose lines
leave a remaining burst of 12 words, and one below a 64th of the sensor.  The cameras'
sizes fit the screen, are too wide, too high, both, or in exact proportion, and the JPEG
ones follow each other growing, shrinking and with an odd number of pixels; three
buffers tell "the next" from "the other".  In `UvcVideoQueue` frames have up to `Length`
2 payloads of 0 or 1, so that they end by the bit, by EOF, by overflow, and short; two
URBs let one complete while the other is killed; `MaxMaps` 1 lets REQBUFS be refused.
`Orderly` prunes what follows a misuse, and in `CmosCapture` allows a failing REQBUFS
only when none has failed since the last that succeeded; the theorems need none of these
bounds.

`CHECK_DEADLOCK FALSE` stands where the model stops at a fault or a corrupted list,
and where the program ends.

### 4.2 Fairness

`AnsweringSpec`: a runnable process is scheduled, and the controller raises the
interrupt of what it was asked to do; nothing forces a caller to call.
`FairSpec` of `UvcQueue`: a started ioctl and a started handler go on, submitted URBs
complete (the host controller completes them with or without data), and, strongly,
a packet that ends a frame comes again and again, as a camera that streams sends it.
`FairSpec` of `VideobufQueue`: a timer that is pending fires and its function runs
to the end; a thread whose wait is over runs.  `FairSpec` of `CmosCapture`: while the
camera interface is enabled it ends frames; a reader that can run does.  In the
drivers no fairness is assumed of the application's calls.  `FairSpec` of
`CaptureApp`: the program is scheduled, and a camera that streams fills what waits.

## 5. Theorems

They are of the form `Spec => []P` for an invariant, `Spec => [][A]_vars` for an action
property and `Spec => ImplementsCapture` for a refinement, for every value of the
constants, under the named assumptions of the modules.  `Spec` has no fairness, so the
theorems hold of every `FairSpec` too.

* `ListProofs` is the library of the three drivers.  The library's induction theorems
  take an operator, which the prover cannot instantiate; `WFMin` (a set with a
  well-founded relation has a minimal element) takes a set, and from it follow
  `SetInduction` over numbers and `SequenceInduction` over sequences, stated with sets.
  With them the recursion of `Kept` is shown to be well defined (`KeptUnfolds`) and
  its laws are proved: `KeptAppend`, `KeptConcat`, `KeptHead`, `KeptAlike`, `KeptKept`.
  `TwoParts` is a queue whose finished elements are in front of the others, with a
  lemma for each of its operations (append, finish the first of the others, take the first).
* `I2cBusProofs`.  Assumption: transfers are non-empty sequences of at most `MaxMsgs`
  messages.  A promise at the return of a call is not inductive; `UndisturbedInv` is:
  after a call that returned without a timeout nothing is due (`ReturnedInv`), and while
  no interrupt is `late`, during the set-up the bus is quiet and what was assigned so
  far has its value (`SetupInv`), during the wait cursor (`CursorInv`), bytes moved
  (`MovedInv`) and controller (`ControllerInv`) agree, also after the call has timed
  out.  From it `SuccessTheorem`, `ReadTheorem`, `AckTheorem` and the action property
  `OrderTheorem`.
* `UvcQueueProofs`.  Assumption: numbers are positive.  `CopyTheorem` needs that a
  handler in the packet loop has a buffer (`HandlerInv`) and what it knows of
  `bytesused` at each of its steps (`CopyInv`): the number of bytes fits by the second
  read, QBUF can only make more room after it, and the two reads agree unless QBUF came
  between. `StopTheorem` needs the counting of URBs (`UrbInv`); both hold in any order
  of calls, races included.  For the lists `QueueInv` is inductive: `RestInv` always,
  and `ListInv` while the histories say nothing has gone wrong.  `ListInv` says that the
  waiting buffers follow the filled ones in `mainqueue` (`MainInv`), which buffer the
  handler works on (`HeadInv`), what QBUF has read and written so far (`OpInv`), and
  what `next` and `prev` are at each point between two pointer writes (`LinkInv`): a
  chain through the waiting buffers (`NextChain`, `PrevChain`), or one with a link open
  at the end QBUF or the handler is at.  A lemma for each write says how it changes a
  chain, by position and without induction.  From it `NoFaultTheorem` (no pointer leads
  nowhere, for calls in order that ask for no more than `NBuf` buffers),
  `QueuesAgreeTheorem`, `DoneFirstTheorem`, the action property of `HeldTheorem`, and
  `Refinement`.
* `VideobufProofs`.  Assumptions: at least two buffers, which the pool has room for;
  `Nil` is not a thread.  `TypeCorrect` holds always; the rest, `Undisturbed`, until the
  timer function and a call meet, and is inductive only as a whole: one open file, no
  read (`SessionInv`), who sleeps does so on a buffer of the queue, in DQBUF on the
  first of the stream (`SleepInv`), the queue's structures are not free (`PoolInv`), the
  stream is what the application queued, in `TwoParts` while it streams (`StreamInv`),
  and the timer's list is what waits in the stream, behind the buffer the timer function
  has filled but not unlinked (`TimerInv`), and what waits was mapped, in vain or not
  (`MapInv`): so the one fault without an overlap is that of a mapping that failed.
  From it `NoFaultCorrect`, `QueuesAgreeCorrect` and `Refinement`.
* `CmosCaptureProofs`.  Assumptions: formats have natural sizes of 2 or 4 bytes per
  pixel, the allocator is finite.  `BurstLaw`, `ScaleLaw` and `MainLaw` are the
  register arithmetic, `OrderLaw` and `BlockLaw` the allocator.  `MInv` adds to the
  properties that a running camera belongs to an open file (`SessionInv`), that after
  REQBUFS the registers and `img_buff` are the same four blocks, large enough
  (`ReadyInv`), and that a read keeps the size it started with (`ReadInv`).  The registers
  need only that nothing but STREAMON adds to them (`OtherRegisters`).
* `PictureProofs`: laws of `Picture` for all sizes.  `DivLaw` and `DivUnique` carry the
  arithmetic; `SourceLaw` says that the source of a place lies under it,
  `TruncatedLaw` and `ZoomFits` that the picture fits the screen in proportion whatever
  the float rounding, `PicZoomLaw` and `PicMergeLaw` what each pixel of the result is.
* `CaptureAppProofs`.  Assumptions: `ConstantsAssumption` (positive sizes, 16 or 32 bits
  per pixel), `PairsAssumption` (3.5), and `DriversAssumption`: a driver whose REQBUFS
  returns 0 has a DQBUF that names the buffer, which the four drivers bear out.  Without
  it `OwnershipTheorem` is false.  `IInv` says where every buffer is at each stage of
  initialisation and loop (`QueueInv`), that sizes were negotiated (`SizeInv`), what
  picture is in hand at each stage (`PicInv`), what memory there is and that only a
  change of size overruns it (`MemInv`), and what is on the screen: the picture, and
  around it nothing while the frames have one size (`ScreenInv`); with the laws of
  `Picture` follow `MemoryTheorem` and `PictureTheorem`.
* `UvcVideoProofs`.  Assumption: numbers are positive.  `IInv` is layered by what the
  races leave intact: types, the whereabouts of URBs and handler (`StreamInv`) and
  `SleeperIsWoken` hold always; until a list is corrupted, what wants data is on `irqq`
  and only its first buffer has some (`FillInv`, `LineInv`), and no data are added after
  a sign that the frame is over (`DataInv`); until a call overtakes the handler as well,
  the lists agree (`AgreeInv`).  `AgreeInv` is one predicate, `Shape`, of the two lists
  and the states, and each operation on the lists has a lemma that says what it does to
  a `Shape`.  `Refinement` follows: `Shape` says what `Kept` is of the list for each
  state, so a step on a `Shape` is a step of `CaptureQueue`; that a buffer the handler
  is about to put back counts as waiting is what makes the order come out right.

A refinement theorem has the same three parts each time: the initial state is one of
`CaptureQueue`; a step from a state without a race is a step of it or a stutter, by one
lemma per action (`QbufIsQueue`, `DqbufIsDequeue`, `PacketIsFill`, ...); a step that
races is its `Break`, after which it promises nothing.

Only model-checked: the six liveness properties (`WalkReachesStop`, `QueuedIsFilled`,
`DqbufReturns`, `PollReturns`, `ReadersProgress`, `EveryBufferShown`), because the prover
has neither fairness nor `ENABLED`; and the five violations, which are counterexamples.

## 6. Not modelled

* Of the modelled files: UVC probe, formats, controls and mmap; the pattern generator
  and format ioctls of myvivi, module load; read and overlay of the videobuf core
  (myvivi has no `read`); in the CMOS driver the registers of source format, window,
  polarity and the scale-up bit, GPIO, clock and sensor set-up, and a REQBUFS that
  sleeps in the page allocator while another runs.  Of the virtual driver also: the
  length of mapped memory and who has freed memory next (3.3), the `kmalloc` of the
  pattern generator; a DQBUF that found no buffer queued may look again at any time, and
  no property promises that it does.
* The video memory pool of `disp_manager.c` and `PicMergeRegion`: nobody calls them.
* Of the application: colours, StopDevice, ExitDevice and ConvertExit (called by nobody),
  a second video device or display module.
* Of the Linux UVC driver: see 3.6; formats, controls, probing and the status endpoint.
* `netprint_client.c`: blocking input and output without state.
* `cmos_ov7740_dev.c`, `test_camera/main.c`: device registration, and a test of the sensor.
* JPEG decoding is libjpeg; the display back ends copy to mapped memory.
* Earlier increments of the programs, luvcview, and the vendored kernel tree but for the
  files named above.  It is nearly all of the repository's lines: drivers of
  television cards, radios and cameras this system does not have.
