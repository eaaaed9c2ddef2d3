----------------------------- MODULE CaptureApp -----------------------------
(***************************************************************************)
(* The application (src/video2lcd/video2lcd): the V4L2 device of           *)
(* video/v4l2.c and the loop of main.c, on top of a camera driver that     *)
(* keeps the promise of CaptureQueue, or that is read with read().         *)
(*                                                                         *)
(* A camera is what the ioctls of a driver tell the application:           *)
(*   mode     "streaming" or "readwrite" (QUERYCAP)                        *)
(*   formats  the formats ENUM_FMT lists, in order                         *)
(*   sizes    what S_FMT may answer, and the sizes of JPEG pictures        *)
(*   counts   REQBUFS returns the number of buffers instead of 0           *)
(*   index    DQBUF writes the index of the buffer                         *)
(*   stops    close stops the stream                                       *)
(***************************************************************************)
EXTENDS Picture, Sequences, FiniteSets, Functions

CONSTANTS Cameras,
          Displays,    \* records [w, h, bpp]: what DeviceInit sets
          NbBuffer     \* NB_BUFFER

ASSUME ConstantsAssumption ==
  /\ NbBuffer \in Nat \ {0}
  /\ Displays \subseteq [w : Nat \ {0}, h : Nat \ {0}, bpp : {16, 32}]
  /\ \A c \in Cameras :
       /\ c.mode \in {"streaming", "readwrite"}
       /\ c.formats \in Seq(STRING) /\ c.sizes \subseteq (Nat \ {0}) \X (Nat \ {0})
       /\ {c.counts, c.index, c.stops} \subseteq BOOLEAN

(* YUYV gives two pixels in four bytes: no camera sends half of that.      *)
ASSUME PairsAssumption ==
  \A c \in Cameras :
    "YUYV" \in Range(c.formats) => \A s \in c.sizes : (s[1] * s[2]) % 2 = 0

(* Every driver whose REQBUFS returns 0 has a DQBUF that names the buffer  *)
(* (videobuf_dqbuf, uvc_dequeue_buffer); myuvc's names none, and its       *)
(* REQBUFS returns the number of buffers.                                  *)
ASSUME DriversAssumption ==
  \A c \in Cameras : c.mode = "streaming" /\ ~c.counts => c.index

VARIABLES
  held, waiting, filled, streaming,   \* the driver, as CaptureQueue has it
  camera, display,
  pc,            \* what the application does next
  format,        \* ptVideoDevice->iPixelFormat
  size,          \* <<iWidth, iHeight>> of the device
  zoom,          \* the sizes main.c would zoom pictures of each size to
  i,             \* the loop counter of InitDevice
  bufcnt,        \* iVideoBufCnt
  mapped,        \* the buffers pucVideBuf points to
  cur,           \* iVideoBufCurIndex + 1
  convBytes, zoomBytes,   \* allocated for tConvertBuf and tZoomBuf, or None
  frame,         \* the size of the frame in hand, or of the last one
  varied,        \* history: a frame had another size than the one before
  pic,           \* ptVideoBufCur
  screen,        \* tFrameBuf, which FlushPixelDatasToDev shows as a whole
  failed         \* history: a call of the application failed

driverVars == <<held, waiting, filled, streaming>>
deviceVars == <<format, size, zoom, bufcnt, mapped>>
memoryVars == <<convBytes, zoomBytes>>
frameVars  == <<frame, varied, pic>>
chosenVars == <<camera, display>>
vars == <<driverVars, chosenVars, pc, deviceVars, i, cur, memoryVars, frameVars, screen, failed>>

None == -1              \* a pointer that is NULL

(* The driver does not break its promise: the application is one thread    *)
(* and keeps the order of the ioctls.                                      *)
Driver == INSTANCE CaptureQueue WITH NBuf <- NbBuffer, broken <- FALSE

NoPicture == [w |-> 0, h |-> 0, bpp |-> 0, at |-> << >>]

Init ==
  /\ Driver!Init
  /\ camera \in Cameras /\ display \in Displays
  /\ pc = "negotiate" /\ format = "none" /\ size = <<0, 0>> /\ zoom = << >>
  /\ i = 1 /\ bufcnt = 0 /\ mapped = {} /\ cur = 1
  /\ convBytes = None /\ zoomBytes = None
  /\ frame = <<0, 0>> /\ varied = FALSE /\ pic = NoPicture
  /\ screen = [w |-> display.w, h |-> display.h, bpp |-> display.bpp,
               at |-> [a \in Places(display.w, display.h) |-> Unset]]
  /\ failed = FALSE

Bytes(w, h, bpp) == (w * h * bpp) \div 8

(* Every error ends the program: main returns, without StopDevice,         *)
(* ExitDevice or ConvertExit.                                              *)
Fail(where) ==
  /\ pc = where /\ pc' = "exit" /\ failed' = TRUE
  /\ UNCHANGED <<driverVars, chosenVars, deviceVars, i, cur, memoryVars, frameVars, screen>>

-----------------------------------------------------------------------------
(* V4l2InitDevice.                                                         *)

SupportedFormats == {"YUYV", "MJPEG", "RGB565"}     \* g_aiSupportedFormats

FirstSupported(k) ==
  /\ k \in DOMAIN camera.formats /\ camera.formats[k] \in SupportedFormats
  /\ \A j \in 1 .. k - 1 : camera.formats[j] \notin SupportedFormats

(* The sizes of the frames: each JPEG picture says in its header which     *)
(* size it has.                                                            *)
SizesOf(f, s) == IF f = "MJPEG" THEN camera.sizes ELSE {s}
FrameSizes == SizesOf(format, size)

ZoomsOf(s) == ZoomSizes(s[1], s[2], display.w, display.h)
ZoomTables(S) ==
  {t \in [S -> UNION {ZoomsOf(s) : s \in S}] : \A s \in S : t[s] \in ZoomsOf(s)}

(* open, QUERYCAP, ENUM_FMT up to the first format that is supported, and  *)
(* S_FMT with the size of the screen, which the driver may change.  What   *)
(* the loop computes in float depends on the two sizes only.               *)
Negotiate ==
  /\ pc = "negotiate" /\ pc' = "reqbufs"
  /\ \E k \in DOMAIN camera.formats : FirstSupported(k) /\ format' = camera.formats[k]
  /\ size' \in camera.sizes
  /\ zoom' \in ZoomTables(SizesOf(format', size'))
  /\ UNCHANGED <<driverVars, chosenVars, i, bufcnt, mapped, cur, memoryVars, frameVars, screen, failed>>

(* Mutant: only a negative result is an error. *)
ReqbufsNegative(n) ==
  /\ pc = "reqbufs" /\ camera.mode = "streaming"
  /\ Driver!Reset(n)
  /\ bufcnt' = n /\ i' = 1 /\ pc' = "map"
  /\ UNCHANGED <<chosenVars, format, size, zoom, mapped, cur, memoryVars, frameVars, screen, failed>>

(* REQBUFS.  A result other than 0 is an error for the application, also   *)
(* the number of buffers.                                                  *)
Reqbufs(n) ==
  /\ pc = "reqbufs" /\ camera.mode = "streaming"
  /\ Driver!Reset(n)
  /\ bufcnt' = n /\ i' = 1
  /\ pc' = IF camera.counts THEN "exit" ELSE "map"
  /\ UNCHANGED <<chosenVars, format, size, zoom, mapped, cur, memoryVars, frameVars, screen, failed>>

(* Mutant: one buffer too many. *)
MapBufferPast ==
  /\ pc = "map" /\ mapped' = mapped \cup {i}
  /\ IF i > bufcnt THEN i' = 1 /\ pc' = "queue" ELSE i' = i + 1 /\ pc' = "map"
  /\ UNCHANGED <<driverVars, chosenVars, format, size, zoom, bufcnt, cur, memoryVars,
                 frameVars, screen, failed>>

(* QUERYBUF and mmap of one buffer after the other ...                     *)
MapBuffer ==
  /\ pc = "map" /\ mapped' = mapped \cup {i}
  /\ IF i = bufcnt THEN i' = 1 /\ pc' = "queue" ELSE i' = i + 1 /\ pc' = "map"
  /\ UNCHANGED <<driverVars, chosenVars, format, size, zoom, bufcnt, cur, memoryVars,
                 frameVars, screen, failed>>

(* Mutant: the last buffer is not queued. *)
QueueBufferNotLast ==
  /\ pc = "queue" /\ IF i < bufcnt THEN Driver!Queue(i) ELSE UNCHANGED driverVars
  /\ i' = i + 1 /\ pc' = IF i = bufcnt THEN "converter" ELSE "queue"
  /\ UNCHANGED <<chosenVars, deviceVars, cur, memoryVars, frameVars, screen, failed>>

(* ... and QBUF of one after the other.                                    *)
QueueBuffer ==
  /\ pc = "queue" /\ Driver!Queue(i)
  /\ i' = i + 1 /\ pc' = IF i = bufcnt THEN "converter" ELSE "queue"
  /\ UNCHANGED <<chosenVars, deviceVars, cur, memoryVars, frameVars, screen, failed>>

(* A camera that is read: one buffer of four bytes for every pixel.        *)
ReadWriteMode ==
  /\ pc = "reqbufs" /\ camera.mode = "readwrite"
  /\ bufcnt' = 1 /\ mapped' = {1} /\ pc' = "converter"
  /\ UNCHANGED <<driverVars, chosenVars, format, size, zoom, i, cur, memoryVars,
                 frameVars, screen, failed>>

-----------------------------------------------------------------------------
(* main.                                                                   *)

(* GetVideoConvertForFormats; without a converter the program ends.        *)
ChooseConverter ==
  /\ pc = "converter"
  /\ pc' = IF IsConvertible(format, FormatOfDisplay(display.bpp)) THEN "start" ELSE "exit"
  /\ UNCHANGED <<driverVars, chosenVars, deviceVars, i, cur, memoryVars, frameVars, screen, failed>>

StartDevice ==
  /\ pc = "start" /\ pc' = "get"
  /\ streaming' = TRUE
  /\ UNCHANGED <<held, waiting, filled, chosenVars, deviceVars, i, cur, memoryVars,
                 frameVars, screen, failed>>

(* The frame of size s in buffer b; no two of the buffers' pixels are the  *)
(* same.                                                                   *)
Frame(b, s) == [w |-> s[1], h |-> s[2], bpp |-> BppOfVideo(format),
                at |-> [a \in Places(s[1], s[2]) |-> (b - 1) * s[1] * s[2] + a]]

Arrives(s) ==
  /\ frame' = s /\ varied' = (varied \/ frame \notin {s, <<0, 0>>})
  /\ pic' = Frame(cur', s)

(* poll, which sleeps until a buffer is filled, then DQBUF; a driver that  *)
(* does not write the index leaves the 0 of the memset.                    *)
GetFrameForStreaming(s) ==
  /\ pc = "get" /\ camera.mode = "streaming"
  /\ Driver!Dequeue
  /\ cur' = IF camera.index THEN Head(filled) ELSE 1
  /\ pc' = "convert" /\ Arrives(s)
  /\ UNCHANGED <<chosenVars, deviceVars, i, memoryVars, screen, failed>>

GetFrameForReadWrite(s) ==
  /\ pc = "get" /\ camera.mode = "readwrite"
  /\ pc' = "convert" /\ cur' = cur /\ Arrives(s)
  /\ UNCHANGED <<driverVars, chosenVars, deviceVars, i, memoryVars, screen, failed>>

(* A camera that sends the pixels of the screen.                           *)
NoConversion ==
  /\ pc = "convert" /\ format = FormatOfDisplay(display.bpp) /\ pc' = "zoom"
  /\ UNCHANGED <<driverVars, chosenVars, deviceVars, i, cur, memoryVars, frameVars,
                 screen, failed>>

Converting(f) == pc = "convert" /\ format = f /\ format # FormatOfDisplay(display.bpp)

(* What the memory has: malloc is called only once.                        *)
Allocated(bytes, n) == IF bytes = None THEN n ELSE bytes

(* Writing past it may do anything: that is where the model stops.         *)
Within(n, bytes, next) == IF n <= bytes THEN next ELSE "overrun"

(* Yuv2RgbCovert converts two pixels at a time.                            *)
Yuv2RgbConvert ==
  LET n == Bytes(pic.w, pic.h, display.bpp) IN
  /\ Converting("YUYV")
  /\ convBytes' = Allocated(convBytes, n) /\ pc' = Within(n, convBytes', "zoom")
  /\ pic' = [pic EXCEPT !.bpp = display.bpp,
               !.at = [a \in DOMAIN pic.at |->
                         IF a < 2 * ((pic.w * pic.h) \div 2) THEN pic.at[a] ELSE Unset]]
  /\ UNCHANGED <<driverVars, chosenVars, deviceVars, i, cur, zoomBytes, frame, varied,
                 screen, failed>>

(* Mutant: the memory is that of the camera's pixels. *)
Mjpeg2RgbSmall ==
  LET n == Bytes(pic.w, pic.h, display.bpp) IN
  /\ Converting("MJPEG")
  /\ convBytes' = Allocated(convBytes, Bytes(pic.w, pic.h, 16))
  /\ pc' = Within(n, convBytes', "zoom")
  /\ pic' = [pic EXCEPT !.bpp = display.bpp]
  /\ UNCHANGED <<driverVars, chosenVars, deviceVars, i, cur, zoomBytes, frame, varied,
                 screen, failed>>

(* Mjpeg2RgbConvert: the size is that of this picture, the memory that of  *)
(* the first.                                                              *)
Mjpeg2RgbConvert ==
  LET n == Bytes(pic.w, pic.h, display.bpp) IN
  /\ Converting("MJPEG")
  /\ convBytes' = Allocated(convBytes, n) /\ pc' = Within(n, convBytes', "zoom")
  /\ pic' = [pic EXCEPT !.bpp = display.bpp]
  /\ UNCHANGED <<driverVars, chosenVars, deviceVars, i, cur, zoomBytes, frame, varied,
                 screen, failed>>

(* No other converter is called: the one from RGB565 says it only converts *)
(* to RGB565.                                                              *)
Convert == NoConversion \/ Yuv2RgbConvert \/ Mjpeg2RgbConvert

IsLarger == pic.w > display.w \/ pic.h > display.h

(* What fits the screen is shown as it is ...                              *)
NoZoom ==
  /\ pc = "zoom" /\ ~IsLarger /\ pc' = "merge"
  /\ UNCHANGED <<driverVars, chosenVars, deviceVars, i, cur, memoryVars, frameVars,
                 screen, failed>>

(* ... what is larger is zoomed, into memory that is allocated for the     *)
(* first such picture.                                                     *)
Zoom ==
  LET w == zoom[frame][1]  h == zoom[frame][2]  n == Bytes(w, h, display.bpp) IN
  /\ pc = "zoom" /\ IsLarger
  /\ zoomBytes' = Allocated(zoomBytes, n) /\ pc' = Within(n, zoomBytes', "merge")
  /\ pic' = PicZoom(pic, w, h, display.bpp)
  /\ UNCHANGED <<driverVars, chosenVars, deviceVars, i, cur, convBytes, frame, varied,
                 screen, failed>>

Left == (display.w - pic.w) \div 2
Top  == (display.h - pic.h) \div 2

(* Mutant: the offset is that of the lower right corner. *)
MergeNotCentred ==
  /\ pc = "merge" /\ pc' = "put"
  /\ screen' = IF MergeRefuses(pic, screen) THEN screen
               ELSE PicMerge(pic, screen, 2 * Left, 2 * Top)
  /\ UNCHANGED <<driverVars, chosenVars, deviceVars, i, cur, memoryVars, frameVars, failed>>

(* PicMerge, whose result is not looked at, and the flush.                 *)
Merge ==
  /\ pc = "merge" /\ pc' = "put"
  /\ screen' = IF MergeRefuses(pic, screen) THEN screen
               ELSE PicMerge(pic, screen, Left, Top)
  /\ UNCHANGED <<driverVars, chosenVars, deviceVars, i, cur, memoryVars, frameVars, failed>>

(* PutFrame queues the buffer DQBUF named; QBUF refuses a buffer that is   *)
(* queued already.                                                         *)
PutFrameForStreaming ==
  /\ pc = "put" /\ camera.mode = "streaming"
  /\ IF cur \in held THEN Driver!Queue(cur) /\ pc' = "get"
                     ELSE UNCHANGED driverVars /\ pc' = "exit"
  /\ UNCHANGED <<chosenVars, deviceVars, i, cur, memoryVars, frameVars, screen, failed>>

PutFrameForReadWrite ==
  /\ pc = "put" /\ camera.mode = "readwrite" /\ pc' = "get"
  /\ UNCHANGED <<driverVars, chosenVars, deviceVars, i, cur, memoryVars, frameVars, screen, failed>>

(* The process ends: the kernel unmaps the buffers and closes the file.    *)
Exit ==
  /\ pc = "exit" /\ pc' = "gone" /\ mapped' = {}
  /\ IF camera.stops THEN Driver!Reset(0) /\ streaming' = FALSE ELSE UNCHANGED driverVars
  /\ UNCHANGED <<chosenVars, format, size, zoom, bufcnt, i, cur, memoryVars,
                 frameVars, screen, failed>>

-----------------------------------------------------------------------------
FrameStep ==
  \/ \E s \in FrameSizes : GetFrameForStreaming(s) \/ GetFrameForReadWrite(s)
  \/ Convert \/ NoZoom \/ Zoom \/ Merge
  \/ PutFrameForStreaming \/ PutFrameForReadWrite

(* Where a call can fail: a device that is missing, of the wrong kind or   *)
(* without a supported format; memory; a device that is unplugged; a frame *)
(* that is no JPEG picture.  Where the result of malloc is not looked at,  *)
(* the program dies of the NULL.                                           *)
Failure ==
  \/ \E where \in {"negotiate", "reqbufs", "map", "queue", "start", "get", "put"} : Fail(where)
  \/ format = "MJPEG" /\ Fail("convert")
  \/ format # FormatOfDisplay(display.bpp) /\ convBytes = None /\ Fail("convert")
  \/ IsLarger /\ zoomBytes = None /\ Fail("zoom")

App ==
  \/ Negotiate \/ \E n \in 1 .. NbBuffer : Reqbufs(n)
  \/ MapBuffer \/ QueueBuffer \/ ReadWriteMode
  \/ ChooseConverter \/ StartDevice \/ FrameStep \/ Exit

(* The camera fills a buffer of the driver.                                *)
Fill ==
  /\ Driver!Fill
  /\ UNCHANGED <<chosenVars, pc, deviceVars, i, cur, memoryVars, frameVars, screen, failed>>

Next == App \/ Failure \/ Fill

Spec == Init /\ [][Next]_vars

(* The application is scheduled, and the camera goes on sending frames.    *)
FairSpec == Spec /\ WF_vars(App) /\ WF_vars(Fill)

-----------------------------------------------------------------------------
(* Properties.                                                             *)

Stages == {"convert", "zoom", "merge", "put"}       \* with a frame in hand
Pcs == Stages \cup {"negotiate", "reqbufs", "map", "queue", "converter", "start",
                    "get", "exit", "gone", "overrun"}

(* The types.                                                              *)
TypeOK ==
  /\ camera \in Cameras /\ display \in Displays /\ pc \in Pcs
  /\ held \subseteq 1 .. NbBuffer /\ streaming \in BOOLEAN
  /\ waiting \in Seq(1 .. NbBuffer) /\ filled \in Seq(1 .. NbBuffer)
  /\ format \in SupportedFormats \cup {"none"}
  /\ size \in Nat \X Nat /\ frame \in Nat \X Nat /\ varied \in BOOLEAN
  /\ \A s \in DOMAIN zoom : zoom[s] \in Nat \X Nat
  /\ i \in 1 .. NbBuffer + 1 /\ bufcnt \in 0 .. NbBuffer
  /\ mapped \subseteq 1 .. NbBuffer /\ cur \in 1 .. NbBuffer
  /\ convBytes \in Nat \cup {None} /\ zoomBytes \in Nat \cup {None} /\ failed \in BOOLEAN
  /\ screen.w = display.w /\ screen.h = display.h /\ screen.bpp = display.bpp
  /\ DOMAIN screen.at = Places(display.w, display.h)
  /\ pc \in Stages => DOMAIN pic.at = Places(pic.w, pic.h)

(* Once the loop of main runs, the one buffer the application reads is the *)
(* one DQBUF gave it and PutFrame will queue, it is mapped, and the camera *)
(* never fills it meanwhile; all the others are with the driver, each      *)
(* once.  The driver of the USB camera, whose DQBUF names no buffer, does  *)
(* not get that far: the check of REQBUFS' result stops it.                *)
FrameBelongsToApp ==
  camera.mode = "streaming" /\ pc \in Stages \cup {"get"} =>
    LET inDriver == waiting \o filled IN
    /\ held = (IF pc = "get" THEN {} ELSE {cur})
    /\ mapped = 1 .. bufcnt
    /\ held \cup Range(inDriver) = 1 .. bufcnt
    /\ Len(inDriver) + Cardinality(held) = bufcnt

(* While the frames have one size, what is written fits the memory that    *)
(* was allocated for the first.  (A JPEG picture of another size than the  *)
(* first is written past the end: mjpeg2rgb.c:195, main.c:142.)  And       *)
(* whatever sizes they have, what is merged fits the screen, so that       *)
(* PicMerge never refuses it and no error main ignores is one that occurs. *)
NoOverrun ==
  /\ pc = "overrun" => varied
  /\ pc = "merge" => ~MergeRefuses(pic, screen)

(* Distances from 0. *)
Abs(n) == IF n < 0 THEN -n ELSE n

(* When a frame is given back, the screen shows all of it, whatever size   *)
(* it has: in the middle, as it is if it fits, otherwise as wide or as     *)
(* high as the screen with the sides in proportion; each place shows the   *)
(* place of the frame that lies under it.  Around it the screen is as it   *)
(* was before the program, unless there were frames of other sizes.        *)
PictureInPlace ==
  pc = "put" =>
    LET w == pic.w  h == pic.h
        left == (display.w - w) \div 2  top == (display.h - h) \div 2
        Under(s, x, n, m) == s * n <= x * m /\ x * m < (s + 1) * n
    IN  /\ frame[1] <= display.w /\ frame[2] <= display.h => <<w, h>> = frame
        /\ <<w, h>> # frame =>
             /\ w = display.w \/ h = display.h
             /\ \/ Abs(w * frame[2] - h * frame[1]) <= frame[1]
                \/ Abs(w * frame[2] - h * frame[1]) <= frame[2]
        /\ \A x \in 0 .. display.w - 1, y \in 0 .. display.h - 1 :
             LET shown == screen.at[y * display.w + x] IN
             IF x - left \in 0 .. w - 1 /\ y - top \in 0 .. h - 1
             THEN \E sx \in 0 .. frame[1] - 1, sy \in 0 .. frame[2] - 1 :
                    /\ Under(sx, x - left, w, frame[1]) /\ Under(sy, y - top, h, frame[2])
                    /\ shown = Frame(cur, frame).at[sy * frame[1] + sx]
             ELSE varied \/ shown = Unset

(* Every buffer of a camera is shown again and again: none is lost between *)
(* the queues of the driver and the loop of main, unless the program ends. *)
EveryBufferShown ==
  \A b \in 1 .. NbBuffer :
    (pc = "get" /\ camera.mode = "streaming" /\ b <= bufcnt)
      ~> ((pc = "put" /\ cur = b) \/ pc \in {"gone", "overrun"})

(* The cameras that README.md names are shown on the screen main.c:58      *)
(* selects: the program ends only when a call fails.                       *)
EndsOnlyOnFailure == pc = "gone" => failed

=============================================================================
