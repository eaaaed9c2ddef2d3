-------------------------- MODULE CaptureAppProofs --------------------------
(***************************************************************************)
(* Theorems about CaptureApp, for all cameras, screens and numbers of      *)
(* buffers.                                                                *)
(***************************************************************************)
EXTENDS CaptureApp, PictureProofs, FiniteSetTheorems

-----------------------------------------------------------------------------
(* Sequences.                                                              *)

LEMMA RangeAppend ==
  ASSUME NEW S, NEW s \in Seq(S), NEW e \in S
  PROVE  /\ Append(s, e) \in Seq(S) /\ Len(Append(s, e)) = Len(s) + 1
         /\ Range(Append(s, e)) = Range(s) \cup {e}
<1>1. Append(s, e) \in Seq(S) /\ Len(Append(s, e)) = Len(s) + 1
  OBVIOUS
<1>2. ASSUME NEW x \in Range(Append(s, e)) PROVE x \in Range(s) \cup {e}
  <2>1. PICK k \in 1 .. Len(s) + 1 : x = Append(s, e)[k]
    BY <1>1, <1>2 DEF Range
  <2> QED
    BY <2>1 DEF Range
<1>3. ASSUME NEW x \in Range(s) PROVE x \in Range(Append(s, e))
  <2>1. PICK k \in 1 .. Len(s) : x = s[k]
    BY <1>3 DEF Range
  <2>2. k \in DOMAIN Append(s, e) /\ Append(s, e)[k] = x
    BY <1>1, <2>1
  <2> QED
    BY <2>2 DEF Range
<1>4. e \in Range(Append(s, e))
  <2>1. Len(s) + 1 \in DOMAIN Append(s, e) /\ Append(s, e)[Len(s) + 1] = e
    BY <1>1
  <2> QED
    BY <2>1 DEF Range
<1> QED
  BY <1>1, <1>2, <1>3, <1>4

LEMMA RangeTail ==
  ASSUME NEW S, NEW s \in Seq(S), s # << >>
  PROVE  /\ Tail(s) \in Seq(S) /\ Len(Tail(s)) = Len(s) - 1 /\ Head(s) \in S
         /\ Range(s) = Range(Tail(s)) \cup {Head(s)}
<1>1. Tail(s) \in Seq(S) /\ Len(Tail(s)) = Len(s) - 1 /\ Head(s) = s[1] /\ Len(s) >= 1 /\ s[1] \in S
  OBVIOUS
<1>2. ASSUME NEW x \in Range(s) PROVE x \in Range(Tail(s)) \cup {Head(s)}
  <2>1. PICK k \in 1 .. Len(s) : x = s[k]
    BY <1>2 DEF Range
  <2>2. CASE k > 1
    <3>1. k - 1 \in DOMAIN Tail(s) /\ Tail(s)[k - 1] = x
      BY <1>1, <2>1, <2>2
    <3> QED
      BY <3>1 DEF Range
  <2> QED
    BY <1>1, <2>1, <2>2
<1>3. ASSUME NEW x \in Range(Tail(s)) PROVE x \in Range(s)
  <2>1. PICK k \in 1 .. Len(Tail(s)) : x = Tail(s)[k]
    BY <1>1, <1>3 DEF Range
  <2>2. k + 1 \in DOMAIN s /\ s[k + 1] = x
    BY <1>1, <2>1
  <2> QED
    BY <2>2 DEF Range
<1>4. Head(s) \in Range(s)
  BY <1>1 DEF Range
<1> QED
  BY <1>1, <1>2, <1>3, <1>4

LEMMA RangeEmpty == Range(<< >>) = {} /\ Len(<< >>) = 0
  BY DEF Range

LEMMA RangeConcat ==
  ASSUME NEW S, NEW s \in Seq(S), NEW t \in Seq(S)
  PROVE  Range(s \o t) = Range(s) \cup Range(t) /\ Len(s \o t) = Len(s) + Len(t)
<1>1. s \o t \in Seq(S) /\ Len(s \o t) = Len(s) + Len(t)
  OBVIOUS
<1>2. ASSUME NEW x \in Range(s \o t) PROVE x \in Range(s) \cup Range(t)
  <2>1. PICK k \in 1 .. Len(s) + Len(t) : x = (s \o t)[k]
    BY <1>1, <1>2 DEF Range
  <2>2. CASE k <= Len(s)
    BY <2>1, <2>2 DEF Range
  <2>3. CASE k > Len(s)
    <3>1. k - Len(s) \in DOMAIN t /\ t[k - Len(s)] = x
      BY <2>1, <2>3
    <3> QED
      BY <3>1 DEF Range
  <2> QED
    BY <2>1, <2>2, <2>3
<1>3. ASSUME NEW x \in Range(s) PROVE x \in Range(s \o t)
  <2>1. PICK k \in 1 .. Len(s) : x = s[k]
    BY <1>3 DEF Range
  <2>2. k \in DOMAIN (s \o t) /\ (s \o t)[k] = x
    BY <1>1, <2>1
  <2> QED
    BY <2>2 DEF Range
<1>4. ASSUME NEW x \in Range(t) PROVE x \in Range(s \o t)
  <2>1. PICK k \in 1 .. Len(t) : x = t[k]
    BY <1>4 DEF Range
  <2>2. Len(s) + k \in DOMAIN (s \o t) /\ (s \o t)[Len(s) + k] = x
    BY <1>1, <2>1
  <2> QED
    BY <2>2 DEF Range
<1> QED
  BY <1>1, <1>2, <1>3, <1>4

-----------------------------------------------------------------------------
(* The inductive invariant.                                                *)

Pos == Nat \ {0}
Indices == 1 .. NbBuffer
Working == pc \notin {"negotiate", "exit", "gone", "overrun"}

DriverType ==
  /\ held \subseteq Indices /\ streaming \in BOOLEAN
  /\ waiting \in Seq(Indices) /\ filled \in Seq(Indices)

AppType ==
  /\ camera \in Cameras /\ display \in Displays /\ pc \in Pcs
  /\ format \in SupportedFormats \cup {"none"}
  /\ size \in Nat \X Nat /\ frame \in Nat \X Nat /\ varied \in BOOLEAN
  /\ \A s \in DOMAIN zoom : zoom[s] \in Nat \X Nat
  /\ i \in 1 .. NbBuffer + 1 /\ bufcnt \in 0 .. NbBuffer
  /\ mapped \subseteq Indices /\ cur \in Indices /\ failed \in BOOLEAN
  /\ convBytes \in Nat \cup {None} /\ zoomBytes \in Nat \cup {None}

(* Where the buffers are, at each step of InitDevice and of the loop.      *)
QueueInv ==
  LET inDriver == Range(waiting) \cup Range(filled)
      queued   == Len(waiting) + Len(filled)
  IN
  /\ pc \in {"negotiate", "reqbufs"} => mapped = {}
  /\ pc \in {"map", "queue"} => camera.mode = "streaming" /\ i \in 1 .. bufcnt
  /\ camera.mode = "streaming" /\ Working /\ pc # "reqbufs" => ~camera.counts
  /\ pc = "map" =>
       /\ held = 1 .. bufcnt /\ waiting = << >> /\ filled = << >> /\ mapped = 1 .. i - 1
  /\ pc = "queue" =>
       /\ held = i .. bufcnt /\ inDriver = 1 .. i - 1 /\ queued = i - 1 /\ mapped = 1 .. bufcnt
  /\ pc \in {"converter", "start", "get"} /\ camera.mode = "streaming" =>
       /\ held = {} /\ inDriver = 1 .. bufcnt /\ queued = bufcnt /\ mapped = 1 .. bufcnt
  /\ pc \in Stages /\ camera.mode = "streaming" =>
       /\ held = {cur} /\ {cur} \cup inDriver = 1 .. bufcnt /\ queued + 1 = bufcnt
       /\ mapped = 1 .. bufcnt

(* The sizes that were negotiated, and that of the frame in hand.          *)
SizeInv ==
  /\ pc = "negotiate" => frame = <<0, 0>>
  /\ Working =>
       /\ format \in SupportedFormats /\ FrameSizes \subseteq Pos \X Pos
       /\ DOMAIN zoom = FrameSizes /\ \A s \in FrameSizes : zoom[s] \in ZoomsOf(s)
       /\ format = "YUYV" => \A s \in FrameSizes : (s[1] * s[2]) % 2 = 0
  /\ pc \in Stages => frame \in FrameSizes

(* The frame in hand with the pixels of the screen, and what is shown of it. *)
Converted == [Frame(cur, frame) EXCEPT !.bpp = display.bpp]
Large == frame[1] > display.w \/ frame[2] > display.h
Shown == IF Large THEN PicZoom(Converted, zoom[frame][1], zoom[frame][2], display.bpp)
         ELSE Converted

PicInv ==
  /\ camera.mode = "readwrite" => cur = 1
  /\ pc = "convert" => pic = Frame(cur, frame)
  /\ pc = "zoom" => pic = Converted
  /\ pc \in {"merge", "put"} => pic = Shown

(* The memory is of the size of the frames as long as they have one.       *)
ConvBytes == Bytes(frame[1], frame[2], display.bpp)
ZoomBytes == Bytes(zoom[frame][1], zoom[frame][2], display.bpp)

MemInv ==
  /\ frame = <<0, 0>> => convBytes = None /\ zoomBytes = None
  /\ ~varied /\ Working => convBytes \in {None, ConvBytes} /\ zoomBytes \in {None, ZoomBytes}
  /\ pc = "overrun" => varied

(* The size of what is shown, and the place of it on the screen.           *)
ShownW == IF Large THEN zoom[frame][1] ELSE frame[1]
ShownH == IF Large THEN zoom[frame][2] ELSE frame[2]
ShownLeft == (display.w - ShownW) \div 2
ShownTop  == (display.h - ShownH) \div 2
Inside(c, l) == c - ShownLeft \in 0 .. ShownW - 1 /\ l - ShownTop \in 0 .. ShownH - 1

ScreenInv ==
  /\ screen = [w |-> display.w, h |-> display.h, bpp |-> display.bpp, at |-> screen.at]
  /\ DOMAIN screen.at = Places(display.w, display.h)
  /\ \A c \in 0 .. display.w - 1, l \in 0 .. display.h - 1 :
       /\ ~varied /\ Working /\ ~Inside(c, l) => screen.at[l * display.w + c] = Unset
       /\ frame = <<0, 0>> => screen.at[l * display.w + c] = Unset
       /\ pc = "put" /\ Inside(c, l) =>
            screen.at[l * display.w + c] = pic.at[(l - ShownTop) * ShownW + (c - ShownLeft)]

IInv == DriverType /\ AppType /\ QueueInv /\ SizeInv /\ PicInv /\ MemInv /\ ScreenInv

-----------------------------------------------------------------------------
(* What the assumptions say of the camera and the screen in use.           *)
LEMMA Chosen ==
  ASSUME camera \in Cameras, display \in Displays
  PROVE  /\ camera.mode \in {"streaming", "readwrite"} /\ camera.sizes \subseteq Pos \X Pos
         /\ camera.counts \in BOOLEAN /\ camera.index \in BOOLEAN /\ camera.stops \in BOOLEAN
         /\ camera.mode = "streaming" /\ ~camera.counts => camera.index
         /\ "YUYV" \in Range(camera.formats) => \A s \in camera.sizes : (s[1] * s[2]) % 2 = 0
         /\ display.w \in Pos /\ display.h \in Pos /\ display.bpp \in {16, 32}
         /\ NbBuffer \in Pos
<1>1. display \in [w : Nat \ {0}, h : Nat \ {0}, bpp : {16, 32}] /\ NbBuffer \in Pos
  BY ConstantsAssumption DEF Pos
<1>2. /\ camera.mode \in {"streaming", "readwrite"} /\ camera.sizes \subseteq Pos \X Pos
      /\ {camera.counts, camera.index, camera.stops} \subseteq BOOLEAN
  BY ConstantsAssumption DEF Pos
<1>3. camera.mode = "streaming" /\ ~camera.counts => camera.index
  BY DriversAssumption
<1>4. "YUYV" \in Range(camera.formats) => \A s \in camera.sizes : (s[1] * s[2]) % 2 = 0
  BY PairsAssumption
<1> QED
  BY <1>1, <1>2, <1>3, <1>4 DEF Pos

LEMMA BytesType ==
  ASSUME NEW w \in Nat, NEW h \in Nat, NEW bpp \in Nat
  PROVE  Bytes(w, h, bpp) \in Nat
<1>1. w * h * bpp \in Nat
  BY Product
<1> QED
  BY <1>1 DEF Bytes

(* The steps of the driver as the application sees them.                   *)
LEMMA QueueType ==
  ASSUME DriverType, NEW b \in Indices, Driver!Queue(b)
  PROVE  /\ b \in held /\ held' = held \ {b} /\ filled' = filled /\ DriverType'
         /\ Range(waiting') = Range(waiting) \cup {b} /\ Len(waiting') = Len(waiting) + 1
<1>1. /\ b \in held /\ held' = held \ {b} /\ filled' = filled /\ streaming' = streaming
      /\ waiting' = Append(waiting, b)
  BY DEF Driver!Queue
<1> QED
  BY <1>1, RangeAppend DEF DriverType

LEMMA FillType ==
  ASSUME DriverType, Driver!Fill
  PROVE  /\ held' = held /\ DriverType'
         /\ Range(waiting') \cup Range(filled') = Range(waiting) \cup Range(filled)
         /\ Len(waiting') + Len(filled') = Len(waiting) + Len(filled)
<1>1. /\ waiting # << >> /\ waiting' = Tail(waiting) /\ filled' = Append(filled, Head(waiting))
      /\ held' = held /\ streaming' = streaming
  BY DEF Driver!Fill
<1>2. /\ waiting' \in Seq(Indices) /\ Len(waiting') = Len(waiting) - 1 /\ Head(waiting) \in Indices
      /\ Range(waiting) = Range(waiting') \cup {Head(waiting)}
  BY <1>1, RangeTail DEF DriverType
<1>3. /\ filled' \in Seq(Indices) /\ Len(filled') = Len(filled) + 1
      /\ Range(filled') = Range(filled) \cup {Head(waiting)}
  BY <1>1, <1>2, RangeAppend DEF DriverType
<1>4. Len(waiting) \in Nat /\ Len(filled) \in Nat
  BY DEF DriverType
<1> QED
  BY <1>1, <1>2, <1>3, <1>4 DEF DriverType

LEMMA DequeueType ==
  ASSUME DriverType, Driver!Dequeue
  PROVE  /\ Head(filled) \in Indices /\ held' = held \cup {Head(filled)} /\ waiting' = waiting
         /\ DriverType'
         /\ Range(filled) = Range(filled') \cup {Head(filled)} /\ Len(filled') = Len(filled) - 1
<1>1. /\ filled # << >> /\ filled' = Tail(filled) /\ held' = held \cup {Head(filled)}
      /\ waiting' = waiting /\ streaming' = streaming
  BY DEF Driver!Dequeue
<1> QED
  BY <1>1, RangeTail DEF DriverType

LEMMA ResetType ==
  ASSUME DriverType, NEW n \in 0 .. NbBuffer, Driver!Reset(n), NbBuffer \in Nat
  PROVE  held' = 1 .. n /\ waiting' = << >> /\ filled' = << >> /\ DriverType'
<1>1. held' = 1 .. n /\ waiting' = << >> /\ filled' = << >> /\ streaming' \in {streaming, FALSE}
  BY DEF Driver!Reset
<1>2. 1 .. n \subseteq Indices
  BY DEF Indices
<1>3. << >> \in Seq(Indices)
  OBVIOUS
<1>4. streaming' \in BOOLEAN
  BY <1>1 DEF DriverType
<1> QED
  BY <1>1, <1>2, <1>3, <1>4 DEF DriverType

LEMMA SameDriver ==
  ASSUME DriverType, UNCHANGED driverVars
  PROVE  DriverType'
  BY DEF DriverType, driverVars

(* What the stages of the loop leave alone.                                *)
LEMMA GetFacts ==
  ASSUME NEW s \in FrameSizes, GetFrameForStreaming(s) \/ GetFrameForReadWrite(s)
  PROVE  /\ pc = "get" /\ pc' = "convert" /\ frame' = s /\ pic' = Frame(cur', s)
         /\ varied' = (varied \/ frame \notin {s, <<0, 0>>})
         /\ UNCHANGED <<chosenVars, deviceVars, i, memoryVars, screen, failed>>
  BY DEF GetFrameForStreaming, GetFrameForReadWrite, Arrives

LEMMA ConvertFacts ==
  ASSUME Convert
  PROVE  /\ pc = "convert" /\ pc' \in {"zoom", "overrun"}
         /\ UNCHANGED <<driverVars, chosenVars, deviceVars, i, cur, zoomBytes, frame, varied,
                        screen, failed>>
  BY DEF Convert, NoConversion, Yuv2RgbConvert, Mjpeg2RgbConvert, Converting, Within, frameVars,
         memoryVars

LEMMA ZoomFacts ==
  ASSUME NoZoom \/ Zoom
  PROVE  /\ pc = "zoom" /\ pc' \in {"merge", "overrun"}
         /\ UNCHANGED <<driverVars, chosenVars, deviceVars, i, cur, convBytes, frame, varied,
                        screen, failed>>
  BY DEF NoZoom, Zoom, Within, frameVars, memoryVars

(* The steps that have no frame in hand.                                   *)
Setup ==
  \/ \E n \in 1 .. NbBuffer : Reqbufs(n)
  \/ MapBuffer \/ QueueBuffer \/ ReadWriteMode \/ ChooseConverter \/ StartDevice

LEMMA SetupFacts ==
  ASSUME Setup
  PROVE  /\ Working /\ pc \notin Stages \cup {"get"}
         /\ pc' \notin Stages \cup {"negotiate", "gone", "overrun"}
         /\ UNCHANGED <<chosenVars, format, size, zoom, cur, memoryVars, frameVars, screen>>
  BY DEF Setup, Reqbufs, MapBuffer, QueueBuffer, ReadWriteMode, ChooseConverter, StartDevice,
         Working, Stages, chosenVars, deviceVars

LEMMA PutFacts ==
  ASSUME PutFrameForStreaming \/ PutFrameForReadWrite
  PROVE  /\ pc = "put" /\ pc' \in {"get", "exit"}
         /\ UNCHANGED <<chosenVars, deviceVars, i, cur, memoryVars, frameVars, screen, failed>>
  BY DEF PutFrameForStreaming, PutFrameForReadWrite

LEMMA EndFacts ==
  ASSUME Failure \/ Exit
  PROVE  /\ pc' \in {"exit", "gone"}
         /\ UNCHANGED <<chosenVars, format, size, zoom, i, cur, memoryVars, frameVars, screen>>
  BY DEF Failure, Fail, Exit, deviceVars

LEMMA NextSteps ==
  ASSUME Next
  PROVE  \/ Failure \/ Fill \/ Negotiate \/ Setup \/ Exit
         \/ \E s \in FrameSizes : GetFrameForStreaming(s) \/ GetFrameForReadWrite(s)
         \/ Convert \/ NoZoom \/ Zoom \/ Merge \/ PutFrameForStreaming \/ PutFrameForReadWrite
  BY DEF Next, App, FrameStep, Setup

-----------------------------------------------------------------------------
(* Types.                                                                  *)

LEMMA DriverStep ==
  ASSUME DriverType, AppType, QueueInv, Next
  PROVE  DriverType'
<1>0. NbBuffer \in Nat
  BY Chosen DEF AppType, Pos
<1>1. CASE Failure
  BY <1>1, SameDriver DEF Failure, Fail
<1>2. CASE Fill
  BY <1>2, FillType DEF Fill
<1>3. ASSUME NEW n \in 1 .. NbBuffer, Reqbufs(n) PROVE DriverType'
  BY <1>0, <1>3, ResetType DEF Reqbufs
<1>4. CASE QueueBuffer
  <2>1. i \in Indices
    BY <1>0, <1>4 DEF QueueBuffer, QueueInv, AppType, Indices
  <2> QED
    BY <1>4, <2>1, QueueType DEF QueueBuffer
<1>5. CASE StartDevice
  BY <1>5 DEF StartDevice, DriverType
<1>6. ASSUME NEW s \in FrameSizes, GetFrameForStreaming(s) PROVE DriverType'
  BY <1>6, DequeueType DEF GetFrameForStreaming
<1>7. CASE PutFrameForStreaming
  <2>1. cur \in Indices
    BY DEF AppType
  <2> QED
    BY <1>7, <2>1, QueueType, SameDriver DEF PutFrameForStreaming
<1>8. CASE Exit
  <2>1. CASE Driver!Reset(0) /\ streaming' = FALSE
    BY <1>0, <2>1, ResetType
  <2> QED
    BY <1>8, <2>1, SameDriver DEF Exit
<1>9. CASE \/ Negotiate \/ MapBuffer \/ ReadWriteMode \/ ChooseConverter \/ Merge
           \/ PutFrameForReadWrite
  <2>1. UNCHANGED driverVars
    BY <1>9 DEF Negotiate, MapBuffer, ReadWriteMode, ChooseConverter, Merge, PutFrameForReadWrite
  <2> QED
    BY <2>1, SameDriver
<1>10. CASE Convert \/ NoZoom \/ Zoom
  BY <1>10, ConvertFacts, ZoomFacts, SameDriver
<1>11. ASSUME NEW s \in FrameSizes, GetFrameForReadWrite(s) PROVE DriverType'
  BY <1>11, SameDriver DEF GetFrameForReadWrite
<1> QED
  BY <1>1, <1>2, <1>3, <1>4, <1>5, <1>6, <1>7, <1>8, <1>9, <1>10, <1>11, NextSteps DEF Setup

(* What the pictures in hand are.                                          *)
LEMMA PicSize ==
  ASSUME PicInv
  PROVE  pc \in {"convert", "zoom"} =>
           pic.w = frame[1] /\ pic.h = frame[2] /\ pic.at = Frame(cur, frame).at
<1>1. Frame(cur, frame).w = frame[1] /\ Frame(cur, frame).h = frame[2]
  BY DEF Frame
<1>2. /\ Converted.w = frame[1] /\ Converted.h = frame[2]
      /\ Converted.at = Frame(cur, frame).at
  BY DEF Frame, Converted
<1> QED
  BY <1>1, <1>2 DEF PicInv

LEMMA AllocatedType ==
  ASSUME NEW n \in Nat, NEW bytes \in Nat \cup {None}
  PROVE  Allocated(bytes, n) \in Nat
  BY DEF Allocated, None

(* The memory the conversion and the zoom end with.                        *)
LEMMA ConvertMemory ==
  ASSUME AppType, PicInv, Convert
  PROVE  /\ ConvBytes \in Nat
         /\ IF format = FormatOfDisplay(display.bpp) THEN convBytes' = convBytes /\ pc' = "zoom"
            ELSE /\ convBytes' = Allocated(convBytes, ConvBytes)
                 /\ pc' = Within(ConvBytes, convBytes', "zoom")
<1>1. Bytes(pic.w, pic.h, display.bpp) = ConvBytes
  BY ConvertFacts, PicSize DEF ConvBytes
<1>2. ConvBytes \in Nat
  BY BytesType, Chosen DEF AppType, ConvBytes
<1> QED
  BY <1>1, <1>2 DEF Convert, NoConversion, Yuv2RgbConvert, Mjpeg2RgbConvert, Converting, memoryVars

LEMMA ZoomMemory ==
  ASSUME AppType, SizeInv, PicInv, NoZoom \/ Zoom
  PROVE  /\ ZoomBytes \in Nat
         /\ IF ~Large THEN zoomBytes' = zoomBytes /\ pic' = pic /\ pc' = "merge"
            ELSE /\ zoomBytes' = Allocated(zoomBytes, ZoomBytes)
                 /\ pc' = Within(ZoomBytes, zoomBytes', "merge")
                 /\ pic' = PicZoom(pic, zoom[frame][1], zoom[frame][2], display.bpp)
<1>1. IsLarger <=> Large
  BY ZoomFacts, PicSize DEF IsLarger, Large
<1>2. ZoomBytes \in Nat
  <2>1. frame \in DOMAIN zoom
    BY ZoomFacts DEF SizeInv, Working, Stages
  <2>2. zoom[frame] \in Nat \X Nat /\ display.bpp \in Nat
    BY <2>1, Chosen DEF AppType
  <2> QED
    BY <2>2, BytesType DEF ZoomBytes
<1> QED
  BY <1>1, <1>2 DEF NoZoom, Zoom, ZoomBytes, memoryVars, frameVars

LEMMA SameApp ==
  ASSUME AppType, UNCHANGED <<camera, display, format, size, zoom, bufcnt, mapped>>,
         UNCHANGED <<i, failed>>, pc' \in Pcs, cur' \in Indices,
         frame' \in Nat \X Nat, varied' \in BOOLEAN,
         convBytes' \in Nat \cup {None}, zoomBytes' \in Nat \cup {None}
  PROVE  AppType'
<1>1. \A s \in DOMAIN zoom' : zoom'[s] \in Nat \X Nat
  BY DEF AppType
<1> QED
  BY <1>1 DEF AppType

LEMMA AppStep ==
  ASSUME DriverType, AppType, QueueInv, SizeInv, PicInv, Next
  PROVE  AppType'
<1> USE DEF Pcs, Stages
<1>0. NbBuffer \in Nat /\ camera.sizes \subseteq Pos \X Pos
      /\ display.w \in Pos /\ display.h \in Pos
  BY Chosen DEF AppType, Pos
<1>1. CASE Failure
  BY <1>1 DEF Failure, Fail, AppType, chosenVars, deviceVars, memoryVars, frameVars
<1>2. CASE Fill
  BY <1>2 DEF Fill, AppType, chosenVars, deviceVars, memoryVars, frameVars
<1>3. CASE Negotiate
  <2>1. size' \in Pos \X Pos
    BY <1>0, <1>3 DEF Negotiate
  <2>2. SizesOf(format', size') \subseteq Pos \X Pos
    BY <1>0, <2>1 DEF SizesOf
  <2>3. DOMAIN zoom' = SizesOf(format', size') /\ \A s \in DOMAIN zoom' : zoom'[s] \in ZoomsOf(s)
    BY <1>3 DEF Negotiate, ZoomTables
  <2>4. ASSUME NEW s \in DOMAIN zoom' PROVE zoom'[s] \in Nat \X Nat
    <3>1. s[1] \in Pos /\ s[2] \in Pos /\ zoom'[s] \in ZoomSizes(s[1], s[2], display.w, display.h)
      BY <2>2, <2>3, <2>4 DEF ZoomsOf
    <3>2. zoom'[s] \in (0 .. display.w) \X (0 .. display.h)
      BY <1>0, <3>1, ZoomFits DEF Pos
    <3> QED
      BY <1>0, <3>2 DEF Pos
  <2>5. size' \in Nat \X Nat
    BY <2>1 DEF Pos
  <2>6. format' \in SupportedFormats
    BY <1>3 DEF Negotiate, FirstSupported
  <2> QED
    BY <1>3, <2>4, <2>5, <2>6 DEF Negotiate, AppType, chosenVars, memoryVars, frameVars
<1>4. ASSUME NEW n \in 1 .. NbBuffer, Reqbufs(n) PROVE AppType'
  BY <1>0, <1>4 DEF Reqbufs, AppType, chosenVars, memoryVars, frameVars
<1>5. CASE MapBuffer
  <2>1. i \in 1 .. bufcnt /\ bufcnt \in 0 .. NbBuffer
    BY <1>5 DEF MapBuffer, QueueInv, AppType
  <2> QED
    BY <1>0, <1>5, <2>1 DEF MapBuffer, AppType, Indices, chosenVars, memoryVars, frameVars
<1>6. CASE QueueBuffer
  <2>1. i \in 1 .. bufcnt /\ bufcnt \in 0 .. NbBuffer
    BY <1>6 DEF QueueBuffer, QueueInv, AppType
  <2> QED
    BY <1>0, <1>6, <2>1 DEF QueueBuffer, AppType, chosenVars, deviceVars, memoryVars, frameVars
<1>7. CASE ReadWriteMode
  <2>1. NbBuffer \in Nat \ {0}
    BY ConstantsAssumption
  <2>2. 1 \in Indices /\ 1 \in 0 .. NbBuffer
    BY <2>1 DEF Indices
  <2> QED
    BY <1>0, <1>7, <2>2 DEF ReadWriteMode, AppType, chosenVars, memoryVars, frameVars
<1>8. CASE ChooseConverter \/ StartDevice
  BY <1>8 DEF ChooseConverter, StartDevice, AppType, chosenVars, deviceVars, memoryVars, frameVars
<1>9. ASSUME NEW s \in FrameSizes, GetFrameForStreaming(s) \/ GetFrameForReadWrite(s)
      PROVE  AppType'
  <2>1. cur' \in Indices
    <3>1. 1 \in Indices
      BY <1>0, ConstantsAssumption DEF Indices
    <3> QED
      BY <1>9, <3>1, DequeueType DEF GetFrameForStreaming, GetFrameForReadWrite, AppType
  <2>2. s \in Nat \X Nat
    BY <1>9, GetFacts DEF SizeInv, Working, Pos
  <2> QED
    <3>1. /\ UNCHANGED <<camera, display, format, size, zoom, bufcnt, mapped, i, failed>>
          /\ UNCHANGED <<convBytes, zoomBytes>> /\ frame' = s /\ pc' = "convert"
          /\ varied' = (varied \/ frame \notin {s, <<0, 0>>})
      BY <1>9, GetFacts DEF chosenVars, deviceVars, memoryVars
    <3>2. varied' \in BOOLEAN /\ convBytes' \in Nat \cup {None}
          /\ zoomBytes' \in Nat \cup {None}
      BY <3>1 DEF AppType
    <3> QED
      BY <2>1, <2>2, <3>1, <3>2, SameApp
<1>10. CASE Convert
  <2>0. convBytes \in Nat \cup {None}
    BY DEF AppType
  <2>1. convBytes' \in Nat \cup {None}
    <3>1. /\ ConvBytes \in Nat
          /\ convBytes' = convBytes \/ convBytes' = Allocated(convBytes, ConvBytes)
      BY <1>10, ConvertMemory
    <3>2. Allocated(convBytes, ConvBytes) \in Nat
      BY <2>0, <3>1, AllocatedType
    <3> QED
      BY <2>0, <3>1, <3>2
  <2> QED
    <3>1. /\ UNCHANGED <<camera, display, format, size, zoom, bufcnt, mapped, i, failed>>
          /\ UNCHANGED <<cur, frame, varied, zoomBytes>> /\ pc' \in {"zoom", "overrun"}
      BY <1>10, ConvertFacts DEF chosenVars, deviceVars
    <3>2. /\ cur' \in Indices /\ frame' \in Nat \X Nat /\ varied' \in BOOLEAN
          /\ zoomBytes' \in Nat \cup {None}
      BY <3>1 DEF AppType
    <3> QED
      BY <2>1, <3>1, <3>2, SameApp
<1>11. CASE NoZoom \/ Zoom
  <2>0. zoomBytes \in Nat \cup {None}
    BY DEF AppType
  <2>1. zoomBytes' \in Nat \cup {None}
    <3>1. /\ ZoomBytes \in Nat
          /\ zoomBytes' = zoomBytes \/ zoomBytes' = Allocated(zoomBytes, ZoomBytes)
      BY <1>11, ZoomMemory
    <3>2. Allocated(zoomBytes, ZoomBytes) \in Nat
      BY <2>0, <3>1, AllocatedType
    <3> QED
      BY <2>0, <3>1, <3>2
  <2> QED
    <3>1. /\ UNCHANGED <<camera, display, format, size, zoom, bufcnt, mapped, i, failed>>
          /\ UNCHANGED <<cur, frame, varied, convBytes>> /\ pc' \in {"merge", "overrun"}
      BY <1>11, ZoomFacts DEF chosenVars, deviceVars
    <3>2. /\ cur' \in Indices /\ frame' \in Nat \X Nat /\ varied' \in BOOLEAN
          /\ convBytes' \in Nat \cup {None}
      BY <3>1 DEF AppType
    <3> QED
      BY <2>1, <3>1, <3>2, SameApp
<1>12. CASE Merge
  BY <1>12 DEF Merge, AppType, chosenVars, deviceVars, memoryVars, frameVars
<1>13. CASE PutFrameForStreaming \/ PutFrameForReadWrite
  BY <1>13, PutFacts DEF AppType, chosenVars, deviceVars, memoryVars, frameVars
<1>14. CASE Exit
  BY <1>14 DEF Exit, AppType, chosenVars, memoryVars, frameVars
<1> QED
  BY <1>1, <1>2, <1>3, <1>4, <1>5, <1>6, <1>7, <1>8, <1>9, <1>10, <1>11, <1>12, <1>13, <1>14,
     NextSteps DEF Setup

-----------------------------------------------------------------------------
(* The buffers.                                                            *)

LEMMA QueueStep ==
  ASSUME DriverType, AppType, QueueInv, Next
  PROVE  QueueInv'
<1> USE DEF Stages, Working
<1>0. /\ NbBuffer \in Nat /\ i \in 1 .. NbBuffer + 1 /\ bufcnt \in 0 .. NbBuffer /\ cur \in Indices
      /\ Len(waiting) \in Nat /\ Len(filled) \in Nat
      /\ camera.mode = "streaming" /\ ~camera.counts => camera.index
  BY Chosen DEF AppType, DriverType, Pos
<1>1. CASE Failure
  BY <1>1 DEF Failure, Fail, QueueInv
<1>2. CASE Fill
  <2>1. Len(waiting) > 0
    BY <1>0, <1>2 DEF Fill, Driver!Fill, DriverType
  <2>2. pc # "map"
    BY <2>1, RangeEmpty DEF QueueInv
  <2>3. UNCHANGED <<camera, pc, mapped, i, bufcnt, cur, held>>
    BY <1>2, FillType DEF Fill, chosenVars, deviceVars
  <2> QED
    BY <1>2, <2>2, <2>3, FillType DEF Fill, QueueInv
<1>3. CASE Negotiate
  BY <1>3 DEF Negotiate, QueueInv
<1>4. ASSUME NEW n \in 1 .. NbBuffer, Reqbufs(n) PROVE QueueInv'
  <2>1. held' = 1 .. n /\ waiting' = << >> /\ filled' = << >>
    BY <1>0, <1>4, ResetType DEF Reqbufs
  <2>2. mapped = {} /\ i' = 1 /\ bufcnt' = n /\ UNCHANGED <<camera, mapped>>
        /\ camera.mode = "streaming"
    BY <1>4 DEF Reqbufs, QueueInv, chosenVars
  <2>3. CASE camera.counts
    BY <1>4, <2>2, <2>3 DEF Reqbufs, QueueInv
  <2>4. CASE ~camera.counts
    <3>1. pc' = "map"
      BY <1>4, <2>4 DEF Reqbufs
    <3> QED
      BY <2>1, <2>2, <2>4, <3>1 DEF QueueInv
  <2> QED
    BY <2>3, <2>4
<1>5. CASE MapBuffer
  <2>1. /\ mapped = 1 .. i - 1 /\ i \in 1 .. bufcnt /\ held = 1 .. bufcnt
        /\ waiting = << >> /\ filled = << >> /\ camera.mode = "streaming" /\ ~camera.counts
    BY <1>5 DEF MapBuffer, QueueInv
  <2>2. mapped' = 1 .. i /\ UNCHANGED <<held, waiting, filled, camera, bufcnt>>
    BY <1>0, <1>5, <2>1 DEF MapBuffer, driverVars, chosenVars
  <2>3. CASE i = bufcnt
    <3>1. i' = 1 /\ pc' = "queue"
      BY <1>5, <2>3 DEF MapBuffer
    <3> QED
      BY <1>0, <2>1, <2>2, <2>3, <3>1, RangeEmpty DEF QueueInv
  <2>4. CASE i # bufcnt
    <3>1. i' = i + 1 /\ pc' = "map"
      BY <1>5, <2>4 DEF MapBuffer
    <3> QED
      BY <1>0, <2>1, <2>2, <2>4, <3>1 DEF QueueInv
  <2> QED
    BY <2>3, <2>4
<1>6. CASE QueueBuffer
  <2>1. /\ i \in 1 .. bufcnt /\ camera.mode = "streaming" /\ ~camera.counts /\ mapped = 1 .. bufcnt
        /\ held = i .. bufcnt /\ Range(waiting) \cup Range(filled) = 1 .. i - 1
        /\ Len(waiting) + Len(filled) = i - 1
    BY <1>6 DEF QueueBuffer, QueueInv
  <2>2. i \in Indices
    BY <1>0, <2>1 DEF Indices
  <2>3. /\ held' = held \ {i} /\ filled' = filled
        /\ Range(waiting') = Range(waiting) \cup {i} /\ Len(waiting') = Len(waiting) + 1
    BY <1>6, <2>2, QueueType DEF QueueBuffer
  <2>4. held' = i + 1 .. bufcnt /\ Range(waiting') \cup Range(filled') = 1 .. i
    BY <1>0, <2>1, <2>3
  <2>5. i' = i + 1 /\ UNCHANGED <<camera, bufcnt, mapped>>
    BY <1>6 DEF QueueBuffer, chosenVars, deviceVars
  <2>6. CASE i = bufcnt
    <3>1. pc' = "converter"
      BY <1>6, <2>6 DEF QueueBuffer
    <3> QED
      BY <1>0, <2>1, <2>3, <2>4, <2>5, <2>6, <3>1 DEF QueueInv
  <2>7. CASE i # bufcnt
    <3>1. pc' = "queue"
      BY <1>6, <2>7 DEF QueueBuffer
    <3> QED
      BY <1>0, <2>1, <2>3, <2>4, <2>5, <2>7, <3>1 DEF QueueInv
  <2> QED
    BY <2>6, <2>7
<1>7. CASE ReadWriteMode
  BY <1>7 DEF ReadWriteMode, QueueInv, chosenVars
<1>8. CASE ChooseConverter
  BY <1>8 DEF ChooseConverter, QueueInv, driverVars, chosenVars, deviceVars
<1>9. CASE StartDevice
  BY <1>9 DEF StartDevice, QueueInv, chosenVars, deviceVars
<1>10. ASSUME NEW s \in FrameSizes, GetFrameForStreaming(s) PROVE QueueInv'
  <2>1. /\ held = {} /\ Range(waiting) \cup Range(filled) = 1 .. bufcnt
        /\ Len(waiting) + Len(filled) = bufcnt /\ mapped = 1 .. bufcnt /\ ~camera.counts
        /\ camera.mode = "streaming"
    BY <1>10 DEF GetFrameForStreaming, QueueInv
  <2>2. cur' = Head(filled) /\ pc' = "convert" /\ UNCHANGED <<camera, i, bufcnt, mapped>>
    BY <1>0, <1>10, <2>1 DEF GetFrameForStreaming, chosenVars, deviceVars
  <2>3. /\ held' = held \cup {cur'} /\ waiting' = waiting
        /\ Range(filled) = Range(filled') \cup {cur'} /\ Len(filled') = Len(filled) - 1
    BY <1>10, <2>2, DequeueType DEF GetFrameForStreaming
  <2>4. held' = {cur'} /\ {cur'} \cup (Range(waiting') \cup Range(filled')) = 1 .. bufcnt
    BY <2>1, <2>3
  <2>5. (Len(waiting') + Len(filled')) + 1 = bufcnt
    BY <1>0, <2>1, <2>3
  <2> QED
    BY <2>1, <2>2, <2>4, <2>5 DEF QueueInv
<1>11. CASE PutFrameForStreaming
  <2>1. /\ held = {cur} /\ {cur} \cup (Range(waiting) \cup Range(filled)) = 1 .. bufcnt
        /\ Len(waiting) + Len(filled) + 1 = bufcnt /\ mapped = 1 .. bufcnt /\ ~camera.counts
        /\ camera.mode = "streaming"
    BY <1>11 DEF PutFrameForStreaming, QueueInv
  <2>2. Driver!Queue(cur) /\ pc' = "get" /\ UNCHANGED <<camera, i, bufcnt, mapped>>
    BY <1>11, <2>1 DEF PutFrameForStreaming, chosenVars, deviceVars
  <2>3. /\ held' = held \ {cur} /\ filled' = filled
        /\ Range(waiting') = Range(waiting) \cup {cur} /\ Len(waiting') = Len(waiting) + 1
    BY <1>0, <2>2, QueueType
  <2>4. held' = {} /\ Range(waiting') \cup Range(filled') = 1 .. bufcnt
    BY <2>1, <2>3
  <2>5. Len(waiting') + Len(filled') = bufcnt
    BY <1>0, <2>1, <2>3
  <2> QED
    BY <2>1, <2>2, <2>4, <2>5 DEF QueueInv
<1>12. ASSUME NEW s \in FrameSizes, GetFrameForReadWrite(s)
       PROVE  QueueInv'
  BY <1>12 DEF GetFrameForReadWrite, QueueInv, chosenVars
<1>13. CASE Convert \/ NoZoom \/ Zoom
  <2>1. /\ pc \in Stages /\ pc' \in Stages \cup {"overrun"}
        /\ UNCHANGED <<driverVars, chosenVars, deviceVars, cur>>
    BY <1>13, ConvertFacts, ZoomFacts
  <2> QED
    BY <2>1 DEF QueueInv, driverVars, chosenVars, deviceVars
<1>14. CASE Merge
  BY <1>14 DEF Merge, QueueInv, driverVars, chosenVars, deviceVars
<1>15. CASE PutFrameForReadWrite
  BY <1>15 DEF PutFrameForReadWrite, QueueInv, chosenVars
<1>16. CASE Exit
  BY <1>16 DEF Exit, QueueInv
<1> QED
  BY <1>1, <1>2, <1>3, <1>4, <1>5, <1>6, <1>7, <1>8, <1>9, <1>10, <1>11, <1>12, <1>13, <1>14,
     <1>15, <1>16, NextSteps DEF Setup

-----------------------------------------------------------------------------
(* The frame in hand and the memory for it.                                *)

LEMMA SizeStep ==
  ASSUME AppType, SizeInv, Next
  PROVE  SizeInv'
<1>1. CASE Negotiate
  <2>1. size' \in Pos \X Pos /\ size' \in camera.sizes /\ camera.sizes \subseteq Pos \X Pos
    BY <1>1, Chosen DEF Negotiate, AppType
  <2>2. /\ format' \in SupportedFormats /\ format' \in Range(camera.formats)
        /\ zoom' \in ZoomTables(SizesOf(format', size'))
    BY <1>1 DEF Negotiate, FirstSupported, Range
  <2>3. UNCHANGED <<camera, display>> /\ pc' = "reqbufs"
    BY <1>1 DEF Negotiate, chosenVars
  <2>4. FrameSizes' = SizesOf(format', size') /\ \A s : ZoomsOf(s)' = ZoomsOf(s)
    BY <2>3 DEF FrameSizes, SizesOf, ZoomsOf
  <2>5. FrameSizes' \subseteq Pos \X Pos /\ FrameSizes' \subseteq camera.sizes
    BY <2>1, <2>4 DEF SizesOf
  <2>6. DOMAIN zoom' = FrameSizes' /\ \A s \in FrameSizes' : zoom'[s] \in ZoomsOf(s)'
    BY <2>2, <2>4 DEF ZoomTables
  <2>7. format' = "YUYV" => \A s \in FrameSizes' : (s[1] * s[2]) % 2 = 0
    BY <2>2, <2>5, Chosen DEF AppType
  <2> QED
    BY <2>2, <2>3, <2>5, <2>6, <2>7 DEF SizeInv, Stages
<1>2. ASSUME UNCHANGED <<camera, size, format, zoom, display>>, Working' => Working,
             pc' # "negotiate", pc' \in Stages => frame' \in FrameSizes
      PROVE  SizeInv'
  <2>1. FrameSizes' = FrameSizes /\ \A s : ZoomsOf(s)' = ZoomsOf(s)
    BY <1>2 DEF FrameSizes, SizesOf, ZoomsOf
  <2> QED
    BY <1>2, <2>1 DEF SizeInv
<1>3. CASE Failure \/ Exit
  BY <1>2, <1>3, EndFacts DEF chosenVars, Working, Stages
<1>4. CASE Fill
  <2>1. UNCHANGED <<camera, size, format, zoom, display, pc, frame>>
    BY <1>4 DEF Fill, chosenVars, deviceVars, frameVars
  <2>2. FrameSizes' = FrameSizes /\ \A s : ZoomsOf(s)' = ZoomsOf(s)
    BY <2>1 DEF FrameSizes, SizesOf, ZoomsOf
  <2> QED
    BY <2>1, <2>2 DEF SizeInv, Working
<1>5. CASE Setup
  BY <1>2, <1>5, SetupFacts DEF chosenVars
<1>6. ASSUME NEW s \in FrameSizes, GetFrameForStreaming(s) \/ GetFrameForReadWrite(s)
      PROVE  SizeInv'
  BY <1>2, <1>6, GetFacts DEF chosenVars, deviceVars, Working
<1>7. CASE Convert \/ NoZoom \/ Zoom
  <2>1. /\ pc \in {"convert", "zoom"} /\ pc' \in {"zoom", "merge", "overrun"}
        /\ UNCHANGED <<chosenVars, deviceVars, frame>>
    BY <1>7, ConvertFacts, ZoomFacts
  <2> QED
    BY <1>2, <2>1 DEF chosenVars, deviceVars, Working, SizeInv, Stages
<1>8. CASE Merge
  BY <1>2, <1>8 DEF Merge, chosenVars, deviceVars, frameVars, Working, SizeInv, Stages
<1>9. CASE PutFrameForStreaming \/ PutFrameForReadWrite
  BY <1>2, <1>9, PutFacts DEF chosenVars, deviceVars, Working, Stages
<1> QED
  BY <1>1, <1>3, <1>4, <1>5, <1>6, <1>7, <1>8, <1>9, NextSteps

(* A picture that is not converted has the pixels of the screen already.   *)
LEMMA SameBpp ==
  ASSUME AppType, SizeInv, Working, format = FormatOfDisplay(display.bpp)
  PROVE  Frame(cur, frame) = Converted
<1>1. display.bpp \in {16, 32} /\ format \in {"YUYV", "MJPEG", "RGB565"}
  BY Chosen DEF AppType, SizeInv, SupportedFormats
<1>2. display.bpp = 16 /\ format = "RGB565"
  BY <1>1 DEF FormatOfDisplay
<1>3. BppOfVideo(format) = display.bpp
  BY <1>2 DEF BppOfVideo
<1> QED
  BY <1>3 DEF Frame, Converted

LEMMA Half ==
  ASSUME NEW a \in Nat, NEW b \in 0 .. a
  PROVE  (a - b) \div 2 \in Nat /\ ((a - b) \div 2) + b <= a
  OBVIOUS

(* What is shown has its place within the screen.                          *)
LEMMA ShownFits ==
  ASSUME AppType, SizeInv, Working, pc \in Stages
  PROVE  /\ Shown.w = ShownW /\ Shown.h = ShownH /\ Shown.bpp = display.bpp
         /\ ShownW \in 0 .. display.w /\ ShownH \in 0 .. display.h
         /\ ShownLeft \in Nat /\ ShownLeft + ShownW <= display.w
         /\ ShownTop \in Nat /\ ShownTop + ShownH <= display.h
<1>1. display.w \in Pos /\ display.h \in Pos /\ frame[1] \in Pos /\ frame[2] \in Pos
  BY Chosen DEF AppType, SizeInv
<1>2. zoom[frame] \in (0 .. display.w) \X (0 .. display.h)
  <2>1. zoom[frame] \in ZoomSizes(frame[1], frame[2], display.w, display.h)
    BY DEF SizeInv, ZoomsOf
  <2>2. /\ display.w \in Nat \ {0} /\ display.h \in Nat \ {0}
        /\ frame[1] \in Nat \ {0} /\ frame[2] \in Nat \ {0}
    BY <1>1 DEF Pos
  <2> QED
    BY <2>1, <2>2, ZoomFits, Zenon
<1>3. /\ Shown.w = ShownW /\ Shown.h = ShownH /\ Shown.bpp = display.bpp
  <2>1. Converted.w = frame[1] /\ Converted.h = frame[2] /\ Converted.bpp = display.bpp
    BY DEF Converted, Frame
  <2>2. LET z == PicZoom(Converted, zoom[frame][1], zoom[frame][2], display.bpp) IN
        z.w = zoom[frame][1] /\ z.h = zoom[frame][2] /\ z.bpp = display.bpp
    BY DEF PicZoom
  <2> QED
    BY <2>1, <2>2 DEF Shown, ShownW, ShownH
<1>4. ShownW \in 0 .. display.w /\ ShownH \in 0 .. display.h
  BY <1>1, <1>2 DEF ShownW, ShownH, Large, Pos
<1>5. display.w \in Nat /\ display.h \in Nat
  BY <1>1 DEF Pos
<1>6. ShownLeft \in Nat /\ ShownLeft + ShownW <= display.w
  BY <1>4, <1>5, Half DEF ShownLeft
<1>7. ShownTop \in Nat /\ ShownTop + ShownH <= display.h
  BY <1>4, <1>5, Half DEF ShownTop
<1> QED
  BY <1>3, <1>4, <1>6, <1>7

(* Two pixels at a time are all of them.                                   *)
LEMMA Pairs ==
  ASSUME NEW n \in Nat, n % 2 = 0
  PROVE  2 * (n \div 2) = n
  OBVIOUS

(* What each converter makes of the frame.                                 *)
LEMMA ConvertPicture ==
  ASSUME AppType, SizeInv, PicInv, Convert
  PROVE  pic' = Converted
<1>1. /\ pc = "convert" /\ Working /\ pic = Frame(cur, frame) /\ frame \in FrameSizes
      /\ frame[1] \in Nat /\ frame[2] \in Nat
  BY ConvertFacts DEF Working, PicInv, SizeInv, Stages, AppType
<1>2. CASE NoConversion
  BY <1>1, <1>2, SameBpp DEF NoConversion, frameVars
<1>3. CASE Mjpeg2RgbConvert
  BY <1>1, <1>3 DEF Mjpeg2RgbConvert, Converted
<1>4. CASE Yuv2RgbConvert
  <2> DEFINE n == frame[1] * frame[2]
  <2>1. n \in Nat /\ n % 2 = 0
    BY <1>1, <1>4, Product DEF Yuv2RgbConvert, Converting, SizeInv
  <2>2. pic.w = frame[1] /\ pic.h = frame[2] /\ DOMAIN pic.at = 0 .. n - 1
    BY <1>1 DEF Frame, Places
  <2>3. pic.at = [a \in DOMAIN pic.at |-> pic.at[a]]
    BY <1>1 DEF Frame
  <2>4. 2 * ((pic.w * pic.h) \div 2) = n
    BY <2>1, <2>2, Pairs
  <2> HIDE DEF n
  <2>5. \A a \in DOMAIN pic.at : a < n
    BY <2>1, <2>2
  <2>6. pic' = [pic EXCEPT !.bpp = display.bpp,
                  !.at = [a \in DOMAIN pic.at |-> IF a < n THEN pic.at[a] ELSE Unset]]
    BY <1>4, <2>4 DEF Yuv2RgbConvert
  <2>7. [a \in DOMAIN pic.at |-> IF a < n THEN pic.at[a] ELSE Unset] = pic.at
    BY <2>3, <2>5
  <2>8. pic' = [pic EXCEPT !.bpp = display.bpp, !.at = pic.at]
    BY <2>6, <2>7
  <2>9. pic = [w |-> pic.w, h |-> pic.h, bpp |-> pic.bpp, at |-> pic.at]
    BY <1>1 DEF Frame
  <2>10. [pic EXCEPT !.bpp = display.bpp, !.at = pic.at] = [pic EXCEPT !.bpp = display.bpp]
    BY <2>9
  <2> QED
    BY <1>1, <2>8, <2>10 DEF Converted
<1> QED
  BY <1>2, <1>3, <1>4 DEF Convert

LEMMA PicStep ==
  ASSUME AppType, SizeInv, PicInv, Next
  PROVE  PicInv'
<1> DEFINE Same == UNCHANGED <<format, zoom, cur, frame, display>>
<1>1. ASSUME Same
      PROVE  Frame(cur, frame)' = Frame(cur, frame) /\ Converted' = Converted /\ Shown' = Shown
  BY <1>1 DEF Frame, Converted, Shown, Large
<1>2. ASSUME UNCHANGED <<camera, cur>>, pc' \notin Stages
      PROVE  PicInv'
  BY <1>2 DEF PicInv, Stages
<1>3. CASE Failure \/ Exit
  BY <1>2, <1>3, EndFacts DEF chosenVars, Stages
<1>4. CASE Fill
  <2>1. Same /\ UNCHANGED <<pic, pc, camera>>
    BY <1>4 DEF Fill, chosenVars, deviceVars, frameVars
  <2> QED
    BY <1>1, <2>1 DEF PicInv
<1>5. CASE Negotiate
  BY <1>2, <1>5 DEF Negotiate, chosenVars, Stages
<1>6. CASE Setup
  BY <1>2, <1>6, SetupFacts DEF chosenVars
<1>7. ASSUME NEW s \in FrameSizes, GetFrameForStreaming(s) \/ GetFrameForReadWrite(s)
      PROVE  PicInv'
  <2>1. camera' = camera /\ format' = format /\ frame' = s /\ pic' = Frame(cur', s)
        /\ pc' = "convert"
    BY <1>7, GetFacts DEF chosenVars, deviceVars
  <2>2. camera.mode = "readwrite" => cur' = 1
    BY <1>7 DEF GetFrameForStreaming, GetFrameForReadWrite, PicInv
  <2>3. Frame(cur, frame)' = Frame(cur', s)
    BY <2>1 DEF Frame
  <2> QED
    BY <2>1, <2>2, <2>3 DEF PicInv
<1>8. CASE Convert
  <2>1. Same /\ camera' = camera /\ pc' \in {"zoom", "overrun"}
    BY <1>8, ConvertFacts DEF chosenVars, deviceVars
  <2>2. pic' = Converted
    BY <1>8, ConvertPicture
  <2> QED
    BY <1>1, <2>1, <2>2 DEF PicInv
<1>9. CASE NoZoom \/ Zoom
  <2>1. Same /\ camera' = camera /\ pic = Converted /\ pc' \in {"merge", "overrun"}
    BY <1>9, ZoomFacts DEF PicInv, chosenVars, deviceVars
  <2>2. pic' = Shown
    BY <1>9, <2>1, ZoomMemory DEF Shown
  <2> QED
    BY <1>1, <2>1, <2>2 DEF PicInv
<1>10. CASE Merge
  <2>1. Same /\ UNCHANGED <<camera, pic>> /\ pc = "merge" /\ pc' = "put"
    BY <1>10 DEF Merge, chosenVars, deviceVars, frameVars
  <2> QED
    BY <1>1, <2>1 DEF PicInv
<1>11. CASE PutFrameForStreaming \/ PutFrameForReadWrite
  BY <1>2, <1>11, PutFacts DEF chosenVars, Stages
<1> QED
  BY <1>3, <1>4, <1>5, <1>6, <1>7, <1>8, <1>9, <1>10, <1>11, NextSteps

LEMMA MemStep ==
  ASSUME AppType, SizeInv, PicInv, MemInv, Next
  PROVE  MemInv'
<1>1. ASSUME UNCHANGED <<frame, varied, zoom, display, convBytes, zoomBytes>>,
             Working' => Working, pc' = "overrun" => pc = "overrun"
      PROVE  MemInv'
  BY <1>1 DEF MemInv, ConvBytes, ZoomBytes, Bytes
<1>2. CASE Failure \/ Exit
  BY <1>2, EndFacts DEF MemInv, memoryVars, frameVars, Working
<1>3. CASE Fill
  BY <1>1, <1>3 DEF Fill, chosenVars, deviceVars, memoryVars, frameVars, Working
<1>4. CASE Negotiate
  <2>1. /\ UNCHANGED <<frame, varied, convBytes, zoomBytes>> /\ pc' = "reqbufs"
        /\ convBytes = None /\ zoomBytes = None
    BY <1>4 DEF Negotiate, memoryVars, frameVars, SizeInv, MemInv
  <2> QED
    BY <2>1 DEF MemInv
<1>5. CASE Setup
  BY <1>1, <1>5, SetupFacts DEF chosenVars, memoryVars, frameVars
<1>6. ASSUME NEW s \in FrameSizes, GetFrameForStreaming(s) \/ GetFrameForReadWrite(s)
      PROVE  MemInv'
  <2>1. /\ frame' = s /\ varied' = (varied \/ frame \notin {s, <<0, 0>>}) /\ pc = "get"
        /\ pc' = "convert" /\ UNCHANGED <<zoom, display, convBytes, zoomBytes>>
    BY <1>6, GetFacts DEF chosenVars, deviceVars, memoryVars
  <2>2. s # <<0, 0>> /\ Working
    BY <2>1 DEF SizeInv, Working, Pos
  <2>3. CASE frame = <<0, 0>>
    BY <2>1, <2>2, <2>3 DEF MemInv
  <2>4. CASE frame = s
    <3>1. varied' = varied /\ frame' = frame
      BY <2>1, <2>4 DEF AppType
    <3>2. UNCHANGED <<frame, varied, zoom, display, convBytes, zoomBytes>>
      BY <2>1, <3>1
    <3> QED
      BY <1>1, <2>1, <2>2, <3>2
  <2>5. CASE frame \notin {s, <<0, 0>>}
    BY <2>1, <2>2, <2>5 DEF MemInv
  <2> QED
    BY <2>3, <2>4, <2>5
<1>7. CASE Convert
  <2>1. /\ UNCHANGED <<frame, varied, zoom, display, zoomBytes>> /\ pc = "convert"
        /\ pc' \in {"zoom", "overrun"}
    BY <1>7, ConvertFacts DEF chosenVars, deviceVars
  <2>2. frame # <<0, 0>> /\ Working
    BY <2>1 DEF SizeInv, Working, Stages, Pos
  <2>3. ConvBytes' = ConvBytes /\ ZoomBytes' = ZoomBytes
    BY <2>1 DEF ConvBytes, ZoomBytes, Bytes
  <2>4. ASSUME ~varied PROVE pc' # "overrun" /\ convBytes' \in {None, ConvBytes}
    <3>1. convBytes \in {None, ConvBytes}
      BY <2>2, <2>4 DEF MemInv
    <3>2. Allocated(convBytes, ConvBytes) = ConvBytes
      BY <3>1 DEF Allocated
    <3> QED
      BY <1>7, <3>1, <3>2, ConvertMemory DEF Within
  <2> QED
    BY <2>1, <2>2, <2>3, <2>4 DEF MemInv
<1>8. CASE NoZoom \/ Zoom
  <2>1. /\ UNCHANGED <<frame, varied, zoom, display, convBytes>> /\ pc = "zoom"
        /\ pc' \in {"merge", "overrun"}
    BY <1>8, ZoomFacts DEF chosenVars, deviceVars
  <2>2. frame # <<0, 0>> /\ Working
    BY <2>1 DEF SizeInv, Working, Stages, Pos
  <2>3. ConvBytes' = ConvBytes /\ ZoomBytes' = ZoomBytes
    BY <2>1 DEF ConvBytes, ZoomBytes, Bytes
  <2>4. ASSUME ~varied PROVE pc' # "overrun" /\ zoomBytes' \in {None, ZoomBytes}
    <3>1. zoomBytes \in {None, ZoomBytes}
      BY <2>2, <2>4 DEF MemInv
    <3>2. Allocated(zoomBytes, ZoomBytes) = ZoomBytes
      BY <3>1 DEF Allocated
    <3> QED
      BY <1>8, <3>1, <3>2, ZoomMemory DEF Within
  <2> QED
    BY <2>1, <2>2, <2>3, <2>4 DEF MemInv
<1>9. CASE Merge
  BY <1>1, <1>9 DEF Merge, chosenVars, deviceVars, memoryVars, frameVars, Working
<1>10. CASE PutFrameForStreaming \/ PutFrameForReadWrite
  BY <1>1, <1>10, PutFacts DEF chosenVars, deviceVars, memoryVars, frameVars, Working
<1> QED
  BY <1>2, <1>3, <1>4, <1>5, <1>6, <1>7, <1>8, <1>9, <1>10, NextSteps

-----------------------------------------------------------------------------
(* The screen.                                                             *)

LEMMA ScreenMerge ==
  ASSUME AppType, SizeInv, PicInv, ScreenInv, Merge
  PROVE  ScreenInv'
<1>1. /\ pic = Shown /\ Working /\ pc = "merge" /\ pc' = "put" /\ pic' = pic
      /\ UNCHANGED <<display, zoom, frame, varied>>
  BY DEF Merge, PicInv, Working, chosenVars, deviceVars, frameVars
<1>0. pc \in Stages /\ frame # <<0, 0>>
  BY <1>1 DEF Stages, SizeInv, Pos
<1>2. /\ pic.w = ShownW /\ pic.h = ShownH /\ pic.bpp = display.bpp
      /\ ShownW \in 0 .. display.w /\ ShownH \in 0 .. display.h
      /\ ShownLeft \in Nat /\ ShownLeft + ShownW <= display.w /\ ShownTop \in Nat
  BY <1>0, <1>1, ShownFits
<1>3. display.w \in Nat \ {0} /\ display.h \in Nat \ {0}
  BY Chosen DEF AppType, Pos
<1>4. screen.w = display.w /\ screen.h = display.h /\ screen.bpp = display.bpp
  BY DEF ScreenInv
<1>5. ~MergeRefuses(pic, screen)
  BY <1>2, <1>3, <1>4 DEF MergeRefuses
<1>6. Left = ShownLeft /\ Top = ShownTop
  BY <1>2 DEF Left, Top, ShownLeft, ShownTop
<1>7. screen' = PicMerge(pic, screen, ShownLeft, ShownTop)
  BY <1>5, <1>6 DEF Merge
<1>8. PICK g :
        /\ screen' = [w |-> display.w, h |-> display.h, bpp |-> display.bpp, at |-> g]
        /\ Merged(g, screen.at, pic.at, display.w, display.h, ShownW, ShownH, ShownLeft, ShownTop)
  <2>1. screen = [w |-> display.w, h |-> display.h, bpp |-> display.bpp, at |-> screen.at]
        /\ DOMAIN screen.at = Places(display.w, display.h)
    BY DEF ScreenInv
  <2> DEFINE f == screen.at
             W == display.w
             H == display.h
             b == display.bpp
  <2>2. W \in Nat \ {0} /\ H \in Nat /\ ShownW \in Nat /\ ShownH \in Nat
        /\ pic.w = ShownW /\ pic.h = ShownH
        /\ ShownLeft \in Nat /\ ShownTop \in Nat /\ ShownLeft + ShownW <= W
        /\ DOMAIN f = Places(W, H) /\ screen = [w |-> W, h |-> H, bpp |-> b, at |-> f]
    BY <1>2, <1>3, <2>1
  <2> HIDE DEF f, W, H, b
  <2>3. \E g : /\ PicMerge(pic, screen, ShownLeft, ShownTop)
                    = [w |-> W, h |-> H, bpp |-> b, at |-> g]
               /\ Merged(g, f, pic.at, W, H, ShownW, ShownH, ShownLeft, ShownTop)
    BY <2>2, PicMergeLaw
  <2> QED
    BY <1>7, <2>3 DEF f, W, H, b
<1>9. UNCHANGED <<ShownW, ShownH, ShownLeft, ShownTop>>
  BY <1>1 DEF ShownW, ShownH, ShownLeft, ShownTop, Large
<1>10. \A c, l : Inside(c, l)' <=> Inside(c, l)
  BY <1>9 DEF Inside
<1>11. screen'.at = g
  BY <1>8
<1>12. \A c \in 0 .. display.w - 1, l \in 0 .. display.h - 1 :
         /\ ~varied /\ ~Inside(c, l) => screen'.at[l * display.w + c] = Unset
         /\ Inside(c, l) => screen'.at[l * display.w + c]
                              = pic.at[(l - ShownTop) * ShownW + (c - ShownLeft)]
  BY <1>1, <1>8, <1>11 DEF ScreenInv, Inside, Merged
<1> QED
  BY <1>0, <1>1, <1>8, <1>9, <1>10, <1>11, <1>12 DEF ScreenInv, Merged

LEMMA ScreenStep ==
  ASSUME AppType, SizeInv, PicInv, ScreenInv, Next
  PROVE  ScreenInv'
<1>1. ASSUME UNCHANGED <<screen, display, frame, varied, zoom>>, Working' => Working,
             pc' = "put" => pc = "put" /\ UNCHANGED pic
      PROVE  ScreenInv'
  <2>1. UNCHANGED <<ShownW, ShownH, ShownLeft, ShownTop>>
    BY <1>1 DEF ShownW, ShownH, ShownLeft, ShownTop, Large
  <2>2. \A c, l : Inside(c, l)' <=> Inside(c, l)
    BY <2>1 DEF Inside
  <2> QED
    BY <1>1, <2>1, <2>2 DEF ScreenInv
<1>2. ASSUME UNCHANGED <<screen, display>>, frame = <<0, 0>>, pc' # "put"
      PROVE  ScreenInv'
  BY <1>2 DEF ScreenInv
<1>3. CASE Merge
  BY <1>3, ScreenMerge
<1>4. CASE Negotiate
  <2>1. UNCHANGED <<screen, display>> /\ frame = <<0, 0>> /\ pc' = "reqbufs"
    BY <1>4 DEF Negotiate, chosenVars, SizeInv
  <2> QED
    BY <1>2, <2>1
<1>5. CASE Failure \/ Exit
  BY <1>1, <1>5, EndFacts DEF chosenVars, frameVars, Working
<1>6. CASE Fill
  BY <1>1, <1>6 DEF Fill, chosenVars, deviceVars, frameVars, Working
<1>7. CASE Setup
  BY <1>1, <1>7, SetupFacts DEF chosenVars, frameVars, Stages
<1>8. ASSUME NEW s \in FrameSizes, GetFrameForStreaming(s) \/ GetFrameForReadWrite(s)
      PROVE  ScreenInv'
  <2>1. /\ frame' = s /\ varied' = (varied \/ frame \notin {s, <<0, 0>>})
        /\ pc = "get" /\ pc' = "convert" /\ UNCHANGED <<screen, display, zoom>>
    BY <1>8, GetFacts DEF chosenVars, deviceVars
  <2>2. CASE frame = <<0, 0>>
    <3>1. UNCHANGED <<screen, display>> /\ pc' # "put"
      BY <2>1
    <3> QED
      BY <1>2, <2>2, <3>1
  <2>3. CASE frame = s
    <3>1. varied' = varied
      BY <2>1, <2>3 DEF AppType
    <3>2. UNCHANGED <<screen, display, frame, varied, zoom>>
      BY <2>1, <2>3, <3>1
    <3>3. Working /\ pc' # "put"
      BY <2>1 DEF Working
    <3> QED
      BY <1>1, <3>2, <3>3
  <2>4. CASE frame \notin {s, <<0, 0>>}
    <3>1. varied' /\ s # <<0, 0>>
      <4>1. varied'
        BY <2>1, <2>4
      <4>2. s \in Pos \X Pos
        BY <1>8, <2>1 DEF SizeInv, Working
      <4> QED
        BY <4>1, <4>2 DEF Pos
    <3> QED
      BY <2>1, <3>1 DEF ScreenInv
  <2> QED
    BY <2>2, <2>3, <2>4
<1>9. CASE Convert
  BY <1>1, <1>9, ConvertFacts DEF chosenVars, deviceVars, Working
<1>10. CASE NoZoom \/ Zoom
  BY <1>1, <1>10, ZoomFacts DEF chosenVars, deviceVars, Working
<1>11. CASE PutFrameForStreaming \/ PutFrameForReadWrite
  BY <1>1, <1>11, PutFacts DEF chosenVars, deviceVars, frameVars, Working
<1> QED
  BY <1>3, <1>4, <1>5, <1>6, <1>7, <1>8, <1>9, <1>10, <1>11, NextSteps

-----------------------------------------------------------------------------
(* The theorems.                                                           *)

LEMMA InitInv == Init => IInv
<1> SUFFICES ASSUME Init PROVE IInv
  OBVIOUS
<1> USE DEF Working, Stages, Pcs
<1>1. NbBuffer \in Nat \ {0} /\ display \in Displays /\ camera \in Cameras
  BY ConstantsAssumption DEF Init
<1>2. display.w \in Nat \ {0} /\ display.h \in Nat \ {0}
  BY <1>1, ConstantsAssumption
<1>3. DriverType
  <2>1. held = {} /\ waiting = << >> /\ filled = << >> /\ streaming = FALSE
    BY DEF Init, Driver!Init
  <2>2. << >> \in Seq(Indices) /\ {} \subseteq Indices
    OBVIOUS
  <2> QED
    BY <2>1, <2>2 DEF DriverType
<1>4. AppType
  <2>1. 1 \in Indices /\ 1 \in 1 .. NbBuffer + 1 /\ 0 \in 0 .. NbBuffer
    BY <1>1 DEF Indices
  <2>2. \A s \in DOMAIN zoom : zoom[s] \in Nat \X Nat
    BY DEF Init
  <2>3. format = "none" /\ size = <<0, 0>> /\ frame = <<0, 0>> /\ varied = FALSE /\ failed = FALSE
    BY DEF Init
  <2>4. camera \in Cameras /\ display \in Displays /\ pc \in Pcs
    BY <1>1 DEF Init
  <2>5. i \in 1 .. NbBuffer + 1 /\ bufcnt \in 0 .. NbBuffer /\ mapped \subseteq Indices
        /\ cur \in Indices
    BY <2>1 DEF Init
  <2>6. convBytes \in Nat \cup {None} /\ zoomBytes \in Nat \cup {None}
    BY DEF Init
  <2>7. size \in Nat \X Nat /\ frame \in Nat \X Nat /\ varied \in BOOLEAN
        /\ failed \in BOOLEAN /\ format \in SupportedFormats \cup {"none"}
    BY <2>3
  <2> HIDE DEF Pcs
  <2> QED
    BY <2>2, <2>4, <2>5, <2>6, <2>7 DEF AppType
<1>5. QueueInv /\ SizeInv /\ PicInv /\ MemInv
  BY DEF Init, QueueInv, SizeInv, PicInv, MemInv
<1>6. ScreenInv
  <2>1. screen = [w |-> display.w, h |-> display.h, bpp |-> display.bpp,
                  at |-> [a \in Places(display.w, display.h) |-> Unset]]
    BY DEF Init
  <2>2. \A c \in 0 .. display.w - 1, l \in 0 .. display.h - 1 :
          l * display.w + c \in Places(display.w, display.h)
    <3> DEFINE W == display.w
               H == display.h
    <3>1. W \in Nat \ {0} /\ H \in Nat
      BY <1>2
    <3> HIDE DEF W, H
    <3>2. \A c \in 0 .. W - 1, l \in 0 .. H - 1 : l * W + c \in Places(W, H)
      BY <3>1, PlaceOf
    <3> QED
      BY <3>2 DEF W, H
  <2> QED
    BY <2>1, <2>2 DEF Init, ScreenInv
<1> QED
  BY <1>3, <1>4, <1>5, <1>6 DEF IInv

LEMMA StepInv == IInv /\ [Next]_vars => IInv'
<1>1. CASE Next
  BY <1>1, DriverStep, AppStep, QueueStep, SizeStep, PicStep, MemStep, ScreenStep DEF IInv
<1>2. CASE UNCHANGED vars
  <2> USE <1>2 DEF vars, driverVars, deviceVars, memoryVars, chosenVars, frameVars
  <2>1. /\ DriverType' <=> DriverType
        /\ AppType' <=> AppType
        /\ QueueInv' <=> QueueInv
    BY DEF DriverType, AppType, QueueInv, Working
  <2>7. SizeInv' <=> SizeInv
    BY DEF SizeInv, Working, FrameSizes, SizesOf, ZoomsOf
  <2>2. /\ Frame(cur, frame)' = Frame(cur, frame)
        /\ Converted' = Converted /\ Large' = Large /\ Shown' = Shown
    BY DEF Frame, Converted, Large, Shown
  <2>3. PicInv' <=> PicInv
    BY <2>2 DEF PicInv
  <2>4. MemInv' <=> MemInv
    BY <2>2 DEF MemInv, Working, ConvBytes, ZoomBytes, Bytes
  <2>5. UNCHANGED <<ShownW, ShownH, ShownLeft, ShownTop>>
    BY <2>2 DEF ShownW, ShownH, ShownLeft, ShownTop
  <2>6. ScreenInv' <=> ScreenInv
    BY <2>5 DEF ScreenInv, Inside, Working
  <2> QED
    BY <2>1, <2>3, <2>4, <2>6, <2>7 DEF IInv
<1> QED
  BY <1>1, <1>2

LEMMA Invariance == Spec => []IInv
  BY InitInv, StepInv, PTL DEF Spec

(* Every variable of the application keeps its type, with any cameras,     *)
(* screens and number of buffers.                                          *)
THEOREM TypeCorrect == Spec => []TypeOK
<1>1. IInv => TypeOK
  <2> SUFFICES ASSUME IInv PROVE TypeOK
    OBVIOUS
  <2>1. AppType /\ DriverType /\ SizeInv /\ PicInv
    BY DEF IInv
  <2>2. screen.w = display.w /\ screen.h = display.h /\ screen.bpp = display.bpp
        /\ DOMAIN screen.at = Places(display.w, display.h)
    BY DEF IInv, ScreenInv
  <2>3. LET f == Frame(cur, frame) IN DOMAIN f.at = Places(f.w, f.h)
    BY DEF Frame
  <2>4. DOMAIN Converted.at = Places(Converted.w, Converted.h)
    BY DEF Converted, Frame
  <2>5. DOMAIN Shown.at = Places(Shown.w, Shown.h)
    BY <2>4 DEF Shown, PicZoom
  <2>6. pc \in Stages => DOMAIN pic.at = Places(pic.w, pic.h)
    BY <2>1, <2>3, <2>4, <2>5 DEF PicInv, Stages
  <2> QED
    BY <2>1, <2>2, <2>6 DEF TypeOK, AppType, DriverType, Indices
<1> QED
  BY <1>1, Invariance, PTL

(* The application reads the buffer DQBUF gave it while the camera cannot  *)
(* fill it, and gives that buffer back; the others are with the driver.    *)
THEOREM OwnershipTheorem == Spec => []FrameBelongsToApp
<1>1. IInv => FrameBelongsToApp
  <2> SUFFICES ASSUME IInv, camera.mode = "streaming", pc \in Stages \cup {"get"}
               PROVE  LET inDriver == waiting \o filled IN
                      /\ held = (IF pc = "get" THEN {} ELSE {cur})
                      /\ mapped = 1 .. bufcnt
                      /\ held \cup Range(inDriver) = 1 .. bufcnt
                      /\ Len(inDriver) + Cardinality(held) = bufcnt
    BY DEF FrameBelongsToApp
  <2>1. /\ Range(waiting \o filled) = Range(waiting) \cup Range(filled)
        /\ Len(waiting \o filled) = Len(waiting) + Len(filled)
        /\ Len(waiting) \in Nat /\ Len(filled) \in Nat
    BY RangeConcat DEF IInv, DriverType
  <2>2. CASE pc = "get"
    BY <2>1, <2>2, FS_EmptySet DEF IInv, QueueInv
  <2>3. CASE pc \in Stages
    <3>1. /\ held = {cur} /\ {cur} \cup (Range(waiting) \cup Range(filled)) = 1 .. bufcnt
          /\ Len(waiting) + Len(filled) + 1 = bufcnt /\ mapped = 1 .. bufcnt
      BY <2>3 DEF IInv, QueueInv
    <3>2. Cardinality(held) = 1
      BY <3>1, FS_Singleton
    <3>3. pc # "get"
      BY <2>3 DEF Stages
    <3> QED
      BY <2>1, <3>1, <3>2, <3>3
  <2> QED
    BY <2>2, <2>3
<1> QED
  BY <1>1, Invariance, PTL

(* What is written at any stage fits the memory allocated for the first    *)
(* frame, as long as all frames have its size; and PicMerge never refuses  *)
(* a picture, whatever sizes they have.                                    *)
THEOREM MemoryTheorem == Spec => []NoOverrun
<1>1. IInv => NoOverrun
  <2> SUFFICES ASSUME IInv PROVE NoOverrun
    OBVIOUS
  <2>0. AppType /\ SizeInv /\ PicInv /\ MemInv /\ ScreenInv
    BY DEF IInv
  <2>1. pc = "overrun" => varied
    BY <2>0 DEF MemInv
  <2>2. ASSUME pc = "merge" PROVE ~MergeRefuses(pic, screen)
    <3>1. Working /\ pc \in Stages /\ pic = Shown
      BY <2>0, <2>2 DEF PicInv, Working, Stages
    <3>2. /\ pic.w = ShownW /\ pic.h = ShownH /\ pic.bpp = display.bpp
          /\ ShownW \in 0 .. display.w /\ ShownH \in 0 .. display.h
      BY <2>0, <3>1, ShownFits
    <3>3. screen.w = display.w /\ screen.h = display.h /\ screen.bpp = display.bpp
      BY <2>0 DEF ScreenInv
    <3>4. display.w \in Pos /\ display.h \in Pos
      BY <2>0, Chosen DEF AppType
    <3> QED
      BY <3>2, <3>3, <3>4 DEF MergeRefuses, Pos
  <2> QED
    BY <2>1, <2>2 DEF NoOverrun
<1> QED
  BY <1>1, Invariance, PTL

(* Each place of what is shown is a copy of the place of the frame that    *)
(* lies under it.                                                          *)
LEMMA ShownCopies ==
  ASSUME AppType, SizeInv, Working, pc \in Stages,
         NEW c \in 0 .. ShownW - 1, NEW l \in 0 .. ShownH - 1
  PROVE  \E sx \in 0 .. frame[1] - 1, sy \in 0 .. frame[2] - 1 :
           /\ sx * ShownW <= c * frame[1] /\ c * frame[1] < (sx + 1) * ShownW
           /\ sy * ShownH <= l * frame[2] /\ l * frame[2] < (sy + 1) * ShownH
           /\ Shown.at[l * ShownW + c] = Frame(cur, frame).at[sy * frame[1] + sx]
<1> DEFINE m == frame[1]
           n == frame[2]
           w == ShownW
           h == ShownH
<1>1. m \in Nat \ {0} /\ n \in Nat \ {0}
  BY DEF SizeInv, Pos
<1>2. w \in Nat \ {0} /\ h \in Nat \ {0}
  BY ShownFits
<1>3. Converted.w = m /\ Converted.h = n /\ Converted.bpp = display.bpp
      /\ Converted.at = Frame(cur, frame).at
  BY DEF Converted, Frame
<1>4. CASE ~Large
  <2>1. Shown = Converted /\ w = m /\ h = n
    BY <1>4 DEF Shown, ShownW, ShownH
  <2>2. c * m <= c * m /\ c * m < (c + 1) * m /\ l * n <= l * n /\ l * n < (l + 1) * n
    <3> HIDE DEF m, n
    <3>1. (c + 1) * m = c * m + m /\ (l + 1) * n = l * n + n
      BY <1>1
    <3>2. c \in Nat /\ l \in Nat
      OBVIOUS
    <3>3. c * m \in Nat /\ l * n \in Nat
      BY <1>1, <3>2, Product
    <3> QED
      BY <1>1, <3>1, <3>3
  <2>3. c \in 0 .. m - 1 /\ l \in 0 .. n - 1
    BY <2>1
  <2> QED
    BY <1>3, <2>1, <2>2, <2>3
<1>5. CASE Large
  <2>1. Shown = PicZoom(Converted, w, h, Converted.bpp)
    BY <1>3, <1>5 DEF Shown, ShownW, ShownH
  <2> DEFINE sx == Source(c, m, w)
             sy == Source(l, n, h)
  <2>2. c \in 0 .. w - 1 /\ l \in 0 .. h - 1
    OBVIOUS
  <2> HIDE DEF m, n, w, h
  <2>3. /\ sx \in 0 .. m - 1 /\ sy \in 0 .. n - 1
        /\ PicZoom(Converted, w, h, Converted.bpp).at[l * w + c] = Converted.at[sy * m + sx]
    BY <1>1, <1>2, <1>3, <2>2, PicZoomLaw
  <2>4. sx * w <= c * m /\ c * m < (sx + 1) * w
    BY <1>1, <1>2, <2>2, SourceLaw
  <2>5. sy * h <= l * n /\ l * n < (sy + 1) * h
    BY <1>1, <1>2, <2>2, SourceLaw
  <2> HIDE DEF sx, sy
  <2> QED
    BY <1>3, <2>1, <2>3, <2>4, <2>5 DEF m, n, w, h
<1> QED
  BY <1>4, <1>5

(* When a frame is given back the screen shows it in the middle, whole and *)
(* in proportion, whatever sizes the frames have; around it is what was    *)
(* there, as long as they have one.                                        *)
THEOREM PictureTheorem == Spec => []PictureInPlace
<1>1. IInv => PictureInPlace
  <2> SUFFICES ASSUME IInv, pc = "put" PROVE PictureInPlace
    BY DEF PictureInPlace
  <2>1. AppType /\ SizeInv /\ PicInv /\ ScreenInv /\ Working /\ pc \in Stages
    BY DEF IInv, Working, Stages
  <2>2. pic = Shown /\ pic.w = ShownW /\ pic.h = ShownH
    BY <2>1, ShownFits DEF PicInv
  <2>3. /\ (display.w - pic.w) \div 2 = ShownLeft /\ (display.h - pic.h) \div 2 = ShownTop
    BY <2>2 DEF ShownLeft, ShownTop
  <2>4. /\ display.w \in Nat \ {0} /\ display.h \in Nat \ {0}
        /\ frame[1] \in Nat \ {0} /\ frame[2] \in Nat \ {0} /\ frame = <<frame[1], frame[2]>>
    BY <2>1, Chosen DEF AppType, SizeInv, Pos
  <2>5. frame[1] <= display.w /\ frame[2] <= display.h => <<pic.w, pic.h>> = frame
    BY <2>2, <2>4 DEF ShownW, ShownH, Large
  <2>6. ASSUME <<pic.w, pic.h>> # frame
        PROVE  /\ pic.w = display.w \/ pic.h = display.h
               /\ \/ Abs(pic.w * frame[2] - pic.h * frame[1]) <= frame[1]
                  \/ Abs(pic.w * frame[2] - pic.h * frame[1]) <= frame[2]
    <3>1. Large
      BY <2>2, <2>4, <2>6 DEF ShownW, ShownH
    <3>2. pic.w = zoom[frame][1] /\ pic.h = zoom[frame][2]
      BY <2>2, <3>1 DEF ShownW, ShownH
    <3>3. zoom[frame] \in ZoomSizes(frame[1], frame[2], display.w, display.h)
      BY <2>1 DEF SizeInv, ZoomsOf
    <3>4. /\ zoom[frame][1] = display.w \/ zoom[frame][2] = display.h
          /\ \/ zoom[frame][1] * frame[2] - zoom[frame][2] * frame[1] \in 0 .. frame[1]
             \/ zoom[frame][2] * frame[1] - zoom[frame][1] * frame[2] \in 0 .. frame[2]
      <4> DEFINE m == frame[1]
                 n == frame[2]
                 W == display.w
                 H == display.h
                 z == zoom[frame]
      <4>1. /\ m \in Nat \ {0} /\ n \in Nat \ {0} /\ W \in Nat \ {0} /\ H \in Nat \ {0}
            /\ z \in ZoomSizes(m, n, W, H)
        BY <2>4, <3>3
      <4> HIDE DEF m, n, W, H, z
      <4>2. /\ z[1] = W \/ z[2] = H
            /\ \/ z[1] * n - z[2] * m \in 0 .. m
               \/ z[2] * m - z[1] * n \in 0 .. n
        BY <4>1, ZoomFits
      <4> QED
        BY <4>2 DEF m, n, W, H, z
    <3>5. zoom[frame][1] * frame[2] \in Nat /\ zoom[frame][2] * frame[1] \in Nat
      <4>1. frame \in DOMAIN zoom
        BY <2>1 DEF SizeInv
      <4>2. zoom[frame] \in Nat \X Nat
        BY <2>1, <4>1 DEF AppType
      <4>3. zoom[frame][1] \in Nat /\ zoom[frame][2] \in Nat /\ frame[1] \in Nat /\ frame[2] \in Nat
        BY <2>4, <4>2
      <4> QED
        BY <4>3, Product
    <3> DEFINE p == zoom[frame][1] * frame[2]
               q == zoom[frame][2] * frame[1]
    <3>6. /\ p \in Nat /\ q \in Nat
          /\ p - q \in 0 .. frame[1] \/ q - p \in 0 .. frame[2]
      BY <3>4, <3>5
    <3> HIDE DEF p, q
    <3>7. Abs(p - q) <= frame[1] \/ Abs(p - q) <= frame[2]
      BY <2>4, <3>6 DEF Abs
    <3> QED
      BY <3>2, <3>4, <3>7 DEF p, q
  <2>7. ASSUME NEW x \in 0 .. display.w - 1, NEW y \in 0 .. display.h - 1, ~Inside(x, y), ~varied
        PROVE  screen.at[y * display.w + x] = Unset
    BY <2>1, <2>7 DEF ScreenInv
  <2>8. ASSUME NEW x \in 0 .. display.w - 1, NEW y \in 0 .. display.h - 1, Inside(x, y)
        PROVE  \E sx \in 0 .. frame[1] - 1, sy \in 0 .. frame[2] - 1 :
                 /\ sx * ShownW <= (x - ShownLeft) * frame[1]
                 /\ (x - ShownLeft) * frame[1] < (sx + 1) * ShownW
                 /\ sy * ShownH <= (y - ShownTop) * frame[2]
                 /\ (y - ShownTop) * frame[2] < (sy + 1) * ShownH
                 /\ screen.at[y * display.w + x] = Frame(cur, frame).at[sy * frame[1] + sx]
    <3>1. x - ShownLeft \in 0 .. ShownW - 1 /\ y - ShownTop \in 0 .. ShownH - 1
      BY <2>8 DEF Inside
    <3>2. screen.at[y * display.w + x]
            = Shown.at[(y - ShownTop) * ShownW + (x - ShownLeft)]
      BY <2>1, <2>2, <2>8 DEF ScreenInv
    <3> DEFINE c == x - ShownLeft
               l == y - ShownTop
    <3>3. c \in 0 .. ShownW - 1 /\ l \in 0 .. ShownH - 1
      BY <3>1
    <3> HIDE DEF c, l
    <3>4. \E sx \in 0 .. frame[1] - 1, sy \in 0 .. frame[2] - 1 :
            /\ sx * ShownW <= c * frame[1] /\ c * frame[1] < (sx + 1) * ShownW
            /\ sy * ShownH <= l * frame[2] /\ l * frame[2] < (sy + 1) * ShownH
            /\ Shown.at[l * ShownW + c] = Frame(cur, frame).at[sy * frame[1] + sx]
      BY <2>1, <3>3, ShownCopies
    <3> QED
      BY <3>2, <3>4 DEF c, l
  <2> QED
    BY <2>2, <2>3, <2>5, <2>6, <2>7, <2>8 DEF PictureInPlace, Inside
<1> QED
  BY <1>1, Invariance, PTL

=============================================================================
