--------------------------- MODULE UvcVideoProofs ---------------------------
(***************************************************************************)
(* Theorems about the UVC driver of Linux: what its handler copies stays   *)
(* in the buffer, a finished buffer holds one frame, the queues and the    *)
(* states agree, and nobody sleeps forever in DQBUF without a buffer that  *)
(* wants data, also when the device is gone; and the driver implements     *)
(* CaptureQueue.                                                           *)
(***************************************************************************)
EXTENDS UvcVideoRefinement, ListProofs, FiniteSetTheorems

USE DEF Finishing

(* The URBs and the handler: nothing is in flight without a stream, and    *)
(* before one is started; the handler has a URB of its own.  Once it has   *)
(* told that the device is gone it does not run again.                     *)
StreamInv ==
  /\ h # "idle" => live < NUrb
  /\ ctl \in {"on", "suspended", "closed"} \/ ~on => Killed
  /\ ctl = "on" => on
  /\ hAgain # -1 => hPkt < NPkt
  /\ h = "idle" => hBuf = 0
  /\ h \in Finishing => hBuf # 0
  /\ disconnected => unplugged /\ h = "idle"
  /\ dqAsleep => dqBuf # 0
  /\ dqTakes => dqBuf # 0 /\ ~dqAsleep

(* Nobody takes the buffer of a sleeper away from the handler that will    *)
(* wake it.                                                                *)
WakeInv ==
  dqAsleep => \/ bstate[dqBuf] \in {"QUEUED", "ACTIVE"}
              \/ h \in Finishing /\ hBuf = dqBuf /\ bstate[dqBuf] = "DONE"

(* A buffer that wants data is on irqqueue; the handler fills the first,   *)
(* and only the first has data.                                            *)
FillInv ==
  /\ \A b \in Buffers : bstate[b] \in {"QUEUED", "ACTIVE"} => b \in Range(irqq)
  /\ hBuf # 0 => irqq # << >> /\ hBuf = Head(irqq)
  /\ h \in Finishing => bstate[hBuf] \in {"DONE", "IDLE"}
  /\ \A b \in Buffers : bstate[b] = "ACTIVE" =>
       irqq # << >> /\ b = Head(irqq) /\ (h # "idle" => b = hBuf)
  /\ disconnected => irqq = << >>

(* irqqueue holds what is QUEUED, once, and in front what is being filled, *)
(* or what DQBUF took from there: it takes nothing else.                   *)
LineInv ==
  /\ \A i, j \in 1 .. Len(irqq) : irqq[i] = irqq[j] => i = j
  /\ \A i \in 2 .. Len(irqq) : bstate[irqq[i]] = "QUEUED"
  /\ irqq # << >> /\ h \notin Finishing => bstate[irqq[1]] \in {"QUEUED", "ACTIVE", "IDLE"}
  /\ dqTakes => \A i \in 2 .. Len(irqq) : irqq[i] # dqBuf

(* What is in the buffers.  After a restart of the stream the data of      *)
(* before are in the first of irqqueue, and the next packet ends its frame.*)
DataInv ==
  /\ \A b \in Buffers : ~mixed[b]
  /\ \A b \in Buffers : bstate[b] = "DONE" =>
       used[b] > 0 /\ on /\ (drop /\ ~Unsettled(b) => used[b] = Length)
  /\ h \in {"eof", "look", "drop"} => used[hBuf] > 0
  /\ passed => /\ irqq # << >> /\ lastFid = -1 /\ (h # "idle" => hBuf # 0)
               /\ h # "next" => used[Head(irqq)] > 0

-----------------------------------------------------------------------------
(* Type correctness, and where the URBs are.                               *)

LEMMA Numbers ==
  /\ NBuf \in Nat /\ NUrb \in Nat /\ NUrb > 0 /\ NPkt \in Nat /\ NPkt > 0
  /\ Length \in Nat /\ Length > 0 /\ MaxPayload \in Nat /\ MaxMaps \in Nat
  /\ Buffers \subseteq Nat /\ 0 \notin Buffers
  BY ConstantsAssumption DEF Buffers

(* What the next step finds at the head of a queue.                        *)
LEMMA Heads ==
  ASSUME NEW q \in Seq(Buffers)
  PROVE  /\ HeadOr0(q) \in Buffers \cup {0}
         /\ HeadOr0(q) # 0 => q # << >> /\ HeadOr0(q) = Head(q)
         /\ HeadOr0(q) = 0 => q = << >>
         /\ \A b : Unlinked(q, b) \in Seq(Buffers)
<1>1. \A b : Unlinked(q, b) \in Seq(Buffers)
  <2>1. CASE q = << >>
    BY <2>1, Numbers DEF HeadOr0, Unlinked
  <2>2. CASE q # << >>
    BY <2>2, HeadTailProperties DEF Unlinked
  <2> QED
    BY <2>1, <2>2
<1>2. HeadOr0(q) # 0 => q # << >> /\ HeadOr0(q) = Head(q)
  BY DEF HeadOr0
<1>3. q # << >> => Head(q) \in Buffers
  BY HeadTailProperties
<1> QED
  BY <1>1, <1>2, <1>3, Numbers DEF HeadOr0

(* What is in a queue after an element is linked at its end, or the first   *)
(* is unlinked.                                                            *)
LEMMA RangeAppend ==
  ASSUME NEW q \in Seq(Buffers), NEW b \in Buffers
  PROVE  /\ Range(Append(q, b)) = Range(q) \cup {b} /\ Append(q, b) # << >>
         /\ Head(Append(q, b)) = IF q = << >> THEN b ELSE Head(q)
<1>1. /\ Len(Append(q, b)) = Len(q) + 1 /\ DOMAIN Append(q, b) = 1 .. Len(q) + 1
      /\ \A i \in 1 .. Len(q) : Append(q, b)[i] = q[i]
      /\ Append(q, b)[Len(q) + 1] = b /\ Len(q) \in Nat /\ DOMAIN q = 1 .. Len(q)
  OBVIOUS
<1>2. Range(Append(q, b)) = Range(q) \cup {b}
  BY <1>1 DEF Range
<1>3. Append(q, b) # << >> /\ Head(Append(q, b)) = Append(q, b)[1]
  BY <1>1
<1>4. Len(q) = 0 <=> q = << >>
  OBVIOUS
<1>5. q # << >> => Head(q) = q[1]
  OBVIOUS
<1> QED
  BY <1>1, <1>2, <1>3, <1>4, <1>5

LEMMA RangeTail ==
  ASSUME NEW q \in Seq(Buffers), q # << >>
  PROVE  Range(q) = Range(Tail(q)) \cup {Head(q)}
<1>1. /\ Tail(q) \in Seq(Buffers) /\ Len(Tail(q)) = Len(q) - 1
      /\ \A i \in 1 .. Len(Tail(q)) : Tail(q)[i] = q[i + 1]
  BY HeadTailProperties
<1>2. Len(q) \in Nat \ {0} /\ DOMAIN q = 1 .. Len(q) /\ Head(q) = q[1]
  OBVIOUS
<1>3. DOMAIN Tail(q) = 1 .. Len(q) - 1
  BY <1>1
<1>4. \A x \in Range(q) : x \in Range(Tail(q)) \cup {Head(q)}
  <2> SUFFICES ASSUME NEW i \in 1 .. Len(q) PROVE q[i] \in Range(Tail(q)) \cup {Head(q)}
    BY <1>2 DEF Range
  <2>1. CASE i = 1
    BY <2>1, <1>2
  <2>2. CASE i # 1
    <3>1. i - 1 \in 1 .. Len(q) - 1 /\ (i - 1) + 1 = i
      BY <2>2, <1>2
    <3> QED
      BY <3>1, <1>1, <1>3 DEF Range
  <2> QED
    BY <2>1, <2>2
<1>5. \A x \in Range(Tail(q)) \cup {Head(q)} : x \in Range(q)
  <2>1. Head(q) \in Range(q)
    BY <1>2 DEF Range
  <2>2. ASSUME NEW i \in 1 .. Len(q) - 1 PROVE Tail(q)[i] \in Range(q)
    BY <1>1, <1>2 DEF Range
  <2> QED
    BY <2>1, <2>2, <1>3 DEF Range
<1> QED
  BY <1>4, <1>5

LEMMA RangeEmpty == Range(<< >>) = {}
  BY DEF Range

(* The flags, and what is not a flag.                                      *)
FlagType ==
  /\ on \in BOOLEAN /\ disconnected \in BOOLEAN /\ drop \in BOOLEAN /\ dqAsleep \in BOOLEAN
  /\ dqTakes \in BOOLEAN /\ passed \in BOOLEAN
  /\ unplugged \in BOOLEAN /\ frozen \in BOOLEAN
  /\ overtaken \in BOOLEAN /\ corrupt \in BOOLEAN

LEMMA Types ==
  ASSUME TypeOK, StreamInv, [Next]_vars
  PROVE  TypeOK'
<1> USE DEF TypeOK
<1>1. CASE Ioctl
  <2> USE DEF bufVars, flagVars, dqVars, usbVars, hVars
  <2>1. CASE \E n \in 0 .. NBuf : Reqbufs(n)
    <3>1. FlagType'
      BY <2>1, Zenon DEF Reqbufs, FlagType
    <3>2. /\ count' \in 0 .. NBuf /\ bstate' = [b \in Buffers |-> "IDLE"]
          /\ used' = [b \in Buffers |-> 0] /\ mixed' = [b \in Buffers |-> FALSE]
      BY <2>1 DEF Reqbufs
    <3>3. UNCHANGED <<mainq, irqq, maps, dqBuf, ctl, lastFid, live, h, hBuf, hPkt, hAgain>>
      BY <2>1 DEF Reqbufs
    <3> QED
      BY <3>1, <3>2, <3>3, Numbers DEF FlagType
  <2>2. CASE \E b \in Buffers : Qbuf(b)
    BY <2>2, Numbers DEF Qbuf
  <2>3. CASE Mmap
    BY <2>3, Numbers DEF Mmap
  <2>4. CASE Munmap
    BY <2>4, Numbers DEF Munmap
  <2>5. CASE Dqbuf
    <3>1. dqBuf' \in Buffers \cup {0}
      BY <2>5 DEF Dqbuf
    <3>2. FlagType'
      BY <2>5, Zenon DEF Dqbuf, FlagType
    <3> QED
      BY <2>5, <3>1, <3>2 DEF Dqbuf, FlagType
  <2>6. CASE DqbufSleep
    BY <2>6, Numbers DEF DqbufSleep
  <2>7. CASE DqbufInterrupted
    <3>1. FlagType'
      BY <2>7, Zenon DEF DqbufInterrupted, FlagType
    <3> QED
      BY <2>7, Numbers, <3>1 DEF DqbufInterrupted, FlagType
  <2>8. CASE DqbufTake
    BY <2>8, Numbers DEF DqbufTake
  <2>9. CASE DqbufGive
    <3>1. FlagType'
      <4>1. overtaken' \in BOOLEAN
        BY <2>9, Zenon DEF DqbufGive
      <4>2. dqTakes' = FALSE /\ UNCHANGED <<passed, flagVars, dqAsleep, unplugged, frozen, corrupt>>
        BY <2>9, Zenon DEF DqbufGive
      <4> QED
        BY <4>1, <4>2, Zenon DEF FlagType
    <3>2. dqBuf \in Buffers
      BY <2>9, Numbers DEF DqbufGive, StreamInv
    <3>3. /\ bstate' = [bstate EXCEPT ![dqBuf] = "IDLE"] /\ mainq' = Unlinked(mainq, dqBuf)
          /\ \/ UNCHANGED <<used, mixed>>
             \/ used' = [used EXCEPT ![dqBuf] = 0] /\ mixed' = [mixed EXCEPT ![dqBuf] = FALSE]
      BY <2>9, Zenon DEF DqbufGive
    <3>4. /\ bstate' \in [Buffers -> {"IDLE", "QUEUED", "ACTIVE", "DONE", "ERROR"}]
          /\ used' \in [Buffers -> 0 .. Length] /\ mixed' \in [Buffers -> BOOLEAN]
          /\ mainq' \in Seq(Buffers)
      <4>1. mainq' \in Seq(Buffers)
        BY <3>3, Heads
      <4>2. bstate' \in [Buffers -> {"IDLE", "QUEUED", "ACTIVE", "DONE", "ERROR"}]
        BY <3>2, <3>3
      <4>3. used' \in [Buffers -> 0 .. Length]
        BY <3>2, <3>3, Numbers
      <4>4. mixed' \in [Buffers -> BOOLEAN]
        BY <3>2, <3>3
      <4> QED
        BY <4>1, <4>2, <4>3, <4>4
    <3>5. dqBuf' = 0 /\ UNCHANGED <<count, irqq, maps, ctl, lastFid, live, h, hBuf, hPkt, hAgain>>
      BY <2>9, Zenon DEF DqbufGive
    <3> QED
      BY <3>1, <3>4, <3>5 DEF FlagType
  <2> QED
    BY <1>1, <2>1, <2>2, <2>3, <2>4, <2>5, <2>6, <2>7, <2>8, <2>9 DEF Ioctl
<1>2. CASE Control
  <2> USE DEF bufVars, flagVars, dqVars, usbVars, hVars
  <2>1. CASE \E n \in 0 .. NUrb - 1 : InitVideoFails(n)
    BY <2>1, Numbers DEF InitVideoFails
  <2>2. CASE \E n \in 0 .. NUrb - 1 : ResumeFails(n)
    <3>1. FlagType'
      BY <2>2, Zenon DEF ResumeFails, FlagType
    <3> QED
      BY <2>2, Numbers, <3>1 DEF ResumeFails, FlagType
  <2>3. CASE Streamon
    BY <2>3, Numbers DEF Streamon
  <2>4. CASE InitVideo
    BY <2>4, Numbers DEF InitVideo
  <2>5. CASE Streamoff
    BY <2>5, Numbers DEF Streamoff
  <2>6. CASE Release
    BY <2>6, Numbers DEF Release
  <2>7. CASE Open
    BY <2>7, Numbers DEF Open
  <2>8. CASE Suspend
    BY <2>8, Numbers DEF Suspend
  <2>9. CASE Resume
    <3>1. FlagType'
      BY <2>9, Zenon DEF Resume, FlagType
    <3> QED
      BY <2>9, Numbers, <3>1 DEF Resume, FlagType
  <2>10. CASE ThawUnplugged
    BY <2>10, Numbers DEF ThawUnplugged
  <2>11. CASE UninitDone
    BY <2>11, Numbers DEF UninitDone
  <2>12. CASE Disable
    <3>1. FlagType'
      BY <2>12, Zenon DEF Disable, FlagType
    <3> QED
      BY <2>12, Numbers, <3>1 DEF Disable, FlagType
  <2> QED
    BY <1>2, <2>1, <2>2, <2>3, <2>4, <2>5, <2>6, <2>7, <2>8, <2>9, <2>10, <2>11, <2>12 DEF Control
<1>3. CASE Handler
  <2> USE DEF bufVars, flagVars, dqVars, usbVars, hVars
  <2>1. CASE Skip
    BY <2>1, Numbers DEF Skip, PacketDone
  <2>2. CASE \E fid \in {0, 1} : DecodeNoBuffer(fid)
    <3>1. hPkt < NPkt
      BY <2>2 DEF DecodeNoBuffer, Decoding, StreamInv
    <3>2. hPkt' \in 0 .. NPkt /\ hAgain' = -1 /\ lastFid' \in {-1, 0, 1}
      BY <2>2, <3>1, Numbers DEF DecodeNoBuffer, PacketDone
    <3> QED
      BY <2>2, <3>2 DEF DecodeNoBuffer
  <2>8. CASE \E fid \in {0, 1} : DecodeOutOfSync(fid)
    <3>1. hPkt < NPkt
      BY <2>8 DEF DecodeOutOfSync, Decoding, StreamInv
    <3>2. hPkt' \in 0 .. NPkt /\ hAgain' = -1
      BY <2>8, <3>1, Numbers DEF DecodeOutOfSync, PacketDone
    <3> QED
      BY <2>8, <3>2 DEF DecodeOutOfSync
  <2>3. CASE \E fid \in {0, 1} : DecodeToggled(fid)
    BY <2>3, Numbers DEF DecodeToggled, AfterDone
  <2>4. CASE \E fid \in {0, 1}, len \in 0 .. MaxPayload, eof \in BOOLEAN :
               DecodeStore(fid, len, eof)
    <3> PICK fid \in {0, 1}, len \in 0 .. MaxPayload, eof \in BOOLEAN : DecodeStore(fid, len, eof)
      BY <2>4
    <3>1. hPkt < NPkt
      BY DEF DecodeStore, Decoding, StreamInv
    <3>2. used[hBuf] + Copied(len) \in 0 .. Length
      BY Numbers DEF DecodeStore, Copied
    <3>4. hPkt' \in 0 .. NPkt /\ hAgain' = -1
      BY <3>1, Numbers DEF DecodeStore, PacketDone
    <3>5. used' \in [Buffers -> 0 .. Length]
      BY <3>2 DEF DecodeStore
    <3>6. mixed' \in [Buffers -> BOOLEAN] /\ passed' \in BOOLEAN
      <4>1. PICK g \in BOOLEAN : mixed' = [mixed EXCEPT ![hBuf] = @ \/ g]
        BY Zenon DEF DecodeStore
      <4>2. passed' \in BOOLEAN
        BY Zenon DEF DecodeStore
      <4> QED
        BY <4>1, <4>2
    <3>7. /\ bstate' \in [Buffers -> {"IDLE", "QUEUED", "ACTIVE", "DONE", "ERROR"}]
          /\ h' \in {"idle", "packet", "eof", "look", "drop", "next"} /\ lastFid' \in {-1, 0, 1}
      BY DEF DecodeStore
    <3> QED
      BY <3>4, <3>5, <3>6, <3>7 DEF DecodeStore
  <2>5. CASE NextBufferDrops
    <3>1. FlagType'
      BY <2>5, Zenon DEF NextBufferDrops, FlagType
    <3>2. used' \in [Buffers -> 0 .. Length]
      <4>1. used' = [used EXCEPT ![hBuf] = 0]
        BY <2>5 DEF NextBufferDrops
      <4>2. used \in [Buffers -> 0 .. Length] /\ 0 \in 0 .. Length
        BY Numbers
      <4> HIDE DEF TypeOK
      <4> QED
        BY <4>1, <4>2
    <3>3. mixed' \in [Buffers -> BOOLEAN]
      BY <2>5 DEF NextBufferDrops
    <3>4. bstate' \in [Buffers -> {"IDLE", "QUEUED", "ACTIVE", "DONE", "ERROR"}]
      BY <2>5 DEF NextBufferDrops
    <3>5. h' = "packet" /\ UNCHANGED <<count, mainq, irqq, maps, dqBuf, ctl, lastFid, live,
                                      hBuf, hPkt, hAgain>>
      BY <2>5 DEF NextBufferDrops
    <3> QED
      BY <3>1, <3>2, <3>3, <3>4, <3>5 DEF FlagType
  <2>6. CASE NextBuffer
    <3>1. FlagType'
      BY <2>6, Zenon DEF NextBuffer, Wake, FlagType
    <3>2. irqq' \in Seq(Buffers) /\ hBuf' \in Buffers \cup {0} /\ h' = "packet"
      BY <2>6, Heads DEF NextBuffer
    <3>3. UNCHANGED <<count, bstate, used, mixed, mainq, maps, dqBuf, ctl, lastFid, live,
                      hPkt, hAgain>>
      BY <2>6 DEF NextBuffer
    <3> QED
      BY <3>1, <3>2, <3>3 DEF FlagType
  <2>7. CASE Resubmit
    BY <2>7, Numbers DEF Resubmit, StreamInv
  <2>9. CASE DecodeEnd
    <3>1. bstate' \in [Buffers -> {"IDLE", "QUEUED", "ACTIVE", "DONE", "ERROR"}]
      BY <2>9 DEF DecodeEnd
    <3>2. FlagType'
      BY <2>9, Zenon DEF DecodeEnd, FlagType
    <3>3. h' = "look" /\ UNCHANGED <<count, used, mixed, mainq, irqq, maps, dqBuf, ctl, lastFid,
                                    live, hBuf, hPkt, hAgain>>
      BY <2>9 DEF DecodeEnd
    <3> QED
      BY <3>1, <3>2, <3>3 DEF FlagType
  <2>10. CASE Look
    BY <2>10 DEF Look, AfterDone
  <2> QED
    BY <1>3, <2>1, <2>2, <2>3, <2>4, <2>5, <2>6, <2>7, <2>8, <2>9, <2>10 DEF Handler, Decode
<1>4. CASE Usb
  <2> USE DEF bufVars, flagVars, dqVars, usbVars, hVars
  <2>1. CASE Unplug
    BY <2>1 DEF Unplug
  <2>2. CASE Complete
    BY <2>2, Numbers, Heads DEF Complete
  <2>3. CASE \E shutdown \in BOOLEAN : CompleteStatus(shutdown)
    <3>1. FlagType'
      BY <2>3, Zenon DEF CompleteStatus, Wake, FlagType
    <3>2. /\ bstate' \in [Buffers -> {"IDLE", "QUEUED", "ACTIVE", "DONE", "ERROR"}]
          /\ irqq' \in Seq(Buffers)
      <4>1. \/ bstate' = bstate /\ irqq' = irqq
            \/ /\ bstate' = [b \in Buffers |-> IF b \in Range(irqq) THEN "ERROR" ELSE bstate[b]]
               /\ irqq' = << >>
        BY <2>3, Zenon DEF CompleteStatus
      <4>2. \A b \in Buffers : bstate[b] \in {"IDLE", "QUEUED", "ACTIVE", "DONE", "ERROR"}
        OBVIOUS
      <4>3. /\ bstate \in [Buffers -> {"IDLE", "QUEUED", "ACTIVE", "DONE", "ERROR"}]
            /\ irqq \in Seq(Buffers)
        OBVIOUS
      <4> HIDE DEF TypeOK
      <4> QED
        BY <4>1, <4>2, <4>3, EmptySeq
    <3>3. live' \in 0 .. NUrb
      <4>1. live' = live - 1 /\ live > 0
        BY <2>3 DEF CompleteStatus
      <4> QED
        BY <4>1, Numbers
    <3>4. UNCHANGED <<count, used, mixed, mainq, maps, dqBuf, ctl, lastFid, h, hBuf, hPkt, hAgain>>
      BY <2>3 DEF CompleteStatus
    <3> QED
      BY <3>1, <3>2, <3>3, <3>4 DEF FlagType
  <2> QED
    BY <1>4, <2>1, <2>2, <2>3 DEF Usb
<1>5. CASE UNCHANGED vars
  BY <1>5 DEF vars, bufVars, flagVars, dqVars, usbVars, hVars
<1> QED
  BY <1>1, <1>2, <1>3, <1>4, <1>5 DEF Next

(* The URBs and the handler.                                               *)
LEMMA Streams ==
  ASSUME TypeOK, StreamInv, [Next]_vars
  PROVE  StreamInv'
<1>1. CASE Ioctl
  <2> USE DEF bufVars, flagVars, dqVars, usbVars, hVars
  <2>1. CASE \E n \in 0 .. NBuf : Reqbufs(n)
    BY <2>1, Numbers DEF Reqbufs, HasMutex, Running, StreamInv, Killed, TypeOK
  <2>2. CASE Mmap
    BY <2>2, Numbers DEF Mmap, HasMutex, Running, StreamInv, Killed, TypeOK
  <2>3. CASE Munmap
    BY <2>3, Numbers DEF Munmap, HasMutex, Running, StreamInv, Killed, TypeOK
  <2>4. CASE \E b \in Buffers : Qbuf(b)
    BY <2>4, Numbers DEF Qbuf, HasMutex, Running, StreamInv, Killed, TypeOK
  <2>5. CASE Dqbuf
    BY <2>5, Numbers DEF Dqbuf, HasMutex, Running, StreamInv, Killed, TypeOK
  <2>6. CASE DqbufSleep
    BY <2>6, Numbers DEF DqbufSleep, HasMutex, Running, StreamInv, Killed, TypeOK
  <2>7. CASE DqbufTake
    BY <2>7, Numbers DEF DqbufTake, StreamInv, Killed, TypeOK
  <2>9. CASE DqbufGive
    BY <2>9, Numbers DEF DqbufGive, StreamInv, Killed, TypeOK
  <2>8. CASE DqbufInterrupted
    BY <2>8, Numbers DEF DqbufInterrupted, HasMutex, Running, StreamInv, Killed, TypeOK
  <2> QED
    BY <1>1, <2>1, <2>2, <2>3, <2>4, <2>5, <2>6, <2>7, <2>8, <2>9 DEF Ioctl
<1>2. CASE Control
  <2> USE DEF bufVars, flagVars, dqVars, usbVars, hVars
  <2>1. CASE Streamon
    BY <2>1, Numbers DEF Streamon, HasMutex, Running, StreamInv, Killed, TypeOK
  <2>2. CASE InitVideo
    BY <2>2, Numbers DEF InitVideo, StreamInv, Killed, TypeOK
  <2>3. CASE \E n \in 0 .. NUrb - 1 : InitVideoFails(n)
    BY <2>3, Numbers DEF InitVideoFails, StreamInv, Killed, TypeOK
  <2>4. CASE \E n \in 0 .. NUrb - 1 : ResumeFails(n)
    BY <2>4, Numbers DEF ResumeFails, StreamInv, Killed, TypeOK
  <2>5. CASE Streamoff
    BY <2>5, Numbers DEF Streamoff, HasMutex, Running, StreamInv, Killed, TypeOK
  <2>6. CASE Release
    BY <2>6, Numbers DEF Release, HasMutex, Running, StreamInv, Killed, TypeOK
  <2>7. CASE Open
    BY <2>7, Numbers DEF Open, StreamInv, Killed, TypeOK
  <2>8. CASE Suspend
    BY <2>8, Numbers DEF Suspend, HasMutex, Running, StreamInv, Killed, TypeOK
  <2>9. CASE Resume
    BY <2>9, Numbers DEF Resume, StreamInv, Killed, TypeOK
  <2>10. CASE ThawUnplugged
    BY <2>10, Numbers DEF ThawUnplugged, StreamInv, Killed, TypeOK
  <2>11. CASE UninitDone
    BY <2>11, Numbers DEF UninitDone, StreamInv, Killed, TypeOK
  <2>12. CASE Disable
    BY <2>12, Numbers DEF Disable, StreamInv, Killed, TypeOK
  <2> QED
    BY <1>2, <2>1, <2>2, <2>3, <2>4, <2>5, <2>6, <2>7, <2>8, <2>9, <2>10, <2>11, <2>12 DEF Control
<1>3. CASE Handler
  <2> USE DEF bufVars, flagVars, dqVars, usbVars, hVars
  <2>1. CASE Skip
    BY <2>1, Numbers DEF Skip, PacketDone, StreamInv, Killed, TypeOK
  <2>2. CASE \E fid \in {0, 1} : DecodeNoBuffer(fid)
    BY <2>2, Numbers DEF DecodeNoBuffer, PacketDone, Decoding, StreamInv, Killed, TypeOK
  <2>3. CASE \E fid \in {0, 1} : DecodeOutOfSync(fid)
    BY <2>3, Numbers DEF DecodeOutOfSync, PacketDone, Decoding, StreamInv, Killed, TypeOK
  <2>4. CASE \E fid \in {0, 1} : DecodeToggled(fid)
    BY <2>4, Numbers DEF DecodeToggled, AfterDone, Decoding, StreamInv, Killed, TypeOK
  <2>5. CASE \E fid \in {0, 1}, len \in 0 .. MaxPayload, eof \in BOOLEAN :
               DecodeStore(fid, len, eof)
    BY <2>5, Numbers DEF DecodeStore, AfterDone, PacketDone, Decoding, StreamInv, Killed, TypeOK
  <2>6. CASE NextBufferDrops
    BY <2>6, Numbers DEF NextBufferDrops, StreamInv, Killed, TypeOK
  <2>7. CASE NextBuffer
    BY <2>7, Numbers DEF NextBuffer, Wake, StreamInv, Killed, TypeOK
  <2>8. CASE Resubmit
    BY <2>8, Numbers DEF Resubmit, StreamInv, Killed, TypeOK
  <2>9. CASE DecodeEnd
    BY <2>9, Numbers DEF DecodeEnd, StreamInv, Killed, TypeOK
  <2>10. CASE Look
    BY <2>10, Numbers DEF Look, AfterDone, StreamInv, Killed, TypeOK
  <2> QED
    BY <1>3, <2>1, <2>2, <2>3, <2>4, <2>5, <2>6, <2>7, <2>8, <2>9, <2>10 DEF Handler, Decode
<1>4. CASE Usb
  <2> USE DEF bufVars, flagVars, dqVars, usbVars, hVars
  <2>1. CASE Unplug
    BY <2>1, Numbers DEF Unplug, StreamInv, Killed, TypeOK
  <2>2. CASE Complete
    BY <2>2, Numbers DEF Complete, StreamInv, Killed, TypeOK
  <2>3. CASE \E shutdown \in BOOLEAN : CompleteStatus(shutdown)
    BY <2>3, Numbers DEF CompleteStatus, Wake, StreamInv, Killed, TypeOK
  <2> QED
    BY <1>4, <2>1, <2>2, <2>3 DEF Usb
<1>5. CASE UNCHANGED vars
    BY <1>5, Numbers DEF vars, bufVars, flagVars, dqVars, usbVars, hVars, StreamInv, Killed, TypeOK
<1> QED
  BY <1>1, <1>2, <1>3, <1>4, <1>5 DEF Next

(* DQBUF and the handler that wakes it.                                    *)
LEMMA Sleepers ==
  ASSUME TypeOK, StreamInv, WakeInv, [Next]_vars
  PROVE  WakeInv'
<1>1. CASE Ioctl
  <2> USE DEF bufVars, flagVars, dqVars, usbVars, hVars
  <2>1. CASE \E n \in 0 .. NBuf : Reqbufs(n)
    BY <2>1, Numbers DEF Reqbufs, HasMutex, Running, StreamInv, WakeInv, TypeOK
  <2>2. CASE Mmap
    BY <2>2, Numbers DEF Mmap, HasMutex, Running, StreamInv, WakeInv, TypeOK
  <2>3. CASE Munmap
    BY <2>3, Numbers DEF Munmap, HasMutex, Running, StreamInv, WakeInv, TypeOK
  <2>4. CASE \E b \in Buffers : Qbuf(b)
    BY <2>4, Numbers DEF Qbuf, HasMutex, Running, StreamInv, WakeInv, TypeOK
  <2>5. CASE Dqbuf
    BY <2>5, Numbers DEF Dqbuf, HasMutex, Running, StreamInv, WakeInv, TypeOK
  <2>6. CASE DqbufSleep
    BY <2>6, Numbers DEF DqbufSleep, HasMutex, Running, StreamInv, WakeInv, TypeOK
  <2>7. CASE DqbufTake
    BY <2>7, Numbers DEF DqbufTake, StreamInv, WakeInv, TypeOK
  <2>9. CASE DqbufGive
    BY <2>9, Numbers DEF DqbufGive, StreamInv, WakeInv, TypeOK
  <2>8. CASE DqbufInterrupted
    BY <2>8, Numbers DEF DqbufInterrupted, HasMutex, Running, StreamInv, WakeInv, TypeOK
  <2> QED
    BY <1>1, <2>1, <2>2, <2>3, <2>4, <2>5, <2>6, <2>7, <2>8, <2>9 DEF Ioctl
<1>2. CASE Control
  <2> USE DEF bufVars, flagVars, dqVars, usbVars, hVars
  <2>1. CASE Streamon
    BY <2>1, Numbers DEF Streamon, HasMutex, Running, StreamInv, WakeInv, TypeOK
  <2>2. CASE InitVideo
    BY <2>2, Numbers DEF InitVideo, StreamInv, WakeInv, TypeOK
  <2>3. CASE \E n \in 0 .. NUrb - 1 : InitVideoFails(n)
    BY <2>3, Numbers DEF InitVideoFails, StreamInv, WakeInv, TypeOK
  <2>4. CASE \E n \in 0 .. NUrb - 1 : ResumeFails(n)
    BY <2>4, Numbers DEF ResumeFails, StreamInv, WakeInv, TypeOK
  <2>5. CASE Streamoff
    BY <2>5, Numbers DEF Streamoff, HasMutex, Running, StreamInv, WakeInv, TypeOK
  <2>6. CASE Release
    BY <2>6, Numbers DEF Release, HasMutex, Running, StreamInv, WakeInv, TypeOK
  <2>7. CASE Open
    BY <2>7, Numbers DEF Open, StreamInv, WakeInv, TypeOK
  <2>8. CASE Suspend
    BY <2>8, Numbers DEF Suspend, HasMutex, Running, StreamInv, WakeInv, TypeOK
  <2>9. CASE Resume
    BY <2>9, Numbers DEF Resume, StreamInv, WakeInv, TypeOK
  <2>10. CASE ThawUnplugged
    BY <2>10, Numbers DEF ThawUnplugged, StreamInv, WakeInv, TypeOK
  <2>11. CASE UninitDone
    BY <2>11, Numbers DEF UninitDone, StreamInv, WakeInv, TypeOK
  <2>12. CASE Disable
    BY <2>12, Numbers DEF Disable, StreamInv, WakeInv, TypeOK
  <2> QED
    BY <1>2, <2>1, <2>2, <2>3, <2>4, <2>5, <2>6, <2>7, <2>8, <2>9, <2>10, <2>11, <2>12 DEF Control
<1>3. CASE Handler
  <2> USE DEF bufVars, flagVars, dqVars, usbVars, hVars
  <2>1. CASE Skip
    BY <2>1, Numbers DEF Skip, PacketDone, StreamInv, WakeInv, TypeOK
  <2>2. CASE \E fid \in {0, 1} : DecodeNoBuffer(fid)
    BY <2>2, Numbers DEF DecodeNoBuffer, PacketDone, Decoding, StreamInv, WakeInv, TypeOK
  <2>3. CASE \E fid \in {0, 1} : DecodeOutOfSync(fid)
    BY <2>3, Numbers DEF DecodeOutOfSync, PacketDone, Decoding, StreamInv, WakeInv, TypeOK
  <2>4. CASE \E fid \in {0, 1} : DecodeToggled(fid)
    BY <2>4, Numbers DEF DecodeToggled, AfterDone, Decoding, StreamInv, WakeInv, TypeOK
  <2>5. CASE \E fid \in {0, 1}, len \in 0 .. MaxPayload, eof \in BOOLEAN :
               DecodeStore(fid, len, eof)
    BY <2>5, Numbers DEF DecodeStore, AfterDone, PacketDone, Decoding, StreamInv, WakeInv, TypeOK
  <2>6. CASE NextBufferDrops
    BY <2>6, Numbers DEF NextBufferDrops, StreamInv, WakeInv, TypeOK
  <2>7. CASE NextBuffer
    BY <2>7, Numbers DEF NextBuffer, Wake, StreamInv, WakeInv, TypeOK
  <2>8. CASE Resubmit
    BY <2>8, Numbers DEF Resubmit, StreamInv, WakeInv, TypeOK
  <2>9. CASE DecodeEnd
    BY <2>9, Numbers DEF DecodeEnd, StreamInv, WakeInv, TypeOK
  <2>10. CASE Look
    BY <2>10, Numbers DEF Look, AfterDone, StreamInv, WakeInv, TypeOK
  <2> QED
    BY <1>3, <2>1, <2>2, <2>3, <2>4, <2>5, <2>6, <2>7, <2>8, <2>9, <2>10 DEF Handler, Decode
<1>4. CASE Usb
  <2> USE DEF bufVars, flagVars, dqVars, usbVars, hVars
  <2>1. CASE Unplug
    BY <2>1, Numbers DEF Unplug, StreamInv, WakeInv, TypeOK
  <2>2. CASE Complete
    BY <2>2, Numbers DEF Complete, StreamInv, WakeInv, TypeOK
  <2>3. CASE \E shutdown \in BOOLEAN : CompleteStatus(shutdown)
    <3>1. /\ dqAsleep' => dqAsleep
          /\ dqAsleep' => bstate'[dqBuf] = bstate[dqBuf]
      <4>1. PICK shutdown \in BOOLEAN : CompleteStatus(shutdown)
        BY <2>3
      <4>2. CASE frozen /\ ~shutdown
        BY <4>1, <4>2, Zenon DEF CompleteStatus
      <4>3. CASE ~(frozen /\ ~shutdown)
        <5>1. dqAsleep' = (dqAsleep /\ dqBuf \notin Range(irqq))
          BY <4>1, <4>3, Zenon DEF CompleteStatus, Wake
        <5>2. bstate' = [b \in Buffers |-> IF b \in Range(irqq) THEN "ERROR" ELSE bstate[b]]
          BY <4>1, <4>3, Zenon DEF CompleteStatus
        <5>3. dqAsleep => dqBuf \in Buffers
          BY DEF TypeOK, StreamInv
        <5> QED
          BY <5>1, <5>2, <5>3, Zenon
      <4> QED
        BY <4>2, <4>3
    <3>2. dqBuf' = dqBuf /\ h = "idle"
      BY <2>3 DEF CompleteStatus
    <3> QED
      BY <3>1, <3>2 DEF WakeInv
  <2> QED
    BY <1>4, <2>1, <2>2, <2>3 DEF Usb
<1>5. CASE UNCHANGED vars
    BY <1>5, Numbers DEF vars, bufVars, flagVars, dqVars, usbVars, hVars, StreamInv, WakeInv, TypeOK
<1> QED
  BY <1>1, <1>2, <1>3, <1>4, <1>5 DEF Next

(* After the data of a packet the buffer is ACTIVE, or DONE and the frame  *)
(* is over.                                                                *)
LEMMA StoreStates ==
  ASSUME NEW fid, NEW len, NEW eof, DecodeStore(fid, len, eof)
  PROVE  \/ bstate' = [bstate EXCEPT ![hBuf] = "DONE"] /\ h' \in {"eof", "look"}
         \/ bstate' = [bstate EXCEPT ![hBuf] = "ACTIVE"] /\ h' = "packet"
<1> DEFINE over == len > Length - used[hBuf]
           last == eof /\ used[hBuf] + Copied(len) # 0
<1>1. /\ bstate' = [bstate EXCEPT ![hBuf] = IF over \/ last THEN "DONE" ELSE "ACTIVE"]
      /\ h' = (IF over /\ eof THEN "eof" ELSE IF over \/ last THEN "look" ELSE h) /\ h = "packet"
  BY DEF DecodeStore, Decoding
<1> HIDE DEF over, last
<1> QED
  BY <1>1

(* irqqueue and what the handler fills; only corrupted lists are excluded. *)
LEMMA Fills ==
  ASSUME TypeOK, StreamInv, FillInv, [Next]_vars, ~corrupt'
  PROVE  FillInv'
<1>1. CASE Ioctl
  <2> USE DEF bufVars, flagVars, dqVars, usbVars, hVars
  <2>1. CASE \E n \in 0 .. NBuf : Reqbufs(n)
    BY <2>1, Numbers DEF Reqbufs, HasMutex, Running, StreamInv, FillInv, TypeOK
  <2>2. CASE Mmap
    BY <2>2, Numbers DEF Mmap, HasMutex, Running, StreamInv, FillInv, TypeOK
  <2>3. CASE Munmap
    BY <2>3, Numbers DEF Munmap, HasMutex, Running, StreamInv, FillInv, TypeOK
  <2>4. CASE \E b \in Buffers : Qbuf(b)
    <3>1. PICK b \in Buffers : Qbuf(b)
      BY <2>4
    <3>2. /\ bstate[b] = "IDLE" /\ bstate' = [bstate EXCEPT ![b] = "QUEUED"]
          /\ irqq' = Append(irqq, b) /\ b \notin Range(irqq) /\ ~disconnected
          /\ UNCHANGED <<h, hBuf, disconnected>>
      BY <3>1 DEF Qbuf, TypeOK
    <3>3. /\ Range(irqq') = Range(irqq) \cup {b} /\ irqq' # << >>
          /\ irqq # << >> => Head(irqq') = Head(irqq)
      BY <3>2, RangeAppend DEF TypeOK
    <3>4. hBuf # 0 => hBuf # b
      BY <3>2, RangeTail DEF FillInv, TypeOK
    <3> QED
      BY <3>2, <3>3, <3>4 DEF FillInv, TypeOK, StreamInv
  <2>5. CASE Dqbuf
    BY <2>5, Numbers DEF Dqbuf, HasMutex, Running, StreamInv, FillInv, TypeOK
  <2>6. CASE DqbufSleep
    BY <2>6, Numbers DEF DqbufSleep, HasMutex, Running, StreamInv, FillInv, TypeOK
  <2>7. CASE DqbufTake
    BY <2>7, Numbers DEF DqbufTake, StreamInv, FillInv, TypeOK
  <2>9. CASE DqbufGive
    <3>1. /\ bstate' = [bstate EXCEPT ![dqBuf] = "IDLE"]
          /\ UNCHANGED <<irqq, h, hBuf, disconnected>>
      BY <2>9 DEF DqbufGive
    <3>2. \A b \in Buffers : bstate'[b] = "IDLE" \/ bstate'[b] = bstate[b]
      BY <3>1 DEF TypeOK
    <3>3. h \in Finishing => hBuf \in Buffers
      BY DEF StreamInv, TypeOK
    <3> QED
      BY <3>1, <3>2, <3>3 DEF FillInv
  <2>8. CASE DqbufInterrupted
    BY <2>8, Numbers DEF DqbufInterrupted, HasMutex, Running, StreamInv, FillInv, TypeOK
  <2> QED
    BY <1>1, <2>1, <2>2, <2>3, <2>4, <2>5, <2>6, <2>7, <2>8, <2>9 DEF Ioctl
<1>2. CASE Control
  <2> USE DEF bufVars, flagVars, dqVars, usbVars, hVars
  <2>1. CASE Streamon
    BY <2>1, Numbers DEF Streamon, HasMutex, Running, StreamInv, FillInv, TypeOK
  <2>2. CASE InitVideo
    BY <2>2, Numbers DEF InitVideo, StreamInv, FillInv, TypeOK
  <2>3. CASE \E n \in 0 .. NUrb - 1 : InitVideoFails(n)
    BY <2>3, Numbers DEF InitVideoFails, StreamInv, FillInv, TypeOK
  <2>4. CASE \E n \in 0 .. NUrb - 1 : ResumeFails(n)
    BY <2>4, Numbers DEF ResumeFails, StreamInv, FillInv, TypeOK
  <2>5. CASE Streamoff
    BY <2>5, Numbers DEF Streamoff, HasMutex, Running, StreamInv, FillInv, TypeOK
  <2>6. CASE Release
    BY <2>6, Numbers DEF Release, HasMutex, Running, StreamInv, FillInv, TypeOK
  <2>7. CASE Open
    BY <2>7, Numbers DEF Open, StreamInv, FillInv, TypeOK
  <2>8. CASE Suspend
    BY <2>8, Numbers DEF Suspend, HasMutex, Running, StreamInv, FillInv, TypeOK
  <2>9. CASE Resume
    BY <2>9, Numbers DEF Resume, StreamInv, FillInv, TypeOK
  <2>10. CASE ThawUnplugged
    BY <2>10, Numbers DEF ThawUnplugged, StreamInv, FillInv, TypeOK
  <2>11. CASE UninitDone
    BY <2>11, Numbers DEF UninitDone, StreamInv, FillInv, TypeOK
  <2>12. CASE Disable
    BY <2>12, Numbers, RangeEmpty DEF Disable, Killed, StreamInv, FillInv, TypeOK
  <2> QED
    BY <1>2, <2>1, <2>2, <2>3, <2>4, <2>5, <2>6, <2>7, <2>8, <2>9, <2>10, <2>11, <2>12 DEF Control
<1>3. CASE Handler
  <2> USE DEF bufVars, flagVars, dqVars, usbVars, hVars
  <2>1. CASE Skip
    BY <2>1, Numbers DEF Skip, PacketDone, StreamInv, FillInv, TypeOK
  <2>2. CASE \E fid \in {0, 1} : DecodeNoBuffer(fid)
    BY <2>2, Numbers DEF DecodeNoBuffer, PacketDone, Decoding, StreamInv, FillInv, TypeOK
  <2>3. CASE \E fid \in {0, 1} : DecodeOutOfSync(fid)
    BY <2>3, Numbers DEF DecodeOutOfSync, PacketDone, Decoding, StreamInv, FillInv, TypeOK
  <2>4. CASE \E fid \in {0, 1} : DecodeToggled(fid)
    BY <2>4, Numbers DEF DecodeToggled, AfterDone, Decoding, StreamInv, FillInv, TypeOK
  <2>5. CASE \E fid \in {0, 1}, len \in 0 .. MaxPayload, eof \in BOOLEAN :
               DecodeStore(fid, len, eof)
    <3>1. /\ h = "packet" /\ hBuf \in Buffers /\ irqq # << >> /\ hBuf = Head(irqq)
          /\ hBuf \in Range(irqq) /\ ~disconnected
      BY <2>5, RangeTail DEF DecodeStore, Decoding, StreamInv, FillInv, TypeOK
    <3>2. \/ bstate' = [bstate EXCEPT ![hBuf] = "DONE"] /\ h' \in {"eof", "look"}
          \/ bstate' = [bstate EXCEPT ![hBuf] = "ACTIVE"] /\ h' = "packet"
      BY <2>5, StoreStates
    <3>3. UNCHANGED <<irqq, hBuf, disconnected>>
      BY <2>5 DEF DecodeStore
    <3> QED
      BY <3>1, <3>2, <3>3 DEF FillInv, TypeOK
  <2>6. CASE NextBufferDrops
    <3>1. /\ hBuf \in Buffers /\ irqq # << >> /\ hBuf = Head(irqq)
          /\ hBuf \in Range(irqq) /\ ~disconnected
      BY <2>6, RangeTail DEF NextBufferDrops, StreamInv, FillInv, TypeOK
    <3>2. bstate' = [bstate EXCEPT ![hBuf] = "QUEUED"] /\ h' = "packet"
      BY <2>6 DEF NextBufferDrops
    <3>3. UNCHANGED <<irqq, hBuf, disconnected>>
      BY <2>6 DEF NextBufferDrops
    <3>4. \A b \in Buffers : bstate[b] = "ACTIVE" => b = hBuf
      BY <2>6 DEF NextBufferDrops, FillInv
    <3> QED
      BY <3>1, <3>2, <3>3, <3>4 DEF FillInv, TypeOK
  <2>7. CASE NextBuffer
    <3>1. /\ hBuf \in Buffers /\ irqq # << >> /\ hBuf = Head(irqq)
          /\ bstate[hBuf] \in {"DONE", "IDLE"} /\ ~disconnected
      BY <2>7, RangeTail DEF NextBuffer, StreamInv, FillInv, TypeOK
    <3>2. irqq' = Tail(irqq) /\ irqq' \in Seq(Buffers)
      BY <2>7, <3>1, Numbers, HeadTailProperties DEF NextBuffer, Unlinked, HeadOr0, TypeOK
    <3>3. /\ hBuf' = HeadOr0(irqq') /\ h' = "packet" /\ h = "next"
          /\ UNCHANGED <<bstate, disconnected>>
      BY <2>7 DEF NextBuffer
    <3>4. \A b \in Buffers : bstate[b] \in {"QUEUED", "ACTIVE"} => b \in Range(irqq')
      BY <3>1, <3>2, RangeTail DEF FillInv, TypeOK
    <3>5. hBuf' # 0 => irqq' # << >> /\ hBuf' = Head(irqq')
      BY <3>2, <3>3, Heads
    <3>6. \A b \in Buffers : bstate[b] # "ACTIVE"
      BY <3>1, <3>3 DEF FillInv
    <3> QED
      BY <3>1, <3>3, <3>4, <3>5, <3>6 DEF FillInv
  <2>8. CASE Resubmit
    BY <2>8, Numbers DEF Resubmit, StreamInv, FillInv, TypeOK
  <2>9. CASE DecodeEnd
    BY <2>9, Numbers DEF DecodeEnd, StreamInv, FillInv, TypeOK
  <2>10. CASE Look
    BY <2>10, Numbers DEF Look, AfterDone, StreamInv, FillInv, TypeOK
  <2> QED
    BY <1>3, <2>1, <2>2, <2>3, <2>4, <2>5, <2>6, <2>7, <2>8, <2>9, <2>10 DEF Handler, Decode
<1>4. CASE Usb
  <2> USE DEF bufVars, flagVars, dqVars, usbVars, hVars
  <2>1. CASE Unplug
    BY <2>1, Numbers DEF Unplug, StreamInv, FillInv, TypeOK
  <2>2. CASE Complete
    BY <2>2, Numbers, Heads DEF Complete, HeadOr0, StreamInv, FillInv, TypeOK
  <2>3. CASE \E shutdown \in BOOLEAN : CompleteStatus(shutdown)
    BY <2>3, Numbers DEF CompleteStatus, Wake, StreamInv, FillInv, TypeOK
  <2> QED
    BY <1>4, <2>1, <2>2, <2>3 DEF Usb
<1>5. CASE UNCHANGED vars
    BY <1>5, Numbers DEF vars, bufVars, flagVars, dqVars, usbVars, hVars, StreamInv, FillInv, TypeOK
<1> QED
  BY <1>1, <1>2, <1>3, <1>4, <1>5 DEF Next

(* The order and the states of what is on irqqueue.                        *)
LEMMA Lines ==
  ASSUME TypeOK, StreamInv, FillInv, LineInv, [Next]_vars, ~corrupt'
  PROVE  LineInv'
<1>0. /\ Len(irqq) \in Nat /\ \A i \in 1 .. Len(irqq) : irqq[i] \in Buffers
      /\ irqq # << >> => Len(irqq) > 0 /\ Head(irqq) = irqq[1]
  BY DEF TypeOK
<1>1. CASE Ioctl
  <2> USE DEF bufVars, flagVars, dqVars, usbVars, hVars
  <2>1. CASE \E n \in 0 .. NBuf : Reqbufs(n)
    <3>1. irqq' = << >> /\ Len(<< >>) = 0
      BY <2>1 DEF Reqbufs
    <3>2. \A i : i \notin 1 .. 0 /\ i \notin 2 .. 0
      OBVIOUS
    <3> QED
      BY <3>1, <3>2 DEF LineInv
  <2>2. CASE Mmap
    BY <2>2, Numbers, <1>0 DEF Mmap, HasMutex, Running, StreamInv, FillInv, LineInv, Killed, TypeOK
  <2>3. CASE Munmap
    BY <2>3, Numbers, <1>0 DEF Munmap, HasMutex, Running, StreamInv, FillInv, LineInv, Killed, TypeOK
  <2>4. CASE \E b \in Buffers : Qbuf(b)
    <3>1. PICK b \in Buffers : Qbuf(b)
      BY <2>4
    <3>2. /\ bstate[b] = "IDLE" /\ bstate' = [bstate EXCEPT ![b] = "QUEUED"]
          /\ irqq' = Append(irqq, b) /\ b \notin Range(irqq) /\ h' = h
          /\ ~dqTakes'
      BY <3>1 DEF Qbuf, HasMutex, StreamInv, TypeOK
    <3>3. /\ Len(irqq') = Len(irqq) + 1 /\ irqq'[Len(irqq) + 1] = b
          /\ \A i \in 1 .. Len(irqq) : irqq'[i] = irqq[i]
      BY <3>2, <1>0 DEF TypeOK
    <3>4. \A i \in 1 .. Len(irqq) : irqq[i] # b
      BY <3>2, <1>0 DEF Range, TypeOK
    <3>5. \A i, j \in 1 .. Len(irqq') : irqq'[i] = irqq'[j] => i = j
      BY <3>3, <3>4, <1>0 DEF LineInv
    <3>6. bstate'[b] = "QUEUED" /\ \A c \in Buffers : c # b => bstate'[c] = bstate[c]
      BY <3>2 DEF TypeOK
    <3>7. \A i \in 2 .. Len(irqq') : bstate'[irqq'[i]] = "QUEUED"
      BY <3>3, <3>4, <3>6, <1>0 DEF LineInv
    <3>8. irqq' # << >> /\ h' \notin Finishing => bstate'[irqq'[1]] \in {"QUEUED", "ACTIVE", "IDLE"}
      <4>1. CASE irqq = << >>
        <5>1. irqq'[1] = b
          BY <4>1, <3>3
        <5> QED
          BY <5>1, <3>6
      <4>2. CASE irqq # << >>
        <5>1. irqq'[1] = irqq[1] /\ irqq[1] \in Buffers /\ irqq[1] # b
          BY <4>2, <3>3, <3>4, <1>0
        <5> QED
          BY <4>2, <5>1, <3>2, <3>6 DEF LineInv
      <4> QED
        BY <4>1, <4>2
    <3> QED
      BY <3>2, <3>5, <3>7, <3>8 DEF LineInv
  <2>5. CASE Dqbuf
    BY <2>5, Numbers, <1>0 DEF Dqbuf, HasMutex, Running, StreamInv, FillInv, LineInv, Killed, TypeOK
  <2>6. CASE DqbufSleep
    BY <2>6, Numbers, <1>0 DEF DqbufSleep, HasMutex, Running, StreamInv, FillInv, LineInv, Killed, TypeOK
  <2>7. CASE DqbufTake
    <3>1. bstate[dqBuf] \in {"DONE", "ERROR"} /\ UNCHANGED <<bstate, irqq, h, dqBuf>>
      BY <2>7 DEF DqbufTake
    <3>2. \A i \in 2 .. Len(irqq) : irqq[i] # dqBuf
      BY <3>1 DEF LineInv
    <3> QED
      BY <3>1, <3>2 DEF LineInv
  <2>9. CASE DqbufGive
    <3>1. /\ dqTakes /\ bstate' = [bstate EXCEPT ![dqBuf] = "IDLE"]
          /\ ~dqTakes' /\ UNCHANGED <<irqq, h>>
      BY <2>9 DEF DqbufGive
    <3>2. \A i \in 2 .. Len(irqq) : irqq[i] # dqBuf /\ i \in 1 .. Len(irqq)
      BY <3>1, <1>0 DEF LineInv
    <3>3. \A b \in Buffers : bstate'[b] = IF b = dqBuf THEN "IDLE" ELSE bstate[b]
      BY <3>1 DEF TypeOK
    <3>4. \A i \in 2 .. Len(irqq) : bstate'[irqq[i]] = "QUEUED"
      BY <3>2, <3>3, <1>0 DEF LineInv
    <3>5. irqq # << >> => irqq[1] \in Buffers
      BY <1>0
    <3> QED
      BY <3>1, <3>3, <3>4, <3>5 DEF LineInv
  <2>8. CASE DqbufInterrupted
    BY <2>8, Numbers, <1>0 DEF DqbufInterrupted, HasMutex, Running, StreamInv, FillInv, LineInv, Killed, TypeOK
  <2> QED
    BY <1>1, <2>1, <2>2, <2>3, <2>4, <2>5, <2>6, <2>7, <2>8, <2>9 DEF Ioctl
<1>2. CASE Control
  <2> USE DEF bufVars, flagVars, dqVars, usbVars, hVars
  <2>1. CASE Streamon
    BY <2>1, Numbers, <1>0 DEF Streamon, HasMutex, Running, StreamInv, FillInv, LineInv, Killed, TypeOK
  <2>2. CASE InitVideo
    BY <2>2, Numbers, <1>0 DEF InitVideo, StreamInv, FillInv, LineInv, Killed, TypeOK
  <2>3. CASE \E n \in 0 .. NUrb - 1 : InitVideoFails(n)
    BY <2>3, Numbers, <1>0 DEF InitVideoFails, StreamInv, FillInv, LineInv, Killed, TypeOK
  <2>4. CASE \E n \in 0 .. NUrb - 1 : ResumeFails(n)
    BY <2>4, Numbers, <1>0 DEF ResumeFails, StreamInv, FillInv, LineInv, Killed, TypeOK
  <2>5. CASE Streamoff
    BY <2>5, Numbers, <1>0 DEF Streamoff, HasMutex, Running, StreamInv, FillInv, LineInv, Killed, TypeOK
  <2>6. CASE Release
    BY <2>6, Numbers, <1>0 DEF Release, HasMutex, Running, StreamInv, FillInv, LineInv, Killed, TypeOK
  <2>7. CASE Open
    BY <2>7, Numbers, <1>0 DEF Open, StreamInv, FillInv, LineInv, Killed, TypeOK
  <2>8. CASE Suspend
    BY <2>8, Numbers, <1>0 DEF Suspend, HasMutex, Running, StreamInv, FillInv, LineInv, Killed, TypeOK
  <2>9. CASE Resume
    BY <2>9, Numbers, <1>0 DEF Resume, StreamInv, FillInv, LineInv, Killed, TypeOK
  <2>10. CASE ThawUnplugged
    BY <2>10, Numbers, <1>0 DEF ThawUnplugged, StreamInv, FillInv, LineInv, Killed, TypeOK
  <2>11. CASE UninitDone
    BY <2>11, Numbers, <1>0 DEF UninitDone, StreamInv, FillInv, LineInv, Killed, TypeOK
  <2>12. CASE Disable
    BY <2>12, Numbers, <1>0 DEF Disable, StreamInv, FillInv, LineInv, Killed, TypeOK
  <2> QED
    BY <1>2, <2>1, <2>2, <2>3, <2>4, <2>5, <2>6, <2>7, <2>8, <2>9, <2>10, <2>11, <2>12 DEF Control
<1>3. CASE Handler
  <2> USE DEF bufVars, flagVars, dqVars, usbVars, hVars
  <2>1. CASE Skip
    BY <2>1, Numbers, <1>0 DEF Skip, PacketDone, StreamInv, FillInv, LineInv, Killed, TypeOK
  <2>2. CASE \E fid \in {0, 1} : DecodeNoBuffer(fid)
    BY <2>2, Numbers, <1>0 DEF DecodeNoBuffer, PacketDone, Decoding, StreamInv, FillInv, LineInv, Killed, TypeOK
  <2>3. CASE \E fid \in {0, 1} : DecodeOutOfSync(fid)
    BY <2>3, Numbers, <1>0 DEF DecodeOutOfSync, PacketDone, Decoding, StreamInv, FillInv, LineInv, Killed, TypeOK
  <2>4. CASE \E fid \in {0, 1} : DecodeToggled(fid)
    BY <2>4, Numbers, <1>0 DEF DecodeToggled, AfterDone, Decoding, Toggled, InSync, StreamInv, FillInv, LineInv, Killed, TypeOK
  <2>5. CASE \E fid \in {0, 1}, len \in 0 .. MaxPayload, eof \in BOOLEAN :
               DecodeStore(fid, len, eof)
    BY <2>5, Numbers, <1>0 DEF DecodeStore, AfterDone, PacketDone, Decoding, Toggled, InSync, StreamInv, FillInv, LineInv, Killed, TypeOK
  <2>6. CASE NextBufferDrops
    BY <2>6, Numbers, <1>0 DEF NextBufferDrops, StreamInv, FillInv, LineInv, Killed, TypeOK
  <2>7. CASE NextBuffer
    <3>1. hBuf \in Buffers /\ irqq # << >> /\ hBuf = Head(irqq)
      BY <2>7 DEF NextBuffer, StreamInv, FillInv, TypeOK
    <3>2. irqq' = Tail(irqq) /\ UNCHANGED bstate
      BY <2>7, <3>1, Numbers DEF NextBuffer, Unlinked, HeadOr0
    <3>3. /\ Len(irqq') = Len(irqq) - 1
          /\ \A i \in 1 .. Len(irqq') : irqq'[i] = irqq[i + 1]
      BY <3>1, <3>2, HeadTailProperties DEF TypeOK
    <3>4. \A i \in 1 .. Len(irqq') : bstate[irqq'[i]] = "QUEUED"
      BY <3>3, <1>0 DEF LineInv
    <3>5. \A i, j \in 1 .. Len(irqq') : irqq'[i] = irqq'[j] => i = j
      BY <3>3, <1>0 DEF LineInv
    <3>6. irqq' # << >> => 1 \in 1 .. Len(irqq')
      BY <3>1, <3>2, <3>3, HeadTailProperties DEF TypeOK
    <3>7. dqTakes' => \A i \in 2 .. Len(irqq') : irqq'[i] # dqBuf'
      <4>1. UNCHANGED <<dqTakes, dqBuf>>
        BY <2>7 DEF NextBuffer
      <4>2. \A i \in 2 .. Len(irqq') : i + 1 \in 2 .. Len(irqq) /\ irqq'[i] = irqq[i + 1]
        BY <3>3, <1>0
      <4> QED
        BY <4>1, <4>2 DEF LineInv
    <3>8. \A i \in 2 .. Len(irqq') : i \in 1 .. Len(irqq')
      BY <3>3, <1>0
    <3> QED
      BY <3>2, <3>4, <3>5, <3>6, <3>7, <3>8 DEF LineInv
  <2>8. CASE Resubmit
    BY <2>8, Numbers, <1>0 DEF Resubmit, StreamInv, FillInv, LineInv, Killed, TypeOK
  <2>9. CASE DecodeEnd
    BY <2>9, Numbers, <1>0 DEF DecodeEnd, StreamInv, FillInv, LineInv, Killed, TypeOK
  <2>10. CASE Look
    BY <2>10, Numbers, <1>0 DEF Look, AfterDone, StreamInv, FillInv, LineInv, Killed, TypeOK
  <2> QED
    BY <1>3, <2>1, <2>2, <2>3, <2>4, <2>5, <2>6, <2>7, <2>8, <2>9, <2>10 DEF Handler, Decode
<1>4. CASE Usb
  <2> USE DEF bufVars, flagVars, dqVars, usbVars, hVars
  <2>1. CASE Unplug
    BY <2>1, Numbers, <1>0 DEF Unplug, StreamInv, FillInv, LineInv, Killed, TypeOK
  <2>2. CASE Complete
    BY <2>2, Numbers, <1>0 DEF Complete, StreamInv, FillInv, LineInv, Killed, TypeOK
  <2>3. CASE \E shutdown \in BOOLEAN : CompleteStatus(shutdown)
    BY <2>3, Numbers, <1>0 DEF CompleteStatus, Wake, StreamInv, FillInv, LineInv, Killed, TypeOK
  <2> QED
    BY <1>4, <2>1, <2>2, <2>3 DEF Usb
<1>5. CASE UNCHANGED vars
    BY <1>5, Numbers, <1>0 DEF vars, bufVars, flagVars, dqVars, usbVars, hVars, StreamInv, FillInv, LineInv, Killed, TypeOK
<1> QED
  BY <1>1, <1>2, <1>3, <1>4, <1>5 DEF Next

(* What is in the buffers.                                                 *)
LEMMA Datas ==
  ASSUME TypeOK, StreamInv, FillInv, LineInv, DataInv, [Next]_vars, ~corrupt'
  PROVE  DataInv'
<1>0. irqq # << >> => Head(irqq) \in Buffers /\ Head(irqq) \in Range(irqq)
  BY RangeTail, HeadTailProperties DEF TypeOK
<1>1. CASE Ioctl
  <2> USE DEF bufVars, flagVars, dqVars, usbVars, hVars
  <2>1. CASE \E n \in 0 .. NBuf : Reqbufs(n)
    <3>1. /\ ~passed' /\ UNCHANGED <<on, drop, h, hBuf>>
          /\ bstate' = [b \in Buffers |-> "IDLE"] /\ mixed' = [b \in Buffers |-> FALSE]
      BY <2>1 DEF Reqbufs
    <3>2. irqq = << >>
      BY <2>1 DEF Reqbufs
    <3>3. h \notin Finishing
      BY <3>2 DEF StreamInv, FillInv
    <3> QED
      BY <3>1, <3>3 DEF DataInv
  <2>2. CASE Mmap
    BY <2>2 DEF Mmap, DataInv, Unsettled
  <2>3. CASE Munmap
    BY <2>3 DEF Munmap, DataInv, Unsettled
  <2>4. CASE \E b \in Buffers : Qbuf(b)
    <3>1. PICK b \in Buffers : Qbuf(b)
      BY <2>4
    <3>2. /\ bstate' = [bstate EXCEPT ![b] = "QUEUED"] /\ used' = [used EXCEPT ![b] = 0]
          /\ mixed' = [mixed EXCEPT ![b] = FALSE]
          /\ UNCHANGED <<on, drop, lastFid, h, hBuf, passed>>
          /\ irqq' = Append(irqq, b) /\ b \notin Range(irqq)
      BY <3>1 DEF Qbuf
    <3>3. irqq # << >> => Head(irqq) # b /\ irqq' # << >> /\ Head(irqq') = Head(irqq)
      BY <3>2, <1>0, RangeAppend DEF TypeOK
    <3>4. h \in {"eof", "look", "drop"} => hBuf # b
      BY <3>3 DEF StreamInv, FillInv
    <3>5. \A x \in Buffers : x # b =>
            bstate'[x] = bstate[x] /\ used'[x] = used[x] /\ mixed'[x] = mixed[x]
      BY <3>2 DEF TypeOK
    <3>6. bstate'[b] = "QUEUED" /\ ~mixed'[b]
      BY <3>2 DEF TypeOK
    <3>7. h \in {"eof", "look", "drop"} => hBuf \in Buffers
      BY DEF StreamInv, TypeOK
    <3>8. \A x \in Buffers : bstate'[x] = "DONE" =>
            used'[x] > 0 /\ on' /\ (drop' /\ ~Unsettled(x)' => used'[x] = Length)
      BY <3>2, <3>5, <3>6 DEF DataInv, Unsettled
    <3>9. passed' => /\ irqq' # << >> /\ lastFid' = -1 /\ (h' # "idle" => hBuf' # 0)
                     /\ h' # "next" => used'[Head(irqq')] > 0
      BY <3>2, <3>3, <3>5, <1>0 DEF DataInv
    <3>10. h' \in {"eof", "look", "drop"} => used'[hBuf'] > 0
      BY <3>2, <3>4, <3>5, <3>7 DEF DataInv
    <3> QED
      BY <3>5, <3>6, <3>8, <3>9, <3>10 DEF DataInv
  <2>5. CASE Dqbuf
    BY <2>5 DEF Dqbuf, DataInv, Unsettled
  <2>6. CASE DqbufSleep
    BY <2>6 DEF DqbufSleep, DataInv, Unsettled
  <2>7. CASE DqbufTake
    BY <2>7 DEF DqbufTake, DataInv, Unsettled
  <2>8. CASE DqbufInterrupted
    BY <2>8 DEF DqbufInterrupted, DataInv, Unsettled
  <2>9. CASE DqbufGive
    <3>1. /\ bstate' = [bstate EXCEPT ![dqBuf] = "IDLE"]
          /\ UNCHANGED <<on, drop, lastFid, h, hBuf, passed, irqq>>
      BY <2>9 DEF DqbufGive
    <3>2. \/ UNCHANGED <<used, mixed>>
          \/ /\ ~TooEarly /\ used' = [used EXCEPT ![dqBuf] = 0]
             /\ mixed' = [mixed EXCEPT ![dqBuf] = FALSE]
      BY <2>9 DEF DqbufGive
    <3>3. dqBuf \in Buffers
      BY <2>9 DEF DqbufGive, StreamInv, TypeOK
    <3>4. bstate'[dqBuf] = "IDLE" /\ \A b \in Buffers : b # dqBuf => bstate'[b] = bstate[b]
      BY <3>1 , <3>3 DEF TypeOK
    <3>5. \A b \in Buffers : ~mixed'[b]
      BY <3>2 DEF DataInv, TypeOK
    <3>6. \A b \in Buffers : b # dqBuf => used'[b] = used[b]
      BY <3>2 DEF TypeOK
    <3>7. h \in {"eof", "look", "drop"} => hBuf \in Buffers /\ used'[hBuf] = used[hBuf]
      <4>1. h \in {"eof", "look", "drop"} => hBuf \in Buffers
        BY DEF StreamInv, TypeOK
      <4>2. h \in {"eof", "look", "drop"} /\ hBuf = dqBuf => TooEarly
        BY DEF TooEarly, Unsettled
      <4> QED
        BY <4>1, <4>2, <3>2, <3>6
    <3>8. passed /\ h # "next" => used'[Head(irqq)] = used[Head(irqq)]
      <4>1. SUFFICES ASSUME passed, h # "next", ~TooEarly
                     PROVE  used'[Head(irqq)] = used[Head(irqq)]
        BY <3>2
      <4>2. irqq # << >> /\ Head(irqq) = irqq[1]
        BY <4>1, HeadTailProperties DEF DataInv, TypeOK
      <4>3. Head(irqq) # dqBuf
        <5>1. ASSUME Head(irqq) = dqBuf PROVE FALSE
          <6>1. bstate[irqq[1]] \in {"DONE", "ERROR"}
            BY <4>1, <4>2, <5>1 DEF TooEarly
          <6>2. h \in {"eof", "look", "drop"}
            BY <4>1, <4>2, <6>1 DEF LineInv
          <6>3. hBuf = Head(irqq)
            BY <6>2 DEF StreamInv, FillInv
          <6> QED
            BY <4>1, <5>1, <6>2, <6>3 DEF TooEarly, Unsettled
        <5> QED
          BY <5>1
      <4> QED
        BY <4>2, <4>3, <1>0, <3>6
    <3>9. \A b \in Buffers : bstate'[b] = "DONE" =>
            used'[b] > 0 /\ on' /\ (drop' /\ ~Unsettled(b)' => used'[b] = Length)
      BY <3>1, <3>4, <3>6 DEF DataInv, Unsettled
    <3> QED
      BY <3>1, <3>5, <3>7, <3>8, <3>9 DEF DataInv
  <2> QED
    BY <1>1, <2>1, <2>2, <2>3, <2>4, <2>5, <2>6, <2>7, <2>8, <2>9 DEF Ioctl
<1>2. CASE Control
  <2> USE DEF bufVars, flagVars, dqVars, usbVars, hVars
  <2>1. CASE Streamon
    <3>1. ~on /\ on' /\ UNCHANGED <<bstate, used, mixed, passed, irqq, lastFid, h, hBuf>>
      BY <2>1 DEF Streamon
    <3>2. \A b \in Buffers : bstate[b] # "DONE"
      BY <3>1 DEF DataInv
    <3> QED
      BY <3>1, <3>2 DEF DataInv
  <2>2. CASE InitVideo
    BY <2>2 DEF InitVideo, DataInv, Unsettled
  <2>3. CASE \E n \in 0 .. NUrb - 1 : InitVideoFails(n)
    BY <2>3 DEF InitVideoFails, DataInv, Unsettled
  <2>4. CASE \E n \in 0 .. NUrb - 1 : ResumeFails(n)
    BY <2>4 DEF ResumeFails, DataInv, Unsettled
  <2>5. CASE Streamoff
    BY <2>5 DEF Streamoff, DataInv, Unsettled
  <2>6. CASE Release
    BY <2>6 DEF Release, DataInv, Unsettled
  <2>7. CASE Open
    BY <2>7 DEF Open, DataInv, Unsettled
  <2>8. CASE Suspend
    BY <2>8 DEF Suspend, DataInv, Unsettled
  <2>9. CASE Resume
    <3>1. h = "idle"
      BY <2>9 DEF Resume, StreamInv, Killed
    <3>2. /\ lastFid' = -1 /\ passed' = (HeadOr0(irqq) # 0 /\ used[HeadOr0(irqq)] # 0)
          /\ UNCHANGED <<bstate, used, mixed, irqq, on, drop, h, hBuf>>
      BY <2>9 DEF Resume
    <3>3. passed' => irqq # << >> /\ used[Head(irqq)] # 0
      BY <3>2, Heads DEF TypeOK
    <3>4. irqq # << >> => used[Head(irqq)] \in Nat
      <4>1. \A b \in Buffers : used[b] \in Nat
        BY Numbers DEF TypeOK
      <4> QED
        BY <4>1, <1>0
    <3> QED
      BY <3>1, <3>2, <3>3, <3>4 DEF DataInv, Unsettled
  <2>10. CASE ThawUnplugged
    BY <2>10 DEF ThawUnplugged, DataInv, Unsettled
  <2>11. CASE UninitDone
    BY <2>11 DEF UninitDone, DataInv, Unsettled
  <2>12. CASE Disable
    <3>1. h = "idle"
      BY <2>12 DEF Disable, Killed
    <3>2. /\ ~passed' /\ h' = h
          /\ bstate' = [b \in Buffers |-> "IDLE"] /\ mixed' = [b \in Buffers |-> FALSE]
      BY <2>12 DEF Disable
    <3> QED
      BY <3>1, <3>2 DEF DataInv
  <2> QED
    BY <1>2, <2>1, <2>2, <2>3, <2>4, <2>5, <2>6, <2>7, <2>8, <2>9, <2>10, <2>11, <2>12 DEF Control
<1>3. CASE Handler
  <2> USE DEF bufVars, flagVars, dqVars, usbVars, hVars
  <2>1. CASE Skip
    BY <2>1 DEF Skip, DataInv, Unsettled
  <2>2. CASE \E fid \in {0, 1} : DecodeNoBuffer(fid)
    <3>1. /\ UNCHANGED <<bstate, used, mixed, passed, irqq, on, drop, h, hBuf>>
          /\ h = "packet" /\ hBuf = 0
      BY <2>2 DEF DecodeNoBuffer, Decoding
    <3>2. ~passed
      BY <3>1 DEF DataInv
    <3> QED
      BY <3>1, <3>2 DEF DataInv, Unsettled
  <2>3. CASE \E fid \in {0, 1} : DecodeOutOfSync(fid)
    BY <2>3 DEF DecodeOutOfSync, DataInv, Unsettled
  <2>4. CASE \E fid \in {0, 1} : DecodeToggled(fid)
    <3>1. PICK fid \in {0, 1} : DecodeToggled(fid)
      BY <2>4
    <3>2. hBuf \in Buffers /\ h = "packet" /\ on
      BY <3>1 DEF DecodeToggled, Decoding, StreamInv, Killed, TypeOK
    <3>3. used[hBuf] > 0
      BY <3>1, <3>2, Numbers DEF DecodeToggled, Toggled, TypeOK
    <3>4. /\ bstate' = [bstate EXCEPT ![hBuf] = "DONE"] /\ h' = AfterDone(used[hBuf])
          /\ UNCHANGED <<used, mixed, passed, irqq, on, drop, lastFid, hBuf>>
      BY <3>1 DEF DecodeToggled
    <3>5. /\ h' \in {"drop", "next"}
          /\ drop /\ h' # "drop" => used[hBuf] = Length
      BY <3>4 DEF AfterDone
    <3>6. /\ bstate'[hBuf] = "DONE"
          /\ \A b \in Buffers : b # hBuf => bstate'[b] = bstate[b]
      BY <3>2, <3>4 DEF TypeOK
    <3>7. \A b \in Buffers : bstate'[b] = "DONE" =>
            used'[b] > 0 /\ on' /\ (drop' /\ ~Unsettled(b)' => used'[b] = Length)
      BY <3>2, <3>3, <3>4, <3>5, <3>6 DEF DataInv, Unsettled
    <3>8. passed' => /\ irqq' # << >> /\ lastFid' = -1 /\ (h' # "idle" => hBuf' # 0)
                     /\ h' # "next" => used'[Head(irqq')] > 0
      <4>1. passed => irqq # << >> /\ lastFid = -1 /\ hBuf # 0 /\ used[Head(irqq)] > 0
        BY <3>2 DEF DataInv
      <4>2. UNCHANGED <<used, passed, irqq, lastFid, hBuf>>
        BY <3>4
      <4> QED
        BY <4>1, <4>2
    <3>9. (\A b \in Buffers : ~mixed'[b]) /\ used'[hBuf'] > 0
      BY <3>3, <3>4 DEF DataInv
    <3> QED
      BY <3>7, <3>8, <3>9 DEF DataInv
  <2>5. CASE \E fid \in {0, 1}, len \in 0 .. MaxPayload, eof \in BOOLEAN :
               DecodeStore(fid, len, eof)
    <3>1. PICK fid \in {0, 1}, len \in 0 .. MaxPayload, eof \in BOOLEAN : DecodeStore(fid, len, eof)
      BY <2>5
    <3>2. hBuf \in Buffers /\ h = "packet" /\ on
      BY <3>1 DEF DecodeStore, Decoding, StreamInv, Killed, TypeOK
    <3> DEFINE n     == Copied(len)
               total == used[hBuf] + n
               over  == len > Length - used[hBuf]
               done  == over \/ (eof /\ total # 0)
    <3>4. /\ n \in Nat /\ used[hBuf] \in Nat /\ used[hBuf] <= Length
          /\ over => total = Length
      BY <3>2, Numbers DEF Copied, TypeOK
    <3>5. total \in Nat /\ (done => total > 0)
      BY <3>4, Numbers
    <3>6. /\ bstate' = [bstate EXCEPT ![hBuf] = IF done THEN "DONE" ELSE "ACTIVE"]
          /\ used' = [used EXCEPT ![hBuf] = total]
          /\ h' = (IF over /\ eof THEN "eof" ELSE IF done THEN "look" ELSE h)
          /\ mixed' = [mixed EXCEPT ![hBuf] = @ \/ (n > 0 /\ Over(fid))]
          /\ passed' = (n = 0 /\ Over(fid))
          /\ UNCHANGED <<on, drop, hBuf>>
      BY <3>1 DEF DecodeStore
    <3>7. ~Over(fid)
      <4>1. used[hBuf] = 0 \/ fid = lastFid
        BY <3>1 DEF DecodeStore, Toggled
      <4>2. passed => lastFid = -1
        BY DEF DataInv
      <4>3. fid # -1
        OBVIOUS
      <4> QED
        BY <4>1, <4>2, <4>3 DEF Over
    <3> HIDE DEF n, total, over, done
    <3>8. ~passed' /\ \A b \in Buffers : ~mixed'[b]
      BY <3>2, <3>6, <3>7 DEF DataInv, TypeOK
    <3>9. /\ used'[hBuf] = total
          /\ bstate'[hBuf] = IF done THEN "DONE" ELSE "ACTIVE"
      BY <3>2, <3>6 DEF TypeOK
    <3>10. \A b \in Buffers \ {hBuf} : bstate'[b] = bstate[b] /\ used'[b] = used[b]
      BY <3>6 DEF TypeOK
    <3>11. IF done THEN h' \in {"eof", "look"} ELSE h' = "packet"
      BY <3>2, <3>6 DEF done
    <3>12. \A b \in Buffers : bstate'[b] = "DONE" =>
             used'[b] > 0 /\ on' /\ (drop' /\ ~Unsettled(b)' => used'[b] = Length)
      BY <3>2, <3>5, <3>6, <3>9, <3>10, <3>11 DEF DataInv, Unsettled
    <3>13. h' \in {"eof", "look", "drop"} => used'[hBuf'] > 0
      BY <3>5, <3>6, <3>9, <3>11
    <3> QED
      BY <3>8, <3>12, <3>13 DEF DataInv
  <2>6. CASE NextBufferDrops
    <3>1. /\ bstate' = [bstate EXCEPT ![hBuf] = "QUEUED"] /\ used' = [used EXCEPT ![hBuf] = 0]
          /\ mixed' = [mixed EXCEPT ![hBuf] = FALSE] /\ ~passed' /\ h' = "packet" /\ h = "drop"
          /\ UNCHANGED <<on, drop, hBuf>>
      BY <2>6 DEF NextBufferDrops
    <3> QED
      BY <3>1 DEF DataInv, Unsettled, TypeOK
  <2>7. CASE NextBuffer
    BY <2>7 DEF NextBuffer, DataInv, Unsettled
  <2>8. CASE Resubmit
    BY <2>8 DEF Resubmit, DataInv, Unsettled
  <2>9. CASE DecodeEnd
    <3>1. hBuf \in Buffers /\ on /\ used[hBuf] > 0 /\ h = "eof"
      BY <2>9 DEF DecodeEnd, StreamInv, Killed, DataInv, TypeOK
    <3>2. /\ bstate' = [bstate EXCEPT ![hBuf] = "DONE"] /\ h' = "look"
          /\ UNCHANGED <<used, mixed, passed, irqq, on, drop, lastFid, hBuf>>
      BY <2>9 DEF DecodeEnd
    <3> QED
      BY <3>1, <3>2 DEF DataInv, Unsettled, TypeOK
  <2>10. CASE Look
    <3>1. h = "look" /\ UNCHANGED <<bstate, used, mixed, passed, irqq, on, drop, lastFid, hBuf>>
      BY <2>10 DEF Look
    <3>2. \/ h' = "packet" /\ bstate[hBuf] # "DONE"
          \/ h' = "drop"
          \/ h' = "next" /\ (drop => used[hBuf] = Length)
      BY <2>10 DEF Look, AfterDone
    <3> QED
      BY <3>1, <3>2 DEF DataInv, Unsettled
  <2> QED
    BY <1>3, <2>1, <2>2, <2>3, <2>4, <2>5, <2>6, <2>7, <2>8, <2>9, <2>10 DEF Handler, Decode
<1>4. CASE Usb
  <2> USE DEF bufVars, flagVars, dqVars, usbVars, hVars
  <2>1. CASE Unplug
    BY <2>1 DEF Unplug, DataInv, Unsettled
  <2>2. CASE Complete
    <3>1. h' = "packet" /\ h = "idle" /\ hBuf' = HeadOr0(irqq)
      BY <2>2 DEF Complete
    <3>2. irqq # << >> => hBuf' # 0
      BY <3>1, Heads DEF TypeOK
    <3> QED
      BY <2>2, <3>1, <3>2 DEF Complete, DataInv, Unsettled
  <2>3. CASE \E shutdown \in BOOLEAN : CompleteStatus(shutdown)
    <3>1. /\ h = "idle" /\ UNCHANGED <<used, mixed, on, drop, lastFid, h, hBuf>>
          /\ \/ UNCHANGED <<bstate, passed, irqq>>
             \/ /\ bstate' = [b \in Buffers |-> IF b \in Range(irqq) THEN "ERROR" ELSE bstate[b]]
                /\ ~passed'
      BY <2>3, Zenon DEF CompleteStatus
    <3>2. \A b \in Buffers : bstate'[b] = "DONE" => bstate[b] = "DONE"
      BY <3>1
    <3>3. passed' => passed /\ irqq' = irqq
      BY <3>1
    <3> QED
      BY <3>1, <3>2, <3>3 DEF DataInv, Unsettled
  <2> QED
    BY <1>4, <2>1, <2>2, <2>3 DEF Usb
<1>5. CASE UNCHANGED vars
  BY <1>5 DEF vars, bufVars, flagVars, dqVars, usbVars, hVars, DataInv, Unsettled
<1> QED
  BY <1>1, <1>2, <1>3, <1>4, <1>5 DEF Next

-----------------------------------------------------------------------------
(* The queues and the states.  What QueuesAgree says of mainqueue m, of    *)
(* what wants data w, of the number k of finished buffers, of the states s *)
(* and the count c, and the changes that keep it true.                     *)

Ends(m, w, k)   == k \in Nat /\ Len(m) = k + Len(w) /\ \A i \in 1 .. Len(w) : w[i] = m[k + i]
Once(m)         == \A i, j \in 1 .. Len(m) : m[i] = m[j] => i = j
StateAt(i, k)   == IF i <= k THEN {"DONE", "ERROR"}
                   ELSE IF i = k + 1 THEN {"QUEUED", "ACTIVE"} ELSE {"QUEUED"}
Marked(m, k, s) == \A i \in 1 .. Len(m) : s[m[i]] \in StateAt(i, k)
Others(m, s)    == \A b \in Buffers : b \notin Range(m) => s[b] = "IDLE"
Within(m, c)    == \A i \in 1 .. Len(m) : m[i] \in 1 .. c

Shape(m, w, k, s, c) ==
  Ends(m, w, k) /\ Once(m) /\ Marked(m, k, s) /\ Others(m, s) /\ Within(m, c)

States == [Buffers -> {"IDLE", "QUEUED", "ACTIVE", "DONE", "ERROR"}]

LEMMA Lengths ==
  ASSUME NEW q \in Seq(Buffers)
  PROVE  /\ Len(q) \in Nat /\ \A i \in 1 .. Len(q) : q[i] \in Buffers /\ q[i] \in Range(q)
         /\ \A x \in Range(q) : \E i \in 1 .. Len(q) : x = q[i]
         /\ q # << >> => Len(q) \in Nat \ {0} /\ Head(q) = q[1]
  BY DEF Range

LEMMA Appended ==
  ASSUME NEW q \in Seq(Buffers), NEW b \in Buffers
  PROVE  /\ Append(q, b) \in Seq(Buffers) /\ Len(Append(q, b)) = Len(q) + 1
         /\ Append(q, b)[Len(q) + 1] = b
         /\ \A i \in 1 .. Len(q) : Append(q, b)[i] = q[i]
  OBVIOUS

(* QBUF.                                                                   *)
LEMMA ShapeQueued ==
  ASSUME NEW m \in Seq(Buffers), NEW w \in Seq(Buffers), NEW k, NEW s \in States, NEW c,
         Shape(m, w, k, s, c), NEW b \in Buffers, b \in 1 .. c, s[b] = "IDLE"
  PROVE  Shape(Append(m, b), Append(w, b), k, [s EXCEPT ![b] = "QUEUED"], c)
<1> DEFINE M == Append(m, b)
           W == Append(w, b)
           t == [s EXCEPT ![b] = "QUEUED"]
           n == Len(m)
           p == Len(w)
<1>0. /\ Ends(m, w, k) /\ Once(m) /\ Marked(m, k, s) /\ Others(m, s) /\ Within(m, c)
  BY DEF Shape
<1>1. /\ n \in Nat /\ p \in Nat /\ k \in Nat /\ n = k + p
      /\ Len(M) = n + 1 /\ M[n + 1] = b /\ \A i \in 1 .. n : M[i] = m[i]
      /\ Len(W) = p + 1 /\ W[p + 1] = b /\ \A i \in 1 .. p : W[i] = w[i]
  BY <1>0, Appended DEF Ends
<1>2. \A i \in 1 .. n : m[i] \in Buffers /\ m[i] # b
  <2> SUFFICES ASSUME NEW i \in 1 .. n PROVE m[i] \in Buffers /\ m[i] # b
    OBVIOUS
  <2>1. m[i] \in Buffers /\ s[m[i]] # "IDLE"
    BY <1>0, Lengths DEF Marked, StateAt
  <2> QED
    BY <2>1
<1>3. t[b] = "QUEUED" /\ \A x \in Buffers : x # b => t[x] = s[x]
  BY DEF States
<1>4. Range(M) = Range(m) \cup {b}
  BY RangeAppend
<1>5. /\ \A i \in 1 .. p : w[i] = m[k + i]
      /\ \A i, j \in 1 .. n : m[i] = m[j] => i = j
  BY <1>0 DEF Ends, Once
<1>6. \A i \in 1 .. n : s[m[i]] \in StateAt(i, k) /\ m[i] \in 1 .. c
  BY <1>0 DEF Marked, Within
<1> HIDE DEF M, W, t, n, p
<1>7. Ends(M, W, k)
  <2> SUFFICES ASSUME NEW i \in 1 .. p + 1 PROVE W[i] = M[k + i]
    BY <1>1 DEF Ends
  <2>1. CASE i = p + 1
    BY <2>1, <1>1
  <2>2. CASE i \in 1 .. p
    <3>1. k + i \in 1 .. n
      BY <2>2, <1>1
    <3> QED
      BY <2>2, <3>1, <1>1, <1>5
  <2> QED
    BY <2>1, <2>2, <1>1
<1>8. Once(M)
  <2> SUFFICES ASSUME NEW i \in 1 .. n + 1, NEW j \in 1 .. n + 1, M[i] = M[j] PROVE i = j
    BY <1>1 DEF Once
  <2>1. (i \in 1 .. n \/ i = n + 1) /\ (j \in 1 .. n \/ j = n + 1)
    BY <1>1
  <2>2. CASE i \in 1 .. n /\ j \in 1 .. n
    BY <2>2, <1>1, <1>5
  <2>3. CASE i = n + 1 /\ j \in 1 .. n
    BY <2>3, <1>1, <1>2
  <2>4. CASE i \in 1 .. n /\ j = n + 1
    BY <2>4, <1>1, <1>2
  <2> QED
    BY <2>1, <2>2, <2>3, <2>4
<1>9. Marked(M, k, t)
  <2> SUFFICES ASSUME NEW i \in 1 .. n + 1 PROVE t[M[i]] \in StateAt(i, k)
    BY <1>1 DEF Marked
  <2>1. CASE i = n + 1
    BY <2>1, <1>1, <1>3 DEF StateAt
  <2>2. CASE i \in 1 .. n
    <3>1. t[M[i]] = s[m[i]]
      BY <2>2, <1>1, <1>2, <1>3
    <3> QED
      BY <2>2, <3>1, <1>6
  <2> QED
    BY <1>1, <2>1, <2>2
<1>10. Others(M, t)
  BY <1>0, <1>3, <1>4 DEF Others
<1>11. Within(M, c)
  <2> SUFFICES ASSUME NEW i \in 1 .. n + 1 PROVE M[i] \in 1 .. c
    BY <1>1 DEF Within
  <2>1. i \in 1 .. n \/ i = n + 1
    BY <1>1
  <2> QED
    BY <2>1, <1>1, <1>6
<1> QED
  BY <1>7, <1>8, <1>9, <1>10, <1>11 DEF Shape, M, W, t

(* DQBUF takes the first.                                                  *)
LEMMA ShapeTaken ==
  ASSUME NEW m \in Seq(Buffers), NEW w \in Seq(Buffers), NEW k, NEW s \in States, NEW c,
         Shape(m, w, k, s, c), m # << >>, s[m[1]] \in {"DONE", "ERROR"}
  PROVE  k > 0 /\ Shape(Tail(m), w, k - 1, [s EXCEPT ![m[1]] = "IDLE"], c)
<1> DEFINE M == Tail(m)
           t == [s EXCEPT ![m[1]] = "IDLE"]
           n == Len(m)
           p == Len(w)
<1>0. /\ Ends(m, w, k) /\ Once(m) /\ Marked(m, k, s) /\ Others(m, s) /\ Within(m, c)
  BY DEF Shape
<1>1. /\ n \in Nat \ {0} /\ p \in Nat /\ k \in Nat /\ n = k + p
      /\ Len(M) = n - 1 /\ \A i \in 1 .. n - 1 : M[i] = m[i + 1]
  BY <1>0, HeadTailProperties, Lengths DEF Ends
<1>2. \A i \in 1 .. n : m[i] \in Buffers
  BY Lengths
<1>3. t[m[1]] = "IDLE" /\ \A x \in Buffers : x # m[1] => t[x] = s[x]
  <2>1. m[1] \in Buffers
    BY <1>1, <1>2
  <2> HIDE DEF n, p, M
  <2> QED
    BY <2>1 DEF States
<1>4. Range(m) = Range(M) \cup {m[1]}
  BY RangeTail, Lengths
<1>5. /\ \A i \in 1 .. p : w[i] = m[k + i]
      /\ \A i, j \in 1 .. n : m[i] = m[j] => i = j
  BY <1>0 DEF Ends, Once
<1>6. \A i \in 1 .. n : s[m[i]] \in StateAt(i, k) /\ m[i] \in 1 .. c
  BY <1>0 DEF Marked, Within
<1>7. k > 0
  <2>1. s[m[1]] \in StateAt(1, k)
    BY <1>1, <1>6
  <2> QED
    BY <1>1, <2>1 DEF StateAt
<1> HIDE DEF M, t, n, p
<1>8. Ends(M, w, k - 1)
  <2> SUFFICES ASSUME NEW i \in 1 .. p PROVE w[i] = M[(k - 1) + i]
    BY <1>1, <1>7 DEF Ends, p
  <2>1. (k - 1) + i \in 1 .. n - 1 /\ ((k - 1) + i) + 1 = k + i
    BY <1>1, <1>7
  <2>2. M[(k - 1) + i] = m[k + i]
    BY <1>1, <2>1
  <2> QED
    BY <1>5, <2>2
<1>9. Once(M)
  <2> SUFFICES ASSUME NEW i \in 1 .. n - 1, NEW j \in 1 .. n - 1, M[i] = M[j] PROVE i = j
    BY <1>1 DEF Once
  <2>1. i + 1 \in 1 .. n /\ j + 1 \in 1 .. n /\ m[i + 1] = m[j + 1]
    BY <1>1
  <2>2. i + 1 = j + 1
    BY <2>1, <1>5
  <2> QED
    BY <1>1, <2>2
<1>10. Marked(M, k - 1, t)
  <2> SUFFICES ASSUME NEW i \in 1 .. n - 1 PROVE t[M[i]] \in StateAt(i, k - 1)
    BY <1>1 DEF Marked
  <2>1. i + 1 \in 1 .. n /\ 1 \in 1 .. n /\ M[i] = m[i + 1] /\ i + 1 # 1
    BY <1>1
  <2>2. m[i + 1] \in Buffers /\ m[i + 1] # m[1]
    BY <1>2, <1>5, <2>1
  <2>3. t[M[i]] = s[m[i + 1]] /\ s[m[i + 1]] \in StateAt(i + 1, k)
    BY <2>1, <2>2, <1>3, <1>6
  <2>4. StateAt(i + 1, k) = StateAt(i, k - 1)
    BY <1>1 DEF StateAt
  <2> QED
    BY <2>3, <2>4
<1>11. Others(M, t)
  BY <1>0, <1>3, <1>4 DEF Others
<1>12. Within(M, c)
  <2> SUFFICES ASSUME NEW i \in 1 .. n - 1 PROVE M[i] \in 1 .. c
    BY <1>1 DEF Within
  <2>1. i + 1 \in 1 .. n
    BY <1>1
  <2> QED
    BY <2>1, <1>1, <1>6
<1> QED
  BY <1>7, <1>8, <1>9, <1>10, <1>11, <1>12 DEF Shape, M, t

(* The handler gives the first that wants data some.                       *)
LEMMA ShapeActive ==
  ASSUME NEW m \in Seq(Buffers), NEW w \in Seq(Buffers), NEW k, NEW s \in States, NEW c,
         Shape(m, w, k, s, c), w # << >>
  PROVE  Shape(m, w, k, [s EXCEPT ![w[1]] = "ACTIVE"], c)
<1> DEFINE b == w[1]
           t == [s EXCEPT ![b] = "ACTIVE"]
           n == Len(m)
<1>0. /\ Ends(m, w, k) /\ Once(m) /\ Marked(m, k, s) /\ Others(m, s) /\ Within(m, c)
  BY DEF Shape
<1>1. n \in Nat /\ k \in Nat /\ k + 1 \in 1 .. n /\ b = m[k + 1] /\ b \in Buffers
  BY <1>0, Lengths DEF Ends
<1>2. \A i \in 1 .. n : m[i] \in Buffers /\ m[i] \in Range(m)
  BY Lengths
<1> HIDE DEF b, n
<1>3. t[b] = "ACTIVE" /\ \A x \in Buffers : x # b => t[x] = s[x]
  BY <1>1 DEF States
<1> HIDE DEF t
<1>4. Marked(m, k, t)
  <2> SUFFICES ASSUME NEW i \in 1 .. n PROVE t[m[i]] \in StateAt(i, k)
    BY DEF Marked, n
  <2>1. CASE i = k + 1
    BY <2>1, <1>1, <1>3 DEF StateAt
  <2>2. CASE i # k + 1
    <3>1. m[i] # b /\ m[i] \in Buffers
      BY <2>2, <1>0, <1>1, <1>2 DEF Once, n
    <3>2. s[m[i]] \in StateAt(i, k)
      BY <1>0 DEF Marked, n
    <3> QED
      BY <3>1, <3>2, <1>3
  <2> QED
    BY <2>1, <2>2
<1>5. Others(m, t)
  <2>1. b \in Range(m)
    BY <1>1, <1>2
  <2> QED
    BY <2>1, <1>0, <1>3 DEF Others
<1> QED
  BY <1>0, <1>4, <1>5 DEF Shape, t, b

(* ... and finishes it.                                                    *)
LEMMA ShapeFinished ==
  ASSUME NEW m \in Seq(Buffers), NEW w \in Seq(Buffers), NEW k, NEW s \in States, NEW c,
         Shape(m, w, k, s, c), w # << >>
  PROVE  /\ Shape(m, Tail(w), k + 1, [s EXCEPT ![w[1]] = "DONE"], c)
         /\ w[1] = m[k + 1]
<1> DEFINE b == w[1]
           t == [s EXCEPT ![b] = "DONE"]
           n == Len(m)
<1>0. /\ Ends(m, w, k) /\ Once(m) /\ Marked(m, k, s) /\ Others(m, s) /\ Within(m, c)
  BY DEF Shape
<1>1. n \in Nat /\ k \in Nat /\ k + 1 \in 1 .. n /\ b = m[k + 1] /\ b \in Buffers
  BY <1>0, Lengths DEF Ends
<1>2. \A i \in 1 .. n : m[i] \in Buffers /\ m[i] \in Range(m)
  BY Lengths
<1>3. Ends(m, Tail(w), k + 1)
  <2>1. /\ Len(w) \in Nat \ {0} /\ Len(Tail(w)) = Len(w) - 1
        /\ \A i \in 1 .. Len(w) - 1 : Tail(w)[i] = w[i + 1]
    BY Lengths, HeadTailProperties
  <2>2. \A i \in 1 .. Len(w) - 1 : i + 1 \in 1 .. Len(w) /\ k + (i + 1) = (k + 1) + i
    BY <1>1, <2>1
  <2>3. n = (k + 1) + (Len(w) - 1)
    BY <1>0, <1>1, <2>1 DEF Ends
  <2>4. \A i \in 1 .. Len(w) : w[i] = m[k + i]
    BY <1>0 DEF Ends
  <2> HIDE DEF b
  <2>5. ASSUME NEW i \in 1 .. Len(w) - 1 PROVE Tail(w)[i] = m[(k + 1) + i]
    BY <2>1, <2>2, <2>4
  <2> QED
    BY <1>1, <2>1, <2>3, <2>5 DEF Ends
<1> HIDE DEF b, n
<1>4. t[b] = "DONE" /\ \A x \in Buffers : x # b => t[x] = s[x]
  BY <1>1 DEF States
<1> HIDE DEF t
<1>5. Marked(m, k + 1, t)
  <2> SUFFICES ASSUME NEW i \in 1 .. n PROVE t[m[i]] \in StateAt(i, k + 1)
    BY DEF Marked, n
  <2>1. CASE i = k + 1
    BY <2>1, <1>1, <1>4 DEF StateAt
  <2>2. CASE i # k + 1
    <3>1. m[i] # b /\ m[i] \in Buffers
      BY <2>2, <1>0, <1>1, <1>2 DEF Once, n
    <3>2. s[m[i]] \in StateAt(i, k)
      BY <1>0 DEF Marked, n
    <3>3. StateAt(i, k) \subseteq StateAt(i, k + 1)
      BY <2>2, <1>1 DEF StateAt
    <3> QED
      BY <3>1, <3>2, <3>3, <1>4
  <2> QED
    BY <2>1, <2>2
<1>6. Others(m, t)
  <2>1. b \in Range(m)
    BY <1>1, <1>2
  <2> QED
    BY <2>1, <1>0, <1>4 DEF Others
<1> QED
  BY <1>0, <1>1, <1>3, <1>5, <1>6 DEF Shape, t, b

(* A buffer that was finished is put back in front of those that want data.*)
LEMMA ShapePutBack ==
  ASSUME NEW m \in Seq(Buffers), NEW q \in Seq(Buffers), NEW k, NEW s \in States, NEW c,
         q # << >>, Shape(m, Tail(q), k, s, c), k > 0, q[1] = m[k],
         \A i \in 2 .. Len(q) : s[q[i]] = "QUEUED"
  PROVE  Shape(m, q, k - 1, [s EXCEPT ![q[1]] = "QUEUED"], c)
<1> DEFINE b == q[1]
           t == [s EXCEPT ![b] = "QUEUED"]
           n == Len(m)
           w == Tail(q)
           p == Len(q)
<1>0. /\ Ends(m, w, k) /\ Once(m) /\ Marked(m, k, s) /\ Others(m, s) /\ Within(m, c)
  BY DEF Shape
<1>1. /\ p \in Nat \ {0} /\ Len(w) = p - 1 /\ \A i \in 1 .. p - 1 : w[i] = q[i + 1]
      /\ b \in Buffers
  BY Lengths, HeadTailProperties
<1>2. /\ n \in Nat /\ k \in Nat /\ n = k + (p - 1) /\ k \in 1 .. n
      /\ \A i \in 1 .. p - 1 : w[i] = m[k + i]
  BY <1>0, <1>1, Lengths DEF Ends
<1>3. \A i \in 1 .. n : m[i] \in Buffers /\ m[i] \in Range(m)
  BY Lengths
<1> HIDE DEF b, n, w, p
<1>4. \A i \in 2 .. p : q[i] = m[(k - 1) + i]
  <2> SUFFICES ASSUME NEW i \in 2 .. p PROVE q[i] = m[(k - 1) + i]
    OBVIOUS
  <2>1. i - 1 \in 1 .. p - 1 /\ (i - 1) + 1 = i /\ k + (i - 1) = (k - 1) + i
    BY <1>1, <1>2
  <2>2. w[i - 1] = q[(i - 1) + 1] /\ w[i - 1] = m[k + (i - 1)]
    BY <1>1, <1>2, <2>1
  <2> QED
    BY <2>1, <2>2
<1>5. Ends(m, q, k - 1)
  <2>1. q[1] = m[(k - 1) + 1]
    BY <1>2
  <2>2. \A i \in 1 .. p : i = 1 \/ i \in 2 .. p
    BY <1>1
  <2>3. \A i \in 1 .. p : q[i] = m[(k - 1) + i]
    BY <1>4, <2>1, <2>2
  <2> QED
    BY <1>1, <1>2, <2>3 DEF Ends, p, n
<1>6. t[b] = "QUEUED" /\ \A x \in Buffers : x # b => t[x] = s[x]
  BY <1>1 DEF States
<1> HIDE DEF t
<1>7. Marked(m, k - 1, t)
  <2> SUFFICES ASSUME NEW i \in 1 .. n PROVE t[m[i]] \in StateAt(i, k - 1)
    BY DEF Marked, n
  <2>1. CASE i = k
    <3>1. m[i] = b
      BY <2>1 DEF b
    <3> QED
      BY <2>1, <3>1, <1>2, <1>6 DEF StateAt
  <2>2. CASE i # k
    <3>1. m[i] # b /\ m[i] \in Buffers
      BY <2>2, <1>0, <1>2, <1>3 DEF Once, n, b
    <3>2. s[m[i]] \in StateAt(i, k)
      BY <1>0 DEF Marked, n
    <3>3. i > k => s[m[i]] = "QUEUED"
      <4> SUFFICES ASSUME i > k PROVE s[m[i]] = "QUEUED"
        OBVIOUS
      <4>1. (i - k) + 1 \in 2 .. p /\ (k - 1) + ((i - k) + 1) = i
        BY <1>1, <1>2
      <4>2. m[i] = q[(i - k) + 1]
        BY <4>1, <1>4
      <4> QED
        BY <4>1, <4>2 DEF p
    <3>4. s[m[i]] \in StateAt(i, k - 1)
      BY <2>2, <3>2, <3>3, <1>2 DEF StateAt
    <3> QED
      BY <3>1, <3>4, <1>6
  <2> QED
    BY <2>1, <2>2
<1>8. Others(m, t)
  <2>1. b \in Range(m)
    BY <1>2, <1>3 DEF b
  <2> QED
    BY <2>1, <1>0, <1>6 DEF Others
<1> QED
  BY <1>0, <1>5, <1>7, <1>8 DEF Shape, t, b

(* uvc_queue_cancel: nothing wants data any more.                          *)
LEMMA ShapeCancelled ==
  ASSUME NEW m \in Seq(Buffers), NEW w \in Seq(Buffers), NEW k, NEW s \in States, NEW c,
         Shape(m, w, k, s, c)
  PROVE  Shape(m, << >>, Len(m), [b \in Buffers |-> IF b \in Range(w) THEN "ERROR" ELSE s[b]], c)
<1> DEFINE t == [b \in Buffers |-> IF b \in Range(w) THEN "ERROR" ELSE s[b]]
           n == Len(m)
<1>0. /\ Ends(m, w, k) /\ Once(m) /\ Marked(m, k, s) /\ Others(m, s) /\ Within(m, c)
  BY DEF Shape
<1>1. n \in Nat /\ k \in Nat /\ n = k + Len(w) /\ \A i \in 1 .. Len(w) : w[i] = m[k + i]
  BY <1>0, Lengths DEF Ends
<1>2. Ends(m, << >>, n)
  BY <1>1 DEF Ends
<1>3. \A i \in 1 .. n : m[i] \in Buffers /\ m[i] \in Range(m)
  BY Lengths
<1> HIDE DEF n
<1>4. Marked(m, n, t)
  <2>0. \A i \in 1 .. n : StateAt(i, n) = {"DONE", "ERROR"}
    BY <1>1 DEF StateAt
  <2> SUFFICES ASSUME NEW i \in 1 .. n PROVE t[m[i]] \in {"DONE", "ERROR"}
    BY <2>0 DEF Marked, n
  <2>1. CASE m[i] \in Range(w)
    BY <2>1, <1>3
  <2>2. CASE m[i] \notin Range(w)
    <3>1. i <= k
      <4> SUFFICES ASSUME i > k PROVE FALSE
        BY <1>1
      <4>1. i - k \in 1 .. Len(w) /\ k + (i - k) = i
        BY <1>1, Lengths
      <4>2. m[i] = w[i - k]
        BY <4>1, <1>1
      <4> QED
        BY <4>1, <4>2, <2>2, Lengths
    <3>2. s[m[i]] \in StateAt(i, k)
      BY <1>0 DEF Marked, n
    <3> QED
      BY <2>2, <3>1, <3>2, <1>3 DEF StateAt
  <2> QED
    BY <2>1, <2>2
<1>5. Others(m, t)
  <2> SUFFICES ASSUME NEW b \in Buffers, b \notin Range(m) PROVE t[b] = "IDLE"
    BY DEF Others
  <2>1. b \notin Range(w)
    <3> SUFFICES ASSUME b \in Range(w) PROVE FALSE
      OBVIOUS
    <3>1. PICK i \in 1 .. Len(w) : b = w[i]
      BY Lengths
    <3>2. k + i \in 1 .. n /\ b = m[k + i]
      BY <3>1, <1>1, Lengths
    <3> QED
      BY <3>2, <1>3
  <2> QED
    BY <2>1, <1>0 DEF Others
<1> HIDE DEF t
<1> QED
  BY <1>0, <1>2, <1>4, <1>5 DEF Shape, n, t

LEMMA ShapeEmpty ==
  ASSUME NEW s \in States, \A b \in Buffers : s[b] = "IDLE", NEW c
  PROVE  Shape(<< >>, << >>, 0, s, c)
<1>1. Len(<< >>) = 0 /\ \A i : i \notin 1 .. 0
  OBVIOUS
<1> QED
  BY <1>1 DEF Shape, Ends, Once, Marked, Others, Within

(* The queues and the states, as long as DQBUF did not take a buffer that  *)
(* is then put back.                                                       *)
AgreeInv ==
  /\ Shape(mainq, Wanting, Finished, bstate, count)
  /\ h \in Finishing /\ bstate[hBuf] # "IDLE" => Finished > 0 /\ hBuf = mainq[Finished]
  /\ h \in {"eof", "look", "drop"} => bstate[hBuf] = "DONE"
  /\ dqBuf # 0 => mainq # << >> /\ dqBuf = Head(mainq)

LEMMA Agrees ==
  ASSUME TypeOK, StreamInv, FillInv, LineInv, AgreeInv, [Next]_vars, ~corrupt', ~overtaken'
  PROVE  AgreeInv'
<1>0. bstate \in States /\ mainq \in Seq(Buffers) /\ irqq \in Seq(Buffers)
  BY DEF TypeOK, States
<1>w. Wanting \in Seq(Buffers)
  <2>1. h \in Finishing => irqq # << >>
    BY DEF StreamInv, FillInv
  <2> QED
    BY <2>1, <1>0, HeadTailProperties DEF Wanting
<1>1. CASE Ioctl
  <2> USE DEF bufVars, flagVars, dqVars, usbVars, hVars
  <2>1. CASE \E n \in 0 .. NBuf : Reqbufs(n)
    <3>1. /\ mainq' = << >> /\ irqq' = << >> /\ \A b \in Buffers : bstate'[b] = "IDLE"
          /\ dqBuf' = 0 /\ h' \notin Finishing
      BY <2>1, Numbers DEF Reqbufs, HasMutex, Killed, StreamInv, FillInv, TypeOK
    <3>2. Wanting' = << >> /\ Finished' = 0
      BY <3>1 DEF Wanting, Finished
    <3>3. bstate' \in States
      BY Types DEF TypeOK, States
    <3> QED
      BY <3>1, <3>2, <3>3, ShapeEmpty DEF AgreeInv
  <2>2. CASE Mmap
    BY <2>2 DEF Mmap, HasMutex, Running, AgreeInv, Wanting, Finished
  <2>3. CASE Munmap
    BY <2>3 DEF Munmap, HasMutex, Running, AgreeInv, Wanting, Finished
  <2>4. CASE \E b \in Buffers : Qbuf(b)
    <3>1. PICK b \in Buffers : Qbuf(b)
      BY <2>4
    <3>2. /\ bstate[b] = "IDLE" /\ bstate' = [bstate EXCEPT ![b] = "QUEUED"]
          /\ mainq' = Append(mainq, b) /\ irqq' = Append(irqq, b) /\ b \notin Range(irqq)
          /\ dqBuf = 0 /\ b \in 1 .. count /\ UNCHANGED <<h, hBuf, dqBuf, count>>
      <4>1. /\ bstate[b] = "IDLE" /\ bstate' = [bstate EXCEPT ![b] = "QUEUED"]
            /\ mainq' = Append(mainq, b) /\ irqq' = Append(irqq, b)
            /\ dqBuf = 0 /\ b <= count /\ UNCHANGED <<h, hBuf, dqBuf, count>>
        BY <3>1 DEF Qbuf, HasMutex
      <4>2. b \notin Range(irqq)
        BY <3>1, Zenon DEF Qbuf
      <4>3. b \in Nat /\ b >= 1 /\ count \in Nat
        BY Numbers DEF Buffers, TypeOK
      <4> QED
        BY <4>1, <4>2, <4>3
    <3>3. Wanting' = Append(Wanting, b) /\ Wanting \in Seq(Buffers)
      <4>1. CASE h \in Finishing
        <5>1. irqq # << >> /\ irqq \in Seq(Buffers)
          BY <4>1 DEF StreamInv, FillInv, TypeOK
        <5>2. Tail(irqq') = Append(Tail(irqq), b) /\ Tail(irqq) \in Seq(Buffers)
          BY <5>1, <3>2
        <5> QED
          BY <4>1, <5>2, <3>2 DEF Wanting
      <4>2. CASE h \notin Finishing
        BY <4>2, <3>2 DEF Wanting, TypeOK
      <4> QED
        BY <4>1, <4>2
    <3>4. Finished' = Finished
      BY <3>2, <3>3, Appended, Lengths DEF Finished, TypeOK
    <3>5. Shape(mainq', Wanting', Finished', bstate', count')
      BY <3>2, <3>3, <3>4, ShapeQueued, <1>0 DEF AgreeInv
    <3>6. h \in Finishing => hBuf # b /\ hBuf \in Buffers
      BY <3>2, RangeTail DEF StreamInv, FillInv, TypeOK
    <3>7. h \in Finishing => bstate'[hBuf] = bstate[hBuf]
      BY <3>2, <3>6 DEF TypeOK
    <3>8. h \in Finishing /\ bstate[hBuf] # "IDLE" => mainq'[Finished] = mainq[Finished]
      <4>1. Len(mainq) \in Nat /\ Len(Wanting) \in Nat
        BY <3>3, <1>0, Lengths
      <4>2. Finished > 0 /\ Finished <= Len(mainq) => mainq'[Finished] = mainq[Finished]
        BY <3>2, <1>0, <4>1, Appended DEF Finished
      <4> QED
        BY <4>1, <4>2 DEF AgreeInv, Finished
    <3> QED
      BY <3>2, <3>4, <3>5, <3>7, <3>8 DEF AgreeInv
  <2>5. CASE Dqbuf
    <3>1. dqBuf' = Head(mainq) /\ mainq # << >>
      BY <2>5 DEF Dqbuf
    <3>2. UNCHANGED <<count, bstate, mainq, irqq, h, hBuf>>
      BY <2>5 DEF Dqbuf
    <3> QED
      BY <3>1, <3>2 DEF AgreeInv, Wanting, Finished
  <2>6. CASE DqbufSleep
    BY <2>6 DEF DqbufSleep, HasMutex, Running, AgreeInv, Wanting, Finished
  <2>7. CASE DqbufTake
    BY <2>7 DEF DqbufTake, AgreeInv, Wanting, Finished
  <2>9. CASE DqbufGive
    <3>1. /\ dqBuf # 0 /\ bstate[dqBuf] \in {"DONE", "ERROR"} /\ dqBuf' = 0
          /\ bstate' = [bstate EXCEPT ![dqBuf] = "IDLE"] /\ mainq' = Unlinked(mainq, dqBuf)
          /\ ~Unsettled(dqBuf) /\ UNCHANGED <<irqq, h, hBuf, count>>
      <4>1. dqBuf # 0 /\ ~TooEarly
        BY <2>9 DEF DqbufGive, StreamInv
      <4>2. /\ dqBuf' = 0 /\ UNCHANGED <<irqq, h, hBuf, count>>
            /\ bstate' = [bstate EXCEPT ![dqBuf] = "IDLE"] /\ mainq' = Unlinked(mainq, dqBuf)
        BY <2>9 DEF DqbufGive
      <4> QED
        BY <4>1, <4>2 DEF TooEarly
    <3>2. mainq # << >> /\ dqBuf = mainq[1] /\ mainq' = Tail(mainq) /\ dqBuf \in Buffers
      BY <3>1, <1>0, Lengths, Numbers DEF AgreeInv, Unlinked, HeadOr0, TypeOK
    <3>3. Wanting' = Wanting /\ Wanting \in Seq(Buffers)
      <4>1. Wanting' = Wanting
        BY <3>1 DEF Wanting
      <4> QED
        BY <4>1, <1>w
    <3>4. Finished' = Finished - 1
      BY <3>2, <3>3, <1>0, HeadTailProperties, Lengths DEF Finished
    <3>5. Finished > 0 /\ Shape(mainq', Wanting', Finished', bstate', count')
      BY <3>1, <3>2, <3>3, <3>4, <1>0, ShapeTaken DEF AgreeInv
    <3>6. \A b \in Buffers : b # dqBuf => bstate'[b] = bstate[b]
      BY <3>1, <1>0 DEF States
    <3>7. h \in {"eof", "look", "drop"} => hBuf # dqBuf /\ hBuf \in Buffers
      BY <3>1 DEF Unsettled, StreamInv, TypeOK
    <3>8. ASSUME h \in Finishing, hBuf # dqBuf, bstate[hBuf] # "IDLE"
          PROVE  Finished' > 0 /\ hBuf = mainq'[Finished']
      <4>1. Finished > 0 /\ hBuf = mainq[Finished]
        BY <3>8 DEF AgreeInv
      <4>2. Finished # 1 /\ Finished \in Nat /\ Finished <= Len(mainq) /\ Len(mainq) \in Nat
        BY <3>2, <3>3, <3>8, <4>1, <1>0, Lengths DEF Finished
      <4>3. Len(Tail(mainq)) = Len(mainq) - 1 /\ Finished - 1 \in 1 .. Len(mainq) - 1
        BY <3>2, <4>1, <4>2, <1>0, HeadTailProperties
      <4>4. mainq'[Finished - 1] = mainq[(Finished - 1) + 1]
        BY <3>2, <4>3, <1>0, HeadTailProperties
      <4> QED
        BY <3>4, <4>1, <4>2, <4>3, <4>4
    <3>9. h \in Finishing => hBuf \in Buffers
      BY DEF StreamInv, TypeOK
    <3>10. hBuf = dqBuf => bstate'[hBuf] = "IDLE"
      BY <3>1, <3>2, <1>0 DEF States
    <3> QED
      BY <3>1, <3>5, <3>6, <3>7, <3>8, <3>9, <3>10 DEF AgreeInv
  <2>8. CASE DqbufInterrupted
    BY <2>8 DEF DqbufInterrupted, HasMutex, Running, AgreeInv, Wanting, Finished
  <2> QED
    BY <1>1, <2>1, <2>2, <2>3, <2>4, <2>5, <2>6, <2>7, <2>8, <2>9 DEF Ioctl
<1>2. CASE Control
  <2> USE DEF bufVars, flagVars, dqVars, usbVars, hVars
  <2>1. CASE Streamon
    BY <2>1 DEF Streamon, HasMutex, Running, AgreeInv, Wanting, Finished
  <2>2. CASE InitVideo
    BY <2>2 DEF InitVideo, AgreeInv, Wanting, Finished
  <2>3. CASE \E n \in 0 .. NUrb - 1 : InitVideoFails(n)
    BY <2>3 DEF InitVideoFails, AgreeInv, Wanting, Finished
  <2>4. CASE \E n \in 0 .. NUrb - 1 : ResumeFails(n)
    BY <2>4 DEF ResumeFails, AgreeInv, Wanting, Finished
  <2>5. CASE Streamoff
    BY <2>5 DEF Streamoff, HasMutex, Running, AgreeInv, Wanting, Finished
  <2>6. CASE Release
    BY <2>6 DEF Release, HasMutex, Running, AgreeInv, Wanting, Finished
  <2>7. CASE Open
    BY <2>7 DEF Open, AgreeInv, Wanting, Finished
  <2>8. CASE Suspend
    BY <2>8 DEF Suspend, HasMutex, Running, AgreeInv, Wanting, Finished
  <2>9. CASE Resume
    BY <2>9 DEF Resume, AgreeInv, Wanting, Finished
  <2>10. CASE ThawUnplugged
    BY <2>10 DEF ThawUnplugged, AgreeInv, Wanting, Finished
  <2>11. CASE UninitDone
    BY <2>11 DEF UninitDone, AgreeInv, Wanting, Finished
  <2>12. CASE Disable
    <3>1. /\ mainq' = << >> /\ irqq' = << >> /\ \A b \in Buffers : bstate'[b] = "IDLE"
          /\ dqBuf' = 0 /\ h' \notin Finishing
      BY <2>12, Numbers DEF Disable, Killed, StreamInv, FillInv, TypeOK
    <3>2. Wanting' = << >> /\ Finished' = 0
      BY <3>1 DEF Wanting, Finished
    <3>3. bstate' \in States
      BY Types DEF TypeOK, States
    <3> QED
      BY <3>1, <3>2, <3>3, ShapeEmpty DEF AgreeInv
  <2> QED
    BY <1>2, <2>1, <2>2, <2>3, <2>4, <2>5, <2>6, <2>7, <2>8, <2>9, <2>10, <2>11, <2>12 DEF Control
<1>3. CASE Handler
  <2> USE DEF bufVars, flagVars, dqVars, usbVars, hVars
  <2>1. CASE Skip
    BY <2>1 DEF Skip, AgreeInv, Wanting, Finished
  <2>2. CASE \E fid \in {0, 1} : DecodeNoBuffer(fid)
    BY <2>2 DEF DecodeNoBuffer, Decoding, AgreeInv, Wanting, Finished
  <2>3. CASE \E fid \in {0, 1} : DecodeOutOfSync(fid)
    BY <2>3 DEF DecodeOutOfSync, Decoding, AgreeInv, Wanting, Finished
  <2>4. CASE \E fid \in {0, 1} : DecodeToggled(fid)
    <3>1. /\ h = "packet" /\ hBuf \in Buffers /\ irqq # << >> /\ hBuf = irqq[1]
          /\ UNCHANGED <<mainq, irqq, hBuf, dqBuf, count>>
      BY <2>4, <1>0, Lengths DEF DecodeToggled, Decoding, FillInv, TypeOK
    <3>2. Wanting = irqq
      BY <3>1 DEF Wanting
    <3>3. bstate' = [bstate EXCEPT ![hBuf] = "DONE"] /\ h' \in Finishing
      BY <2>4 DEF DecodeToggled, AfterDone
    <3> QED
      <4>1. Wanting' = Tail(irqq) /\ Finished' = Finished + 1
        BY <3>1, <3>2, <3>3, <1>0, HeadTailProperties, Lengths DEF Wanting, Finished
      <4>2. Shape(mainq, Tail(irqq), Finished + 1, bstate', count) /\ irqq[1] = mainq[Finished + 1]
        BY <3>1, <3>2, <3>3, <1>0, ShapeFinished DEF AgreeInv
      <4>3. Finished \in Nat /\ bstate'[hBuf] = "DONE"
        BY <3>1, <3>3, <1>0 DEF AgreeInv, Shape, Ends, States
      <4> QED
        BY <3>1, <4>1, <4>2, <4>3 DEF AgreeInv
  <2>5. CASE \E fid \in {0, 1}, len \in 0 .. MaxPayload, eof \in BOOLEAN :
               DecodeStore(fid, len, eof)
    <3>1. /\ h = "packet" /\ hBuf \in Buffers /\ irqq # << >> /\ hBuf = irqq[1]
          /\ UNCHANGED <<mainq, irqq, hBuf, dqBuf, count>>
      BY <2>5, <1>0, Lengths DEF DecodeStore, Decoding, FillInv, TypeOK
    <3>2. Wanting = irqq
      BY <3>1 DEF Wanting
    <3>3. \/ bstate' = [bstate EXCEPT ![hBuf] = "DONE"] /\ h' \in {"eof", "look"}
          \/ bstate' = [bstate EXCEPT ![hBuf] = "ACTIVE"] /\ h' = "packet"
      BY <2>5, StoreStates
    <3>4. CASE bstate' = [bstate EXCEPT ![hBuf] = "DONE"] /\ h' \in {"eof", "look"}
      <4>0. h' \in Finishing
        BY <3>4
      <4>1. Wanting' = Tail(irqq) /\ Finished' = Finished + 1
        <5>1. Wanting' = Tail(irqq)
          BY <3>1, <4>0 DEF Wanting
        <5>2. Len(Tail(irqq)) = Len(irqq) - 1 /\ Len(irqq) \in Nat /\ Len(mainq) \in Nat
          BY <3>1, <1>0, HeadTailProperties, Lengths
        <5> QED
          BY <5>1, <5>2, <3>1, <3>2 DEF Finished
      <4>2. Shape(mainq, Tail(irqq), Finished + 1, bstate', count) /\ irqq[1] = mainq[Finished + 1]
        BY <3>1, <3>2, <3>4, <1>0, ShapeFinished DEF AgreeInv
      <4>3. Finished \in Nat /\ bstate'[hBuf] = "DONE"
        BY <3>1, <3>4, <1>0 DEF AgreeInv, Shape, Ends, States
      <4> QED
        BY <3>1, <4>1, <4>2, <4>3 DEF AgreeInv
    <3>5. CASE bstate' = [bstate EXCEPT ![hBuf] = "ACTIVE"] /\ h' = "packet"
      <4>1. Wanting' = Wanting /\ Finished' = Finished
        BY <3>1, <3>2, <3>5 DEF Wanting, Finished
      <4>2. Shape(mainq, irqq, Finished, bstate', count)
        BY <3>1, <3>2, <3>5, <1>0, ShapeActive DEF AgreeInv
      <4> QED
        BY <3>1, <3>2, <3>5, <4>1, <4>2 DEF AgreeInv
    <3> QED
      BY <3>3, <3>4, <3>5
  <2>6. CASE NextBufferDrops
    <3>1. /\ h = "drop" /\ h' = "packet" /\ bstate' = [bstate EXCEPT ![hBuf] = "QUEUED"]
          /\ UNCHANGED <<mainq, irqq, hBuf, dqBuf, count>>
      BY <2>6 DEF NextBufferDrops
    <3>2. irqq # << >> /\ hBuf = irqq[1] /\ hBuf \in Buffers
      BY <3>1, <1>0, Lengths DEF StreamInv, FillInv, TypeOK
    <3>3. Wanting = Tail(irqq) /\ Wanting' = irqq /\ Finished' = Finished - 1
      BY <3>1, <3>2, <1>0, HeadTailProperties, Lengths DEF Wanting, Finished
    <3>4. Finished > 0 /\ hBuf = mainq[Finished]
      BY <3>1 DEF AgreeInv
    <3>5. Shape(mainq, irqq, Finished - 1, bstate', count)
      BY <3>1, <3>2, <3>3, <3>4, <1>0, ShapePutBack DEF AgreeInv, LineInv
    <3> QED
      BY <3>1, <3>3, <3>5 DEF AgreeInv
  <2>7. CASE NextBuffer
    <3>1. /\ h = "next" /\ h' = "packet" /\ UNCHANGED <<mainq, bstate, dqBuf, count>>
          /\ irqq' = Unlinked(irqq, hBuf)
      BY <2>7 DEF NextBuffer
    <3>2. irqq # << >> /\ hBuf = Head(irqq) /\ hBuf # 0
      BY <3>1 DEF StreamInv, FillInv
    <3>3. Wanting' = Wanting /\ Finished' = Finished
      BY <3>1, <3>2 DEF Wanting, Finished, Unlinked, HeadOr0
    <3> QED
      BY <3>1, <3>3 DEF AgreeInv
  <2>8. CASE Resubmit
    BY <2>8 DEF Resubmit, AgreeInv, Wanting, Finished
  <2>9. CASE DecodeEnd
    <3>1. /\ h = "eof" /\ h' = "look" /\ bstate' = [bstate EXCEPT ![hBuf] = "DONE"]
          /\ UNCHANGED <<mainq, irqq, hBuf, dqBuf, count>>
      BY <2>9 DEF DecodeEnd
    <3>2. bstate[hBuf] = "DONE"
      BY <3>1 DEF AgreeInv
    <3>3. bstate' = bstate
      BY <3>1, <3>2, <1>0 DEF States
    <3> QED
      BY <3>1, <3>3 DEF AgreeInv, Wanting, Finished
  <2>10. CASE Look
    <3>1. h = "look" /\ UNCHANGED <<bstate, mainq, irqq, hBuf, dqBuf, count>>
      BY <2>10 DEF Look
    <3>2. bstate[hBuf] = "DONE"
      BY <3>1 DEF AgreeInv
    <3>3. h' \in {"drop", "next"}
      BY <2>10, <3>2 DEF Look, AfterDone
    <3> QED
      BY <3>1, <3>2, <3>3 DEF AgreeInv, Wanting, Finished
  <2> QED
    BY <1>3, <2>1, <2>2, <2>3, <2>4, <2>5, <2>6, <2>7, <2>8, <2>9, <2>10 DEF Handler, Decode
<1>4. CASE Usb
  <2> USE DEF bufVars, flagVars, dqVars, usbVars, hVars
  <2>1. CASE Unplug
    BY <2>1 DEF Unplug, AgreeInv, Wanting, Finished
  <2>2. CASE Complete
    BY <2>2 DEF Complete, AgreeInv, Wanting, Finished
  <2>3. CASE \E shutdown \in BOOLEAN : CompleteStatus(shutdown)
    <3>1. h = "idle" /\ UNCHANGED <<mainq, count, dqBuf, h, hBuf>>
      BY <2>3, Zenon DEF CompleteStatus, hVars
    <3>2. \/ bstate' = bstate /\ irqq' = irqq
          \/ /\ bstate' = [b \in Buffers |-> IF b \in Range(irqq) THEN "ERROR" ELSE bstate[b]]
             /\ irqq' = << >>
      BY <2>3, Zenon DEF CompleteStatus
    <3>3. CASE bstate' = bstate /\ irqq' = irqq
      BY <3>1, <3>3 DEF AgreeInv, Wanting, Finished
    <3>4. CASE /\ bstate' = [b \in Buffers |-> IF b \in Range(irqq) THEN "ERROR" ELSE bstate[b]]
               /\ irqq' = << >>
      <4>1. Wanting = irqq /\ Wanting' = << >> /\ Finished' = Len(mainq)
        BY <3>1, <3>4, <1>0, Lengths DEF Wanting, Finished
      <4>2. Shape(mainq, << >>, Len(mainq), bstate', count)
        BY <3>4, <4>1, <1>0, ShapeCancelled DEF AgreeInv
      <4> QED
        BY <3>1, <4>1, <4>2 DEF AgreeInv
    <3> QED
      BY <3>2, <3>3, <3>4
  <2> QED
    BY <1>4, <2>1, <2>2, <2>3 DEF Usb
<1>5. CASE UNCHANGED vars
    BY <1>5 DEF vars, bufVars, flagVars, dqVars, usbVars, hVars, AgreeInv, Wanting, Finished
<1> QED
  BY <1>1, <1>2, <1>3, <1>4, <1>5 DEF Next

-----------------------------------------------------------------------------
(* The theorems.                                                           *)

IInv == /\ TypeOK /\ StreamInv /\ WakeInv
        /\ ~corrupt => FillInv /\ LineInv /\ DataInv
        /\ ~corrupt /\ ~overtaken => AgreeInv

LEMMA InitFacts == Init => IInv
<1> SUFFICES ASSUME Init PROVE IInv
  OBVIOUS
<1>1. TypeOK
  <2>1. << >> \in Seq(Buffers)
    BY EmptySeq
  <2>2. /\ bstate \in [Buffers -> {"IDLE", "QUEUED", "ACTIVE", "DONE", "ERROR"}]
        /\ used \in [Buffers -> 0 .. Length] /\ mixed \in [Buffers -> BOOLEAN]
    BY Numbers DEF Init
  <2>3. mainq = << >> /\ irqq = << >>
    BY DEF Init
  <2>4. FlagType
    BY Zenon DEF Init, FlagType
  <2>5. /\ count \in 0 .. NBuf /\ maps \in 0 .. MaxMaps /\ dqBuf = 0 /\ ctl = "idle"
        /\ lastFid = -1 /\ live \in 0 .. NUrb /\ h = "idle" /\ hBuf = 0
        /\ hPkt \in 0 .. NPkt /\ hAgain = -1
    BY Numbers DEF Init
  <2> QED
    BY <2>1, <2>2, <2>3, <2>4, <2>5 DEF TypeOK, FlagType
<1>2. StreamInv /\ WakeInv
  BY DEF Init, StreamInv, Killed, WakeInv
<1>3. FillInv /\ LineInv
  BY Numbers DEF Init, FillInv, LineInv
<1>4. DataInv
  BY DEF Init, DataInv
<1>5. AgreeInv
  <2>1. mainq = << >> /\ Wanting = << >> /\ Finished = 0
    BY DEF Init, Wanting, Finished
  <2>2. bstate \in States /\ \A b \in Buffers : bstate[b] = "IDLE"
    BY DEF Init, States
  <2>3. dqBuf = 0 /\ h = "idle"
    BY DEF Init
  <2> QED
    BY <2>1, <2>2, <2>3, ShapeEmpty DEF AgreeInv
<1> QED
  BY <1>1, <1>2, <1>3, <1>4, <1>5 DEF IInv

(* overtaken is never forgotten.                                           *)
LEMMA Overtaking == Next => (~overtaken' => ~overtaken)
<1> SUFFICES ASSUME Next, overtaken PROVE overtaken'
  BY Zenon
<1>1. CASE Ioctl
  BY <1>1 DEF Ioctl, Reqbufs, Mmap, Munmap, Qbuf, Dqbuf, DqbufSleep, DqbufTake,
              DqbufGive, DqbufInterrupted
<1>2. CASE Control
  BY <1>2 DEF Control, Streamon, InitVideo, InitVideoFails, ResumeFails, Streamoff, Release, Open, Suspend, Resume, ThawUnplugged, UninitDone, Disable
<1>3. CASE Handler
  BY <1>3 DEF Handler, Decode, Skip, DecodeNoBuffer, DecodeOutOfSync, DecodeToggled, DecodeStore,
              DecodeEnd, Look, NextBufferDrops, NextBuffer, Resubmit
<1>4. CASE Usb
  BY <1>4 DEF Usb, Unplug, Complete, CompleteStatus
<1> QED
  BY <1>1, <1>2, <1>3, <1>4 DEF Next

LEMMA StepFacts == IInv /\ [Next]_vars => IInv'
<1> SUFFICES ASSUME IInv, [Next]_vars PROVE IInv'
  OBVIOUS
<1>1. TypeOK' /\ StreamInv'
  BY Types, Streams DEF IInv
<1>2. ~corrupt \/ UNCHANGED vars
  BY DEF Next
<1>3. WakeInv'
  BY <1>2, Sleepers DEF IInv
<1>4. ~corrupt' => ~corrupt
  BY <1>2 DEF vars
<1>5. ~corrupt' => FillInv' /\ LineInv' /\ DataInv'
  BY <1>4, Fills, Lines, Datas DEF IInv
<1>6. ~overtaken' => ~overtaken \/ corrupt
  <2>1. CASE UNCHANGED vars
    BY <2>1 DEF vars
  <2>2. CASE Next
    BY <2>2, Overtaking
  <2> QED
    BY <2>1, <2>2
<1>7. ~corrupt' /\ ~overtaken' => AgreeInv'
  BY <1>4, <1>6, Agrees DEF IInv
<1> QED
  BY <1>1, <1>3, <1>5, <1>7 DEF IInv

LEMMA Invariance == Spec => []IInv
  BY InitFacts, StepFacts, PTL DEF Spec

(* The types, and with them the bounds: no more bytes than a buffer has    *)
(* are copied, no more URBs are in flight than there are.                  *)
THEOREM TypeCorrect == Spec => []TypeOK
<1>1. IInv => TypeOK
  BY DEF IInv
<1> QED
  BY <1>1, Invariance, PTL

(* No wakeup of DQBUF is lost.                                             *)
THEOREM SleeperTheorem == Spec => []SleeperIsWoken
<1>1. IInv => SleeperIsWoken
  BY DEF IInv, WakeInv, SleeperIsWoken
<1> QED
  BY <1>1, Invariance, PTL

(* When the device is gone, no buffer waits for data.                      *)
THEOREM DisconnectedTheorem == Spec => []DisconnectedIsDrained
<1>1. IInv => DisconnectedIsDrained
  <2> SUFFICES ASSUME IInv, disconnected, ~corrupt
               PROVE  /\ irqq = << >>
                      /\ \A b \in 1 .. count : bstate[b] \notin {"QUEUED", "ACTIVE"}
    BY DEF DisconnectedIsDrained
  <2>1. FillInv /\ irqq = << >> /\ count \in 0 .. NBuf
    BY DEF IInv, FillInv, TypeOK
  <2>2. \A b \in 1 .. count : b \in Buffers
    BY <2>1, Numbers DEF Buffers
  <2> QED
    BY <2>1, <2>2, RangeEmpty DEF FillInv
<1> QED
  BY <1>1, Invariance, PTL

(* The queues and the states agree.                                        *)
THEOREM QueuesTheorem == Spec => []QueuesAgree
<1>1. IInv => QueuesAgree
  <2> SUFFICES ASSUME IInv, ~corrupt, ~overtaken PROVE QueuesAgree
    BY DEF QueuesAgree
  <2>1. AgreeInv /\ FillInv /\ TypeOK
    BY DEF IInv
  <2>2. /\ Ends(mainq, Wanting, Finished) /\ Once(mainq) /\ Marked(mainq, Finished, bstate)
        /\ Others(mainq, bstate) /\ Within(mainq, count)
    BY <2>1 DEF AgreeInv, Shape
  <2>3. Finished >= 0 /\ \A i \in 1 .. Len(Wanting) : Wanting[i] = mainq[Finished + i]
    BY <2>2 DEF Ends
  <2>4. Range(mainq) \subseteq 1 .. count
    BY <2>1, <2>2, Lengths DEF Within, TypeOK
  <2>5. hBuf # 0 => hBuf = HeadOr0(irqq)
    BY <2>1 DEF FillInv, HeadOr0
  <2>6. dqBuf # 0 => dqBuf = HeadOr0(mainq)
    BY <2>1 DEF AgreeInv, HeadOr0
  <2> QED
    BY <2>1, <2>2, <2>3, <2>4, <2>5, <2>6
       DEF QueuesAgree, AgreeInv, Once, Marked, StateAt, Others
<1> QED
  BY <1>1, Invariance, PTL

(* A finished buffer has data, and no data of two frames that could be     *)
(* told apart.                                                             *)
THEOREM FrameTheorem == Spec => []OneFrame
<1>1. IInv => OneFrame
  <2> SUFFICES ASSUME IInv, ~corrupt, NEW b \in 1 .. count, bstate[b] = "DONE"
               PROVE  /\ used[b] > 0 /\ ~mixed[b]
                      /\ drop /\ ~Unsettled(b) => used[b] = Length
    BY DEF OneFrame
  <2>1. b \in Buffers
    BY Numbers DEF IInv, TypeOK, Buffers
  <2> QED
    BY <2>1 DEF IInv, DataInv
<1> QED
  BY <1>1, Invariance, PTL

-----------------------------------------------------------------------------
(* Refinement: each step, while no buffer was overtaken and no list is     *)
(* corrupt, is a step of CaptureQueue or none.  mainqueue is what is       *)
(* finished followed by what wants data; x is the buffer the handler is    *)
(* about to put back, 0 if there is none.                                  *)

Wants(s, x) == {b \in Buffers : s[b] \in {"QUEUED", "ACTIVE"} \/ b = x}
Done(s, x)  == {b \in Buffers : s[b] = "DONE" /\ b # x}

Dropped == IF h \in {"eof", "look", "drop"} THEN hBuf ELSE 0

Front(p, m, w, s) == m = p \o w /\ \A b \in Range(p) : s[b] \in {"DONE", "ERROR"}

LEMMA ShapeParts ==
  ASSUME NEW m \in Seq(Buffers), NEW w \in Seq(Buffers), NEW k, NEW s \in States, NEW c,
         Shape(m, w, k, s, c)
  PROVE  /\ \E p \in Seq(Buffers) : Front(p, m, w, s)
         /\ \A b \in Range(w) : s[b] \in {"QUEUED", "ACTIVE"} /\ b \in 1 .. c
<1> DEFINE p == [i \in 1 .. k |-> m[i]]
           q == Len(w)
<1>0. /\ k \in Nat /\ q \in Nat /\ Len(m) = k + q /\ \A i \in 1 .. q : w[i] = m[k + i]
      /\ \A i \in 1 .. Len(m) : s[m[i]] \in StateAt(i, k) /\ m[i] \in 1 .. c
  BY DEF Shape, Ends, Marked, Within
<1>1. \A i \in 1 .. Len(m) : m[i] \in Buffers
  BY Lengths
<1>2. /\ p \in Seq(Buffers) /\ Len(p) = k /\ \A i \in 1 .. k : p[i] = m[i]
  BY <1>0, <1>1
<1> HIDE DEF p, q
<1>3. m = p \o w
  <2>1. /\ p \o w \in Seq(Buffers) /\ Len(p \o w) = k + q
        /\ \A i \in 1 .. k + q : (p \o w)[i] = IF i <= k THEN p[i] ELSE w[i - k]
    BY <1>0, <1>2 DEF q
  <2>2. ASSUME NEW i \in 1 .. k + q PROVE (p \o w)[i] = m[i]
    <3>1. CASE i <= k
      <4>1. i \in 1 .. k
        BY <1>0, <3>1
      <4> QED
        BY <4>1, <3>1, <1>2, <2>1
    <3>2. CASE ~(i <= k)
      <4>1. i - k \in 1 .. q /\ k + (i - k) = i
        BY <1>0, <3>2
      <4> QED
        BY <4>1, <3>2, <1>0, <2>1
    <3> QED
      BY <3>1, <3>2
  <2> QED
    BY <2>1, <2>2, <1>0, SeqEqual
<1>4. ASSUME NEW b \in Range(p) PROVE s[b] \in {"DONE", "ERROR"}
  <2>1. PICK i \in 1 .. k : b = m[i]
    BY <1>2, Lengths
  <2>2. i \in 1 .. Len(m) /\ i <= k
    BY <1>0, <2>1
  <2> QED
    BY <1>0, <2>1, <2>2 DEF StateAt
<1>5. ASSUME NEW b \in Range(w) PROVE s[b] \in {"QUEUED", "ACTIVE"} /\ b \in 1 .. c
  <2>1. PICK i \in 1 .. q : b = w[i]
    BY Lengths DEF q
  <2>2. k + i \in 1 .. Len(m) /\ ~(k + i <= k) /\ b = m[k + i]
    BY <1>0, <2>1
  <2> QED
    BY <1>0, <2>2 DEF StateAt
<1> QED
  BY <1>2, <1>3, <1>4, <1>5 DEF Front

(* What waits is what wants data.                                          *)
LEMMA WantsOfShape ==
  ASSUME NEW m \in Seq(Buffers), NEW w \in Seq(Buffers), NEW k, NEW s \in States, NEW c,
         Shape(m, w, k, s, c)
  PROVE  Kept(m, Wants(s, 0)) = w
<1>0. PICK p \in Seq(Buffers) : Front(p, m, w, s)
  BY ShapeParts
<1>1. m = p \o w /\ \A b \in Range(p) : s[b] \in {"DONE", "ERROR"}
  BY <1>0 DEF Front
<1>2. \A b \in Range(w) : s[b] \in {"QUEUED", "ACTIVE"}
  BY ShapeParts
<1>3. \A b \in Range(w) : b \in Buffers
  BY Lengths
<1>4. Range(p) \cap Wants(s, 0) = {} /\ Range(w) \subseteq Wants(s, 0)
  BY <1>1, <1>2, <1>3, Numbers DEF Wants
<1>5. Kept(p, Wants(s, 0)) = << >> /\ Kept(w, Wants(s, 0)) = w
  BY <1>4, KeptNone, KeptAll
<1>6. Kept(m, Wants(s, 0)) = Kept(p, Wants(s, 0)) \o Kept(w, Wants(s, 0))
  BY <1>1, KeptConcat
<1> QED
  BY <1>5, <1>6

(* The first that wants data is the next that is filled.                   *)
LEMMA DoneOfShape ==
  ASSUME NEW m \in Seq(Buffers), NEW w \in Seq(Buffers), NEW k, NEW s \in States, NEW c,
         Shape(m, w, k, s, c), w # << >>,
         NEW t \in States, t = [s EXCEPT ![w[1]] = "DONE"]
  PROVE  Kept(m, Done(t, 0)) = Append(Kept(m, Done(s, 0)), Head(w))
<1> DEFINE b == Head(w)
           D == Done(s, 0)
           E == Done(t, 0)
<1>a. Shape(m, Tail(w), k + 1, [s EXCEPT ![w[1]] = "DONE"], c)
  BY ShapeFinished
<1>0. PICK p \in Seq(Buffers) : Front(p, m, w, s)
  BY ShapeParts
<1>1. m = p \o w /\ \A x \in Range(p) : s[x] \in {"DONE", "ERROR"}
  BY <1>0 DEF Front
<1>2. \A x \in Range(w) : s[x] \in {"QUEUED", "ACTIVE"}
  BY ShapeParts
<1>3. /\ b = w[1] /\ b \in Range(w) /\ b \in Buffers /\ Tail(w) \in Seq(Buffers)
      /\ Range(w) = Range(Tail(w)) \cup {b}
  BY Lengths, HeadTailProperties, RangeTail
<1>4. t[b] = "DONE" /\ \A x \in Buffers : x # b => t[x] = s[x]
  BY <1>3 DEF States
<1>5. b \notin Range(Tail(w))
  <2>1. Shape(m, Tail(w), k + 1, t, c)
    BY <1>a
  <2>2. \A x \in Range(Tail(w)) : t[x] \in {"QUEUED", "ACTIVE"}
    BY <1>3, <2>1, ShapeParts
  <2> QED
    BY <1>4, <2>2
<1>6. b \in E /\ E = D \cup {b}
  BY <1>3, <1>4, Numbers DEF Done
<1> HIDE DEF b, D, E
<1>7. Kept(p, E) = Kept(p, D)
  <2>1. b \notin Range(p)
    BY <1>1, <1>2, <1>3
  <2> QED
    BY <1>6, <2>1, KeptAlike
<1>8. Kept(w, D) = << >>
  <2>1. Range(w) \cap D = {}
    BY <1>2 DEF D, Done
  <2> QED
    BY <2>1, KeptNone
<1>9. Kept(Tail(w), E) = << >>
  <2>1. Range(Tail(w)) \cap E = {}
    BY <1>2, <1>3, <1>5, <1>6 DEF D, Done
  <2> QED
    BY <1>3, <2>1, KeptNone
<1>10. Kept(w, E) = Append(<< >>, b)
  <2>1. Kept(w, E) # << >> /\ Head(Kept(w, E)) = b /\ Tail(Kept(w, E)) = << >>
    BY <1>6, <1>9, KeptHead DEF b
  <2>2. Kept(w, E) \in Seq(Buffers)
    BY KeptType
  <2>3. Kept(w, E) = <<b>> \o << >>
    BY <2>1, <2>2, HeadAndTail
  <2> QED
    BY <2>3, <1>3
<1>11. Kept(m, E) = Kept(p, E) \o Kept(w, E) /\ Kept(m, D) = Kept(p, D) \o Kept(w, D)
  <2>1. Kept(p \o w, E) = Kept(p, E) \o Kept(w, E)
    BY KeptConcat
  <2>2. Kept(p \o w, D) = Kept(p, D) \o Kept(w, D)
    BY KeptConcat
  <2> QED
    BY <1>1, <2>1, <2>2, Zenon
<1>12. Kept(p, D) \in Seq(Buffers) /\ << >> \in Seq(Buffers)
  BY KeptType, EmptySeq
<1>13. Kept(p, D) \o Append(<< >>, b) = Append(Kept(p, D) \o << >>, b)
  BY <1>3, <1>12, AppendOfConcat
<1>14. Kept(m, E) = Kept(p, D) \o Append(<< >>, b)
  BY <1>7, <1>10, <1>11, Zenon
<1>15. Kept(m, D) = Kept(p, D) \o << >>
  BY <1>8, <1>11, Zenon
<1>16. Kept(m, E) = Append(Kept(m, D), b)
  BY <1>13, <1>14, <1>15, Zenon
<1> QED
  BY <1>16, Zenon DEF b, D, E

(* The lists of CaptureQueue, by the state of the queue.                   *)
Calm == IInv /\ ~corrupt /\ ~overtaken

LEMMA ListsAre ==
  /\ Waiting = Kept(mainq, Wants(bstate, Dropped)) /\ Filled = Kept(mainq, Done(bstate, Dropped))
  /\ Waiting' = Kept(mainq', Wants(bstate', Dropped'))
  /\ Filled' = Kept(mainq', Done(bstate', Dropped'))
<1>1. \A b \in Buffers : Unsettled(b) <=> b = Dropped
  BY Numbers DEF Dropped, Unsettled
<1>2. \A b \in Buffers : Unsettled(b)' <=> b = Dropped'
  BY Numbers DEF Dropped, Unsettled
<1>3. /\ {b \in Buffers : bstate[b] \in {"QUEUED", "ACTIVE"} \/ Unsettled(b)}
            = {b \in Buffers : bstate[b] \in {"QUEUED", "ACTIVE"} \/ b = Dropped}
      /\ {b \in Buffers : bstate[b] = "DONE" /\ ~Unsettled(b)}
            = {b \in Buffers : bstate[b] = "DONE" /\ b # Dropped}
  BY <1>1
<1>4. /\ {b \in Buffers : bstate'[b] \in {"QUEUED", "ACTIVE"} \/ Unsettled(b)'}
            = {b \in Buffers : bstate'[b] \in {"QUEUED", "ACTIVE"} \/ b = Dropped'}
      /\ {b \in Buffers : bstate'[b] = "DONE" /\ ~Unsettled(b)'}
            = {b \in Buffers : bstate'[b] = "DONE" /\ b # Dropped'}
  BY <1>2
<1>5. Waiting = Kept(mainq, Wants(bstate, Dropped)) /\ Filled = Kept(mainq, Done(bstate, Dropped))
  BY <1>3, Zenon DEF Waiting, Filled, Wants, Done
<1>6. Waiting' = Kept(mainq', Wants(bstate', Dropped')) /\ Filled' = Kept(mainq', Done(bstate', Dropped'))
  BY <1>4, Zenon DEF Waiting, Filled, Wants, Done
<1> QED
  BY <1>5, <1>6

LEMMA CalmFacts ==
  ASSUME Calm
  PROVE  /\ TypeOK /\ StreamInv /\ FillInv /\ LineInv /\ AgreeInv
         /\ mainq \in Seq(Buffers) /\ irqq \in Seq(Buffers) /\ Wanting \in Seq(Buffers)
         /\ bstate \in States /\ count \in 0 .. NBuf
         /\ \A b \in 1 .. count : b \in Buffers
         /\ \A b \in Range(mainq) : b \in 1 .. count /\ b \in Buffers /\ bstate[b] # "IDLE"
         /\ \A b \in Buffers : b \notin Range(mainq) => bstate[b] = "IDLE"
<1>1. TypeOK /\ StreamInv /\ FillInv /\ LineInv /\ AgreeInv
  BY DEF Calm, IInv
<1>2. mainq \in Seq(Buffers) /\ irqq \in Seq(Buffers) /\ bstate \in States /\ count \in 0 .. NBuf
  BY <1>1 DEF TypeOK, States
<1>3. Wanting \in Seq(Buffers)
  <2>1. CASE h \in Finishing
    BY <2>1, <1>1, <1>2, HeadTailProperties DEF Wanting, StreamInv, FillInv
  <2> QED
    BY <2>1, <1>2 DEF Wanting
<1>4. \A b \in 1 .. count : b \in Buffers
  BY <1>2, Numbers DEF Buffers
<1>5. Marked(mainq, Finished, bstate) /\ Others(mainq, bstate) /\ Within(mainq, count)
  BY <1>1 DEF AgreeInv, Shape
<1>6. ASSUME NEW b \in Range(mainq) PROVE b \in 1 .. count /\ b \in Buffers /\ bstate[b] # "IDLE"
  <2>1. PICK i \in 1 .. Len(mainq) : b = mainq[i]
    BY <1>2, Lengths
  <2>2. b \in 1 .. count /\ bstate[b] \in StateAt(i, Finished)
    BY <2>1, <1>5 DEF Marked, Within
  <2> QED
    BY <2>2, <1>4 DEF StateAt
<1> QED
  BY <1>1, <1>2, <1>3, <1>4, <1>5, <1>6 DEF Others

(* What waits, while the handler puts nothing back.                        *)
LEMMA WaitingIs ==
  ASSUME Calm, h \notin {"eof", "look", "drop"}
  PROVE  Waiting = Wanting
<1>1. Shape(mainq, Wanting, Finished, bstate, count)
  BY CalmFacts DEF AgreeInv
<1>2. Kept(mainq, Wants(bstate, 0)) = Wanting
  BY <1>1, CalmFacts, WantsOfShape
<1> QED
  BY <1>2, CalmFacts, ListsAre DEF Dropped

(* Every buffer the application asked for is held, waits or is filled.     *)
LEMMA AllBuffers ==
  ASSUME Calm
  PROVE  Held \cup Range(Waiting) \cup Range(Filled) = 1 .. count
<1>1. /\ Range(Waiting) = Range(mainq) \cap Wants(bstate, Dropped)
      /\ Range(Filled) = Range(mainq) \cap Done(bstate, Dropped)
  BY CalmFacts, ListsAre, KeptRange
<1>2. ASSUME NEW b \in 1 .. count
      PROVE  b \in Held \cup Range(Waiting) \cup Range(Filled)
  <2>1. CASE bstate[b] \in {"IDLE", "ERROR"}
    BY <2>1 DEF Held
  <2>2. CASE bstate[b] \notin {"IDLE", "ERROR"}
    <3>1. b \in Buffers /\ b \in Range(mainq) /\ bstate[b] \in {"QUEUED", "ACTIVE", "DONE"}
      BY <2>2, CalmFacts DEF States
    <3> QED
      BY <3>1, <1>1 DEF Wants, Done
  <2> QED
    BY <2>1, <2>2
<1> QED
  BY <1>1, <1>2, CalmFacts DEF Held

LEMMA CaptureInit == Init => Capture!Init
<1> SUFFICES ASSUME Init PROVE Capture!Init
  OBVIOUS
<1>1. Held = {}
  BY DEF Init, Held
<1>2. Waiting = << >> /\ Filled = << >>
  BY KeptEmpty DEF Init, Waiting, Filled
<1>3. on = FALSE /\ (overtaken \/ corrupt) = FALSE
  BY DEF Init
<1> QED
  BY <1>1, <1>2, <1>3 DEF Capture!Init

LEMMA CaptureFrame ==
  ASSUME UNCHANGED <<count, bstate, mainq>>, Dropped' = Dropped
  PROVE  UNCHANGED <<Held, Waiting, Filled>>
<1>1. Held' = Held
  BY DEF Held
<1>2. Waiting' = Waiting /\ Filled' = Filled
  BY ListsAre
<1> QED
  BY <1>1, <1>2

-----------------------------------------------------------------------------
(* The steps.                                                              *)

(* QBUF is Queue.                                                          *)
LEMMA QbufIsQueue ==
  ASSUME Calm, NEW b \in Buffers, Qbuf(b)
  PROVE  /\ b \in Held /\ Held' = Held \ {b}
         /\ Waiting' = Append(Waiting, b) /\ Filled' = Filled
<1> DEFINE x == Dropped
           s == bstate
           t == [bstate EXCEPT ![b] = "QUEUED"]
<1>1. /\ b <= count /\ bstate[b] = "IDLE" /\ bstate' = t /\ mainq' = Append(mainq, b)
      /\ count' = count /\ h' = h /\ hBuf' = hBuf
  BY DEF Qbuf, hVars
<1>2. b \in 1 .. count /\ b \notin Range(mainq)
  BY <1>1, CalmFacts, Numbers DEF Buffers
<1>3. t[b] = "QUEUED" /\ \A a \in Buffers : a # b => t[a] = s[a]
  BY CalmFacts DEF States
<1>4. Dropped' = x
  BY <1>1 DEF Dropped
<1>5. \A a \in 1 .. count : a \in Buffers
  BY CalmFacts
<1>6. b \in Held /\ Held' = Held \ {b}
  BY <1>1, <1>2, <1>3, <1>5 DEF Held
<1>7. b # x
  <2>1. h \in {"eof", "look", "drop"} => bstate[hBuf] = "DONE"
    BY CalmFacts DEF AgreeInv
  <2> QED
    BY <1>1, <2>1, Numbers DEF Dropped
<1>8. b \in Wants(t, x) /\ b \notin Done(t, x)
  BY <1>3 DEF Wants, Done
<1>9. /\ \A a \in Range(mainq) : a \in Wants(t, x) <=> a \in Wants(s, x)
      /\ \A a \in Range(mainq) : a \in Done(t, x) <=> a \in Done(s, x)
  BY <1>2, <1>3 DEF Wants, Done
<1> HIDE DEF x, s, t
<1>10. /\ Kept(Append(mainq, b), Wants(t, x)) = Append(Kept(mainq, Wants(t, x)), b)
       /\ Kept(Append(mainq, b), Done(t, x)) = Kept(mainq, Done(t, x))
  BY <1>8, CalmFacts, KeptAppend
<1>11. /\ Kept(mainq, Wants(t, x)) = Kept(mainq, Wants(s, x))
       /\ Kept(mainq, Done(t, x)) = Kept(mainq, Done(s, x))
  <2>1. mainq \in Seq(Buffers)
    BY CalmFacts
  <2>2. Kept(mainq, Wants(t, x)) = Kept(mainq, Wants(s, x))
    BY <2>1, <1>9, KeptAlike
  <2> QED
    BY <2>1, <2>2, <1>9, KeptAlike
<1>12. Waiting' = Append(Waiting, b) /\ Filled' = Filled
  BY <1>1, <1>4, <1>10, <1>11, ListsAre DEF x, s
<1> QED
  BY <1>6, <1>12

(* DQBUF of a filled buffer is Dequeue, of one in error nothing: that one  *)
(* is the application's already.                                           *)
LEMMA DqbufGiveIsDequeue ==
  ASSUME Calm, DqbufGive, ~overtaken'
  PROVE  \/ /\ Filled # << >> /\ Filled' = Tail(Filled) /\ Waiting' = Waiting
            /\ Held' = Held \cup {Head(Filled)}
         \/ UNCHANGED <<Held, Waiting, Filled>>
<1> DEFINE x == Dropped
           b == dqBuf
           s == bstate
           t == [bstate EXCEPT ![b] = "IDLE"]
<1>1. /\ b # 0 /\ s[b] \in {"DONE", "ERROR"} /\ bstate' = t /\ count' = count
      /\ h' = h /\ hBuf' = hBuf /\ mainq' = Unlinked(mainq, b) /\ ~Unsettled(b)
  <2>1. b # 0 /\ ~TooEarly
    BY CalmFacts DEF DqbufGive, StreamInv
  <2>2. /\ bstate' = t /\ count' = count
        /\ h' = h /\ hBuf' = hBuf /\ mainq' = Unlinked(mainq, b)
    BY DEF DqbufGive, hVars
  <2> QED
    BY <2>1, <2>2 DEF TooEarly
<1>2. mainq # << >> /\ b = Head(mainq) /\ mainq' = Tail(mainq)
  BY <1>1, CalmFacts DEF AgreeInv, Unlinked, HeadOr0
<1>3. b \in Range(mainq) /\ b \in Buffers /\ b \in 1 .. count /\ b # x
  <2>1. b \in Range(mainq)
    BY <1>2, CalmFacts, RangeTail
  <2> QED
    BY <1>1, <2>1, CalmFacts DEF Dropped, Unsettled
<1>4. IsInjective(mainq)
  <2>1. Once(mainq)
    BY CalmFacts DEF AgreeInv, Shape
  <2>2. DOMAIN mainq = 1 .. Len(mainq)
    BY CalmFacts
  <2> QED
    BY <2>1, <2>2 DEF Once, IsInjective
<1>5. Tail(mainq) \in Seq(Buffers) /\ b \notin Range(Tail(mainq))
  BY <1>2, <1>4, CalmFacts, TailOfInjective, HeadTailProperties
<1>6. \A a \in Range(Tail(mainq)) : a \in Buffers
  BY <1>5, Lengths
<1>7. t[b] = "IDLE" /\ \A a \in Buffers : a # b => t[a] = s[a]
  BY <1>3, CalmFacts DEF States
<1>8. Dropped' = x
  BY <1>1 DEF Dropped
<1>9. /\ b \notin Wants(s, x)
      /\ \A a \in Range(Tail(mainq)) : a \in Wants(t, x) <=> a \in Wants(s, x)
      /\ \A a \in Range(Tail(mainq)) : a \in Done(t, x) <=> a \in Done(s, x)
  BY <1>1, <1>3, <1>5, <1>6, <1>7 DEF Wants, Done
<1>10. \A a \in 1 .. count : a \in Buffers
  BY CalmFacts
<1>11. Held' = Held \cup {b}
  BY <1>1, <1>3, <1>7, <1>10 DEF Held
<1>12. s[b] = "DONE" => b \in Done(s, x)
  BY <1>3 DEF Done
<1>13. s[b] = "ERROR" => b \notin Done(s, x) /\ b \in Held
  BY <1>3 DEF Done, Held
<1> HIDE DEF x, b, s, t
<1>14. /\ Kept(Tail(mainq), Wants(t, x)) = Kept(Tail(mainq), Wants(s, x))
       /\ Kept(Tail(mainq), Done(t, x)) = Kept(Tail(mainq), Done(s, x))
  <2>1. Kept(Tail(mainq), Wants(t, x)) = Kept(Tail(mainq), Wants(s, x))
    BY <1>5, <1>9, KeptAlike
  <2> QED
    BY <1>5, <2>1, <1>9, KeptAlike
<1>15. Waiting' = Waiting
  <2>1. Kept(mainq, Wants(s, x)) = Kept(Tail(mainq), Wants(s, x))
    BY <1>2, <1>9, CalmFacts, KeptHead
  <2> QED
    BY <2>1, <1>1, <1>2, <1>8, <1>14, ListsAre DEF x, s
<1>16. CASE s[b] = "DONE"
  <2>1. /\ Kept(mainq, Done(s, x)) # << >> /\ Head(Kept(mainq, Done(s, x))) = b
        /\ Tail(Kept(mainq, Done(s, x))) = Kept(Tail(mainq), Done(s, x))
    BY <1>2, <1>12, <1>16, CalmFacts, KeptHead
  <2>2. Filled # << >> /\ Head(Filled) = b /\ Filled' = Tail(Filled)
    BY <2>1, <1>1, <1>2, <1>8, <1>14, ListsAre DEF x, s
  <2> QED
    BY <2>2, <1>11, <1>15
<1>17. CASE s[b] = "ERROR"
  <2>1. Kept(mainq, Done(s, x)) = Kept(Tail(mainq), Done(s, x))
    BY <1>2, <1>13, <1>17, CalmFacts, KeptHead
  <2>2. Filled' = Filled
    BY <2>1, <1>1, <1>2, <1>8, <1>14, ListsAre DEF x, s
  <2> QED
    BY <2>2, <1>11, <1>13, <1>15, <1>17
<1> QED
  BY <1>1, <1>16, <1>17 DEF s

(* REQBUFS is Reset: what is linked would be corrupted.                    *)
LEMMA ReqbufsIsReset ==
  ASSUME Calm, NEW n \in 0 .. NBuf, Reqbufs(n), ~corrupt'
  PROVE  Held' = 1 .. n /\ Waiting' = << >> /\ Filled' = << >>
<1>1. /\ count' = n /\ bstate' = [b \in Buffers |-> "IDLE"] /\ mainq' = mainq
      /\ corrupt' = (mainq # << >> \/ irqq # << >>)
  BY DEF Reqbufs
<1>2. mainq' = << >>
  BY <1>1
<1>3. \A b \in 1 .. n : b \in Buffers
  BY Numbers DEF Buffers
<1> QED
  BY <1>1, <1>2, <1>3, KeptEmpty, ListsAre DEF Held

(* STREAMOFF is Cancel, close is Reset.                                    *)
LEMMA DisableIsCancel ==
  ASSUME Calm, Disable
  PROVE  /\ Waiting' = << >> /\ Filled' = << >> /\ on' = FALSE
         /\ \/ Held' = Held \cup Range(Waiting) \cup Range(Filled)
            \/ Held' = 1 .. 0
<1>1. /\ mainq' = << >> /\ on' = FALSE /\ bstate' = [b \in Buffers |-> "IDLE"]
      /\ count' = count \/ count' = 0
  BY DEF Disable
<1>2. Waiting' = << >> /\ Filled' = << >>
  BY <1>1, KeptEmpty, ListsAre
<1>3. CASE count' = count
  <2>1. Held' = 1 .. count
    BY <1>1, <1>3, CalmFacts DEF Held
  <2> QED
    BY <2>1, <1>1, <1>2, AllBuffers
<1>4. CASE count' = 0
  <2>1. Held' = 1 .. 0
    BY <1>4 DEF Held
  <2> QED
    BY <2>1, <1>1, <1>2
<1> QED
  BY <1>1, <1>3, <1>4

(* A URB that comes back with a status: the buffers that wait are in error *)
(* and the application's again, or, in a suspended device, nothing.        *)
LEMMA CompleteIsDiscard ==
  ASSUME Calm, NEW shutdown \in BOOLEAN, CompleteStatus(shutdown)
  PROVE  \/ Held' = Held \cup Range(Waiting) /\ Waiting' = << >> /\ Filled' = Filled
         \/ UNCHANGED <<Held, Waiting, Filled>>
<1> DEFINE s == bstate
           t == [b \in Buffers |-> IF b \in Range(irqq) THEN "ERROR" ELSE bstate[b]]
<1>1. h = "idle" /\ UNCHANGED <<mainq, count, h, hBuf>>
  BY Zenon DEF CompleteStatus, hVars
<1>2. \/ bstate' = bstate
      \/ bstate' = t
  BY Zenon DEF CompleteStatus
<1>3. Dropped = 0 /\ Dropped' = 0
  BY <1>1 DEF Dropped
<1>4. CASE bstate' = bstate
  BY <1>1, <1>3, <1>4, CaptureFrame
<1>5. CASE bstate' = t
  <2>1. Wanting = irqq /\ Shape(mainq, irqq, Finished, s, count)
    BY <1>1, CalmFacts DEF Wanting, AgreeInv
  <2>2. Shape(mainq, << >>, Len(mainq), t, count)
    BY <2>1, CalmFacts, ShapeCancelled
  <2>3. t \in States
    BY CalmFacts DEF States
  <2>4. \A b \in Range(irqq) : s[b] \in {"QUEUED", "ACTIVE"} /\ b \in 1 .. count /\ b \in Buffers
    BY <2>1, CalmFacts, ShapeParts
  <2>5. \A b \in Buffers : t[b] = IF b \in Range(irqq) THEN "ERROR" ELSE s[b]
    OBVIOUS
  <2>6. \A b \in 1 .. count : b \in Buffers
    BY CalmFacts
  <2>7. Held' = Held \cup Range(irqq)
    BY <1>1, <1>5, <2>4, <2>5, <2>6 DEF Held
  <2>8. Done(t, 0) = Done(s, 0)
    BY <2>4, <2>5 DEF Done
  <2> HIDE DEF s, t
  <2>9. Kept(mainq, Wants(t, 0)) = << >>
    BY <2>2, <2>3, CalmFacts, EmptySeq, WantsOfShape
  <2>10. Waiting' = << >> /\ Filled' = Filled
    BY <1>1, <1>3, <1>5, <2>8, <2>9, ListsAre DEF s
  <2> QED
    BY <1>1, <2>1, <2>7, <2>10, WaitingIs
<1> QED
  BY <1>2, <1>4, <1>5

(* The first buffer that waits is filled: s are the states before that.    *)
LEMMA FillOfShape ==
  ASSUME Calm, NEW s \in States, NEW k, Shape(mainq, irqq, k, s, count),
         irqq # << >>, bstate' = [s EXCEPT ![irqq[1]] = "DONE"], mainq' = mainq, Dropped' = 0,
         Waiting = Kept(mainq, Wants(s, 0)), Filled = Kept(mainq, Done(s, 0))
  PROVE  /\ Waiting # << >> /\ Waiting' = Tail(Waiting)
         /\ Filled' = Append(Filled, Head(Waiting))
<1> DEFINE t == [s EXCEPT ![irqq[1]] = "DONE"]
<1>1. mainq \in Seq(Buffers) /\ irqq \in Seq(Buffers) /\ Tail(irqq) \in Seq(Buffers)
  BY CalmFacts, HeadTailProperties
<1>2. t \in States
  BY DEF States
<1>3. Shape(mainq, Tail(irqq), k + 1, t, count)
  BY <1>1, ShapeFinished
<1> HIDE DEF t
<1>4. Kept(mainq, Wants(t, 0)) = Tail(irqq)
  BY <1>1, <1>2, <1>3, WantsOfShape
<1>5. Kept(mainq, Done(t, 0)) = Append(Kept(mainq, Done(s, 0)), Head(irqq))
  BY <1>1, <1>2, DoneOfShape DEF t
<1>6. Kept(mainq, Wants(s, 0)) = irqq
  BY <1>1, WantsOfShape
<1>7. bstate' = t
  BY DEF t
<1>8. Waiting' = Kept(mainq, Wants(t, 0)) /\ Filled' = Kept(mainq, Done(t, 0))
  <2>1. /\ Waiting' = Kept(mainq', Wants(bstate', Dropped'))
        /\ Filled' = Kept(mainq', Done(bstate', Dropped'))
    BY ListsAre, Zenon
  <2> QED
    BY <1>7, <2>1, Zenon
<1>9. Waiting = irqq
  BY <1>6, Zenon
<1>10. Waiting' = Tail(Waiting) /\ Filled' = Append(Filled, Head(Waiting))
  BY <1>4, <1>5, <1>8, <1>9, Zenon
<1> QED
  BY <1>9, <1>10

(* What the handler finds when a packet is for a buffer.                   *)
LEMMA FillsFirst ==
  ASSUME Calm, h = "packet", hBuf # 0
  PROVE  /\ irqq # << >> /\ hBuf = irqq[1] /\ Shape(mainq, irqq, Finished, bstate, count)
         /\ Dropped = 0 /\ bstate[hBuf] \in {"QUEUED", "ACTIVE"} /\ hBuf \in Buffers
<1>1. irqq # << >> /\ hBuf = Head(irqq) /\ hBuf = irqq[1]
  BY CalmFacts, Lengths DEF FillInv
<1>2. Wanting = irqq /\ Shape(mainq, irqq, Finished, bstate, count) /\ Dropped = 0
  BY CalmFacts DEF Wanting, AgreeInv, Dropped
<1>3. hBuf \in Range(irqq)
  BY <1>1, CalmFacts, RangeTail
<1>4. bstate[hBuf] \in {"QUEUED", "ACTIVE"}
  BY <1>2, <1>3, CalmFacts, ShapeParts
<1>5. hBuf \in Buffers
  BY CalmFacts DEF TypeOK
<1> QED
  BY <1>1, <1>2, <1>4, <1>5

(* The FID toggles in a buffer that will not be put back: it is filled.    *)
LEMMA DoneIsFill ==
  ASSUME Calm, h = "packet", hBuf # 0, h' = "next",
         bstate' = [bstate EXCEPT ![hBuf] = "DONE"], UNCHANGED <<mainq, count>>
  PROVE  /\ Waiting # << >> /\ Waiting' = Tail(Waiting)
         /\ Filled' = Append(Filled, Head(Waiting)) /\ Held' = Held
<1>1. /\ irqq # << >> /\ hBuf = irqq[1] /\ Shape(mainq, irqq, Finished, bstate, count)
      /\ Dropped = 0 /\ bstate[hBuf] \in {"QUEUED", "ACTIVE"} /\ hBuf \in Buffers
  BY FillsFirst
<1>2. bstate \in States
  BY CalmFacts
<1>3. Dropped' = 0
  BY DEF Dropped
<1>4. Waiting = Kept(mainq, Wants(bstate, 0)) /\ Filled = Kept(mainq, Done(bstate, 0))
  BY <1>1, ListsAre
<1>5. bstate' = [bstate EXCEPT ![irqq[1]] = "DONE"] /\ mainq' = mainq
  BY <1>1
<1>6. Held' = Held
  <2>1. bstate'[hBuf] = "DONE" /\ \A a \in Buffers : a # hBuf => bstate'[a] = bstate[a]
    BY <1>1, <1>2 DEF States
  <2>2. \A a \in 1 .. count : a \in Buffers
    BY CalmFacts
  <2> QED
    BY <1>1, <2>1, <2>2 DEF Held
<1> QED
  BY <1>1, <1>2, <1>3, <1>4, <1>5, <1>6, FillOfShape

(* The handler makes the buffer DONE and is not through with it: it waits. *)
LEMMA DoneIsNothing ==
  ASSUME Calm, h = "packet", hBuf # 0, h' \in {"eof", "look", "drop"},
         bstate' = [bstate EXCEPT ![hBuf] = "DONE"], UNCHANGED <<mainq, count, hBuf>>
  PROVE  UNCHANGED <<Held, Waiting, Filled>>
<1> DEFINE s == bstate
           t == [bstate EXCEPT ![hBuf] = "DONE"]
<1>1. Dropped = 0 /\ s[hBuf] \in {"QUEUED", "ACTIVE"} /\ hBuf \in Buffers
  BY FillsFirst
<1>2. t[hBuf] = "DONE" /\ \A a \in Buffers : a # hBuf => t[a] = s[a]
  BY <1>1, CalmFacts DEF States
<1>3. \A a \in 1 .. count : a \in Buffers
  BY CalmFacts
<1>4. Held' = Held
  BY <1>1, <1>2, <1>3 DEF Held
<1>5. Dropped' = hBuf
  BY DEF Dropped
<1>6. Wants(t, hBuf) = Wants(s, 0) /\ Done(t, hBuf) = Done(s, 0)
  BY <1>1, <1>2, Numbers DEF Wants, Done
<1> HIDE DEF s
<1> QED
  BY <1>1, <1>4, <1>5, <1>6, ListsAre DEF s

(* It looks at the state again and leaves the buffer DONE: it is filled.   *)
LEMMA LookIsFill ==
  ASSUME Calm, Look, h' = "next"
  PROVE  /\ Waiting # << >> /\ Waiting' = Tail(Waiting)
         /\ Filled' = Append(Filled, Head(Waiting)) /\ Held' = Held
<1> DEFINE s == [bstate EXCEPT ![hBuf] = "QUEUED"]
<1>1. /\ h = "look" /\ UNCHANGED <<bstate, mainq, count>>
  BY DEF Look, bufVars
<1>2. /\ hBuf \in Buffers /\ bstate[hBuf] = "DONE" /\ irqq # << >> /\ hBuf = irqq[1]
      /\ bstate \in States /\ irqq \in Seq(Buffers) /\ mainq \in Seq(Buffers)
  BY <1>1, CalmFacts, Lengths DEF StreamInv, FillInv, AgreeInv, TypeOK
<1>3. s \in States /\ s[hBuf] = "QUEUED" /\ \A a \in Buffers : a # hBuf => s[a] = bstate[a]
  BY <1>2 DEF States
<1>4. Shape(mainq, irqq, Finished - 1, s, count)
  <2>1. Wanting = Tail(irqq) /\ Finished > 0 /\ hBuf = mainq[Finished]
    BY <1>1, <1>2, CalmFacts DEF Wanting, AgreeInv
  <2> QED
    BY <1>2, <2>1, CalmFacts, ShapePutBack DEF AgreeInv, LineInv
<1>5. bstate' = [s EXCEPT ![irqq[1]] = "DONE"]
  BY <1>1, <1>2 DEF States
<1>6. Dropped = hBuf /\ Dropped' = 0
  BY <1>1 DEF Dropped
<1>7. Wants(bstate, hBuf) = Wants(s, 0) /\ Done(bstate, hBuf) = Done(s, 0)
  BY <1>2, <1>3, Numbers DEF Wants, Done
<1>8. Held' = Held
  BY <1>1 DEF Held
<1> HIDE DEF s
<1>9. Waiting = Kept(mainq, Wants(s, 0)) /\ Filled = Kept(mainq, Done(s, 0))
  BY <1>6, <1>7, ListsAre
<1> QED
  BY <1>1, <1>2, <1>3, <1>4, <1>5, <1>6, <1>8, <1>9, FillOfShape

(* The handler puts the buffer back: it has waited all the time.           *)
LEMMA DropsIsNothing ==
  ASSUME Calm, NextBufferDrops
  PROVE  UNCHANGED <<Held, Waiting, Filled>>
<1> DEFINE s == bstate
           t == [bstate EXCEPT ![hBuf] = "QUEUED"]
<1>1. h = "drop" /\ h' = "packet" /\ bstate' = t /\ UNCHANGED <<mainq, count>>
  BY DEF NextBufferDrops
<1>2. hBuf \in Buffers /\ s[hBuf] = "DONE"
  BY <1>1, CalmFacts DEF StreamInv, AgreeInv, TypeOK
<1>3. t[hBuf] = "QUEUED" /\ \A a \in Buffers : a # hBuf => t[a] = s[a]
  BY <1>2, CalmFacts DEF States
<1>4. Dropped = hBuf /\ Dropped' = 0
  BY <1>1 DEF Dropped
<1>5. Wants(t, 0) = Wants(s, hBuf) /\ Done(t, 0) = Done(s, hBuf)
  BY <1>2, <1>3, Numbers DEF Wants, Done
<1>6. \A a \in 1 .. count : a \in Buffers
  BY CalmFacts
<1>7. Held' = Held
  BY <1>1, <1>2, <1>3, <1>6 DEF Held
<1> HIDE DEF s, t
<1> QED
  BY <1>1, <1>4, <1>5, <1>7, ListsAre DEF s

(* The handler copies data into the first buffer that waits.               *)
LEMMA ActiveIsNothing ==
  ASSUME Calm, h = "packet", h' = "packet", hBuf # 0,
         bstate' = [bstate EXCEPT ![hBuf] = "ACTIVE"], UNCHANGED <<mainq, count, hBuf>>
  PROVE  UNCHANGED <<Held, Waiting, Filled>>
<1> DEFINE s == bstate
           t == [bstate EXCEPT ![hBuf] = "ACTIVE"]
<1>1. irqq # << >> /\ hBuf \in Range(irqq)
  BY CalmFacts, RangeTail DEF FillInv
<1>2. Wanting = irqq /\ Shape(mainq, irqq, Finished, s, count) /\ Dropped = 0 /\ Dropped' = 0
  BY CalmFacts DEF Wanting, AgreeInv, Dropped
<1>3. s[hBuf] \in {"QUEUED", "ACTIVE"} /\ hBuf \in Buffers
  BY <1>1, <1>2, CalmFacts, ShapeParts
<1>4. t[hBuf] = "ACTIVE" /\ \A a \in Buffers : a # hBuf => t[a] = s[a]
  BY <1>3, CalmFacts DEF States
<1>5. \A a \in 1 .. count : a \in Buffers
  BY CalmFacts
<1>6. Held' = Held
  BY <1>3, <1>4, <1>5 DEF Held
<1>7. Wants(t, 0) = Wants(s, 0) /\ Done(t, 0) = Done(s, 0)
  BY <1>3, <1>4 DEF Wants, Done
<1> HIDE DEF s, t
<1> QED
  BY <1>2, <1>6, <1>7, ListsAre DEF s, t

LEMMA CaptureIoctl ==
  ASSUME Calm, Ioctl, ~overtaken', ~corrupt'
  PROVE  [Capture!Next]_(Capture!cvars)
<1>1. ~(overtaken \/ corrupt) /\ (overtaken' \/ corrupt') = (overtaken \/ corrupt)
  <2>1. /\ overtaken \in BOOLEAN /\ corrupt \in BOOLEAN
    BY CalmFacts DEF TypeOK
  <2> QED
    BY <2>1, Zenon DEF Calm
<1>2. ASSUME NEW n \in 0 .. NBuf, Reqbufs(n) PROVE Capture!Next
  <2>1. on' = on
    BY <1>2 DEF Reqbufs, flagVars
  <2>2. Capture!Reset(n)
    BY <1>1, <1>2, <2>1, ReqbufsIsReset DEF Capture!Reset
  <2> QED
    BY <1>1, <2>2 DEF Capture!Next
<1>3. ASSUME NEW b \in Buffers, Qbuf(b) PROVE Capture!Next
  <2>1. on' = on
    BY <1>3 DEF Qbuf, flagVars
  <2>2. Capture!Queue(b) /\ b \in 1 .. NBuf
    BY <1>1, <1>3, <2>1, QbufIsQueue DEF Capture!Queue, Buffers
  <2> QED
    BY <1>1, <2>2 DEF Capture!Next
<1>4. ASSUME DqbufGive PROVE [Capture!Next]_(Capture!cvars)
  <2>1. on' = on
    BY <1>4 DEF DqbufGive, flagVars
  <2>2. CASE UNCHANGED <<Held, Waiting, Filled>>
    BY <1>1, <2>1, <2>2 DEF Capture!cvars
  <2>3. CASE /\ Filled # << >> /\ Filled' = Tail(Filled) /\ Waiting' = Waiting
             /\ Held' = Held \cup {Head(Filled)}
    <3>1. Capture!Dequeue
      BY <1>1, <2>1, <2>3 DEF Capture!Dequeue
    <3> QED
      BY <1>1, <3>1 DEF Capture!Next
  <2> QED
    BY <1>4, <2>2, <2>3, DqbufGiveIsDequeue
<1>5. ASSUME UNCHANGED <<count, bstate, mainq, on, h, hBuf>> PROVE UNCHANGED Capture!cvars
  <2>1. Dropped' = Dropped
    BY <1>5 DEF Dropped
  <2> QED
    BY <1>1, <1>5, <2>1, CaptureFrame DEF Capture!cvars
<1>6. CASE Mmap
  BY <1>5, <1>6 DEF Mmap, bufVars, flagVars, hVars
<1>7. CASE Munmap
  BY <1>5, <1>7 DEF Munmap, bufVars, flagVars, hVars
<1>8. CASE Dqbuf
  BY <1>5, <1>8 DEF Dqbuf, bufVars, flagVars, hVars
<1>9. CASE DqbufSleep
  BY <1>5, <1>9 DEF DqbufSleep, bufVars, flagVars, hVars
<1>10. CASE DqbufInterrupted
  BY <1>5, <1>10 DEF DqbufInterrupted, bufVars, flagVars, hVars
<1>11. CASE DqbufTake
  BY <1>5, <1>11 DEF DqbufTake, bufVars, flagVars, hVars
<1> QED
  BY <1>2, <1>3, <1>4, <1>6, <1>7, <1>8, <1>9, <1>10, <1>11 DEF Ioctl

LEMMA CaptureControl ==
  ASSUME Calm, Control, ~overtaken', ~corrupt'
  PROVE  [Capture!Next]_(Capture!cvars)
<1>1. ~(overtaken \/ corrupt) /\ (overtaken' \/ corrupt') = (overtaken \/ corrupt)
  <2>1. /\ overtaken \in BOOLEAN /\ corrupt \in BOOLEAN
    BY CalmFacts DEF TypeOK
  <2> QED
    BY <2>1, Zenon DEF Calm
<1>2. ASSUME UNCHANGED <<count, bstate, mainq, h, hBuf>>
      PROVE  UNCHANGED <<Held, Waiting, Filled>>
  <2>1. Dropped' = Dropped
    BY <1>2 DEF Dropped
  <2> QED
    BY <1>2, <2>1, CaptureFrame
<1>3. ASSUME UNCHANGED <<count, bstate, mainq, on, h, hBuf>> PROVE UNCHANGED Capture!cvars
  BY <1>1, <1>2, <1>3 DEF Capture!cvars
<1>4. CASE Streamon
  <2>1. UNCHANGED <<count, bstate, mainq, h, hBuf>> /\ on' \in BOOLEAN
    BY <1>4 DEF Streamon, bufVars, hVars
  <2>2. Capture!Switch
    BY <1>1, <1>2, <2>1 DEF Capture!Switch
  <2> QED
    BY <1>1, <2>2 DEF Capture!Next
<1>5. CASE Disable
  <2>1. /\ Waiting' = << >> /\ Filled' = << >> /\ on' = FALSE
        /\ \/ Held' = Held \cup Range(Waiting) \cup Range(Filled)
           \/ Held' = 1 .. 0
    BY <1>5, DisableIsCancel
  <2>2. CASE Held' = Held \cup Range(Waiting) \cup Range(Filled)
    <3>1. Capture!Cancel
      BY <1>1, <2>1, <2>2 DEF Capture!Cancel, Capture!Range, Range
    <3> QED
      BY <1>1, <3>1 DEF Capture!Next
  <2>3. CASE Held' = 1 .. 0
    <3>1. 0 \in 0 .. NBuf
      BY Numbers
    <3>2. Capture!Reset(0)
      BY <1>1, <2>1, <2>3, Zenon DEF Capture!Reset
    <3> QED
      BY <1>1, <3>1, <3>2 DEF Capture!Next
  <2> QED
    BY <2>1, <2>2, <2>3
<1>6. CASE InitVideo
  BY <1>3, <1>6 DEF InitVideo, bufVars, flagVars, hVars
<1>7. CASE \E n \in 0 .. NUrb - 1 : InitVideoFails(n)
  BY <1>3, <1>7 DEF InitVideoFails, bufVars, flagVars, hVars
<1>8. CASE \E n \in 0 .. NUrb - 1 : ResumeFails(n)
  BY <1>3, <1>8 DEF ResumeFails, bufVars, flagVars, hVars
<1>9. CASE Streamoff
  BY <1>3, <1>9 DEF Streamoff, bufVars, flagVars, hVars
<1>10. CASE Release
  BY <1>3, <1>10 DEF Release, bufVars, flagVars, hVars
<1>11. CASE Open
  BY <1>3, <1>11 DEF Open, bufVars, flagVars, hVars
<1>12. CASE Suspend
  BY <1>3, <1>12 DEF Suspend, bufVars, flagVars, hVars
<1>13. CASE Resume
  BY <1>3, <1>13 DEF Resume, bufVars, flagVars, hVars
<1>14. CASE ThawUnplugged
  BY <1>3, <1>14 DEF ThawUnplugged, bufVars, flagVars, hVars
<1>15. CASE UninitDone
  BY <1>3, <1>15 DEF UninitDone, bufVars, flagVars, hVars
<1> QED
  BY <1>4, <1>5, <1>6, <1>7, <1>8, <1>9, <1>10, <1>11, <1>12, <1>13, <1>14, <1>15 DEF Control

LEMMA CaptureHandler ==
  ASSUME Calm, Handler, ~overtaken', ~corrupt'
  PROVE  [Capture!Next]_(Capture!cvars)
<1>1. ~(overtaken \/ corrupt) /\ (overtaken' \/ corrupt') = (overtaken \/ corrupt)
  <2>1. /\ overtaken \in BOOLEAN /\ corrupt \in BOOLEAN
    BY CalmFacts DEF TypeOK
  <2> QED
    BY <2>1, Zenon DEF Calm
<1>2. ASSUME UNCHANGED <<count, bstate, mainq, on>>, Dropped' = Dropped
      PROVE  UNCHANGED Capture!cvars
  BY <1>1, <1>2, CaptureFrame DEF Capture!cvars
<1>z. ASSUME UNCHANGED <<count, bstate, mainq, on>>, h \in {"packet", "next"}, h' \in {"packet", "idle"}
      PROVE  UNCHANGED Capture!cvars
  <2>1. Dropped' = Dropped
    BY <1>z DEF Dropped
  <2> QED
    BY <1>2, <1>z, <2>1
<1>3. ASSUME /\ Waiting # << >> /\ Waiting' = Tail(Waiting)
             /\ Filled' = Append(Filled, Head(Waiting)) /\ Held' = Held,
             h # "idle", on' = on
      PROVE  Capture!Next
  <2>1. on
    BY <1>3, CalmFacts DEF StreamInv, Killed
  <2>2. Capture!Fill
    BY <1>1, <1>3, <2>1 DEF Capture!Fill
  <2> QED
    BY <1>1, <2>2 DEF Capture!Next
<1>4. CASE Skip
  BY <1>z, <1>4 DEF Skip, bufVars, flagVars
<1>5. CASE \E fid \in {0, 1} : DecodeNoBuffer(fid)
  BY <1>z, <1>5 DEF DecodeNoBuffer, Decoding, bufVars, flagVars
<1>6. CASE \E fid \in {0, 1} : DecodeOutOfSync(fid)
  BY <1>z, <1>6 DEF DecodeOutOfSync, Decoding, bufVars, flagVars
<1>7. CASE \E fid \in {0, 1} : DecodeToggled(fid)
  <2>1. h = "packet" /\ hBuf # 0 /\ bstate' = [bstate EXCEPT ![hBuf] = "DONE"]
    BY <1>7 DEF DecodeToggled, Decoding
  <2>2. h' \in {"drop", "next"} /\ UNCHANGED <<mainq, count, hBuf, on>>
    BY <1>7 DEF DecodeToggled, AfterDone, flagVars
  <2>3. CASE h' = "next"
    BY <1>3, <2>1, <2>2, <2>3, DoneIsFill
  <2>4. CASE h' = "drop"
    BY <1>1, <2>1, <2>2, <2>4, DoneIsNothing DEF Capture!cvars
  <2> QED
    BY <2>2, <2>3, <2>4
<1>8. CASE \E fid \in {0, 1}, len \in 0 .. MaxPayload, eof \in BOOLEAN :
             DecodeStore(fid, len, eof)
  <2>1. h = "packet" /\ hBuf # 0 /\ UNCHANGED <<mainq, count, hBuf, on>>
    BY <1>8 DEF DecodeStore, Decoding, flagVars
  <2>2. \/ bstate' = [bstate EXCEPT ![hBuf] = "DONE"] /\ h' \in {"eof", "look"}
        \/ bstate' = [bstate EXCEPT ![hBuf] = "ACTIVE"] /\ h' = "packet"
    BY <1>8, StoreStates
  <2>3. CASE bstate' = [bstate EXCEPT ![hBuf] = "DONE"] /\ h' \in {"eof", "look"}
    BY <1>1, <2>1, <2>3, DoneIsNothing DEF Capture!cvars
  <2>4. CASE bstate' = [bstate EXCEPT ![hBuf] = "ACTIVE"] /\ h' = "packet"
    BY <1>1, <2>1, <2>4, ActiveIsNothing DEF Capture!cvars
  <2> QED
    BY <2>2, <2>3, <2>4
<1>9. CASE NextBufferDrops
  <2>1. on' = on
    BY <1>9 DEF NextBufferDrops, flagVars
  <2> QED
    BY <1>1, <1>9, <2>1, DropsIsNothing DEF Capture!cvars
<1>10. CASE NextBuffer
  BY <1>z, <1>10 DEF NextBuffer, flagVars
<1>11. CASE Resubmit
  BY <1>z, <1>11 DEF Resubmit, bufVars, flagVars
<1>12. CASE DecodeEnd
  <2>1. /\ h = "eof" /\ h' = "look" /\ bstate' = [bstate EXCEPT ![hBuf] = "DONE"]
        /\ UNCHANGED <<count, mainq, on, hBuf>>
    BY <1>12 DEF DecodeEnd, flagVars
  <2>2. bstate[hBuf] = "DONE"
    BY <2>1, CalmFacts DEF AgreeInv
  <2>3. bstate' = bstate
    BY <2>1, <2>2, CalmFacts DEF States
  <2>4. Dropped' = Dropped
    BY <2>1 DEF Dropped
  <2> QED
    BY <1>2, <2>1, <2>3, <2>4
<1>13. CASE Look
  <2>1. h = "look" /\ UNCHANGED <<count, bstate, mainq, on, hBuf>>
    BY <1>13 DEF Look, bufVars, flagVars
  <2>2. bstate[hBuf] = "DONE"
    BY <2>1, CalmFacts DEF AgreeInv
  <2>3. h' \in {"drop", "next"}
    BY <1>13, <2>2 DEF Look, AfterDone
  <2>4. CASE h' = "next"
    BY <1>3, <1>13, <2>1, <2>4, LookIsFill
  <2>5. CASE h' = "drop"
    <3>1. Dropped' = Dropped
      BY <2>1, <2>5 DEF Dropped
    <3> QED
      BY <1>2, <2>1, <3>1
  <2> QED
    BY <2>3, <2>4, <2>5
<1> QED
  BY <1>4, <1>5, <1>6, <1>7, <1>8, <1>9, <1>10, <1>11, <1>12, <1>13 DEF Handler, Decode

LEMMA CaptureUsb ==
  ASSUME Calm, Usb, ~overtaken', ~corrupt'
  PROVE  [Capture!Next]_(Capture!cvars)
<1>1. ~(overtaken \/ corrupt) /\ (overtaken' \/ corrupt') = (overtaken \/ corrupt)
  <2>1. /\ overtaken \in BOOLEAN /\ corrupt \in BOOLEAN
    BY CalmFacts DEF TypeOK
  <2> QED
    BY <2>1, Zenon DEF Calm
<1>2. CASE Unplug
  <2>1. UNCHANGED <<count, bstate, mainq, on, h, hBuf>>
    BY <1>2 DEF Unplug, bufVars, flagVars, hVars
  <2>2. Dropped' = Dropped
    BY <2>1 DEF Dropped
  <2> QED
    BY <1>1, <2>1, <2>2, CaptureFrame DEF Capture!cvars
<1>3. CASE Complete
  <2>1. UNCHANGED <<count, bstate, mainq, on>> /\ h = "idle" /\ h' = "packet"
    BY <1>3 DEF Complete, bufVars, flagVars
  <2>2. Dropped' = Dropped
    BY <2>1 DEF Dropped
  <2> QED
    BY <1>1, <2>1, <2>2, CaptureFrame DEF Capture!cvars
<1>4. ASSUME NEW shutdown \in BOOLEAN, CompleteStatus(shutdown)
      PROVE  [Capture!Next]_(Capture!cvars)
  <2>1. on' = on
    BY <1>4 DEF CompleteStatus
  <2>2. CASE UNCHANGED <<Held, Waiting, Filled>>
    BY <1>1, <2>1, <2>2 DEF Capture!cvars
  <2>3. CASE Held' = Held \cup Range(Waiting) /\ Waiting' = << >> /\ Filled' = Filled
    <3>1. Capture!Discard
      BY <1>1, <2>1, <2>3 DEF Capture!Discard, Capture!Range, Range
    <3> QED
      BY <1>1, <3>1 DEF Capture!Next
  <2> QED
    BY <1>4, <2>2, <2>3, CompleteIsDiscard
<1> QED
  BY <1>2, <1>3, <1>4 DEF Usb

LEMMA CaptureNext ==
  ASSUME IInv, [Next]_vars
  PROVE  [Capture!Next]_(Capture!cvars)
<1>1. CASE overtaken' \/ corrupt'
  BY <1>1 DEF Capture!Next, Capture!Break
<1>2. CASE UNCHANGED vars
  <2>1. UNCHANGED <<count, bstate, mainq, on, h, hBuf, overtaken, corrupt>>
    BY <1>2 DEF vars, bufVars, flagVars, hVars
  <2>2. Dropped' = Dropped
    BY <2>1 DEF Dropped
  <2> QED
    BY <2>1, <2>2, CaptureFrame DEF Capture!cvars
<1>3. CASE Next /\ ~overtaken' /\ ~corrupt'
  <2>1. Calm
    BY <1>3, Overtaking DEF Calm, Next
  <2> QED
    BY <1>3, <2>1, CaptureIoctl, CaptureControl, CaptureHandler, CaptureUsb DEF Next
<1> QED
  BY <1>1, <1>2, <1>3

(* The driver of Linux does what CaptureQueue promises.                    *)
THEOREM Refinement == Spec => ImplementsCapture
<1>1. IInv /\ [Next]_vars => [Capture!Next]_(Capture!cvars)
  BY CaptureNext
<1> QED
  BY <1>1, CaptureInit, Invariance, PTL DEF Spec, ImplementsCapture, Capture!Spec

=============================================================================
