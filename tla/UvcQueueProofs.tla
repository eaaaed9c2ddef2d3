--------------------------- MODULE UvcQueueProofs ---------------------------
(***************************************************************************)
(* Theorems about the buffer queues of the UVC driver: the copy leaves a   *)
(* buffer in one interleaving only, which is named; STREAMOFF leaves       *)
(* nothing running behind the application; irqqueue, written link by link  *)
(* from both sides, stays the list of the buffers that wait, so that no    *)
(* pointer leads nowhere; and the driver implements CaptureQueue.          *)
(***************************************************************************)
EXTENDS UvcRefinement, ListProofs

(* While the handler uses a buffer it has one.                             *)
Copying == {"packet", "copy", "add", "store", "tests"}
Working == Copying \cup {"unlink_prev", "unlink_next"}

HandlerInv == (h \in Working /\ ~fault) => hBuf \in Buffers

(* The two reads of bytesused agree unless QBUF came between them; what is *)
(* copied fits by the second one, and QBUF only ever makes more room.      *)
CopyInv ==
  ~fault =>
    /\ (h = "copy" /\ ~stale) => hNum = used[hBuf]
    /\ h = "add" => hNum + used[hBuf] <= Length
    /\ h = "store" => hNum <= Length

(* The URBs: never more than urb[] has room for; none is out of reach      *)
(* unless one was lost; and then none without a stream.                    *)
UrbInv ==
  /\ LiveNow <= NUrb /\ OrphanNow <= MaxOrphans
  /\ ~orphaned => orphans = 0 /\ (h # "idle" => hKind = "live")
  /\ StoppedIsQuiet

IInv == TypeOK /\ HandlerInv /\ UrbInv /\ CopyInv

-----------------------------------------------------------------------------
(* Type correctness.                                                       *)

LEMMA NodeFacts ==
  /\ Irqq \in Nodes /\ Nil \in Nodes /\ Buffers \subseteq Nodes
  /\ Nil \notin Buffers /\ Irqq \notin Buffers /\ Nil # Irqq
  /\ NBuf \in Nat /\ NUrb \in Nat /\ NPkt \in Nat /\ Length \in Nat
  /\ MaxPayload \in Nat /\ MaxOrphans \in Nat
  BY ConstantsAssumption DEF Irqq, Nil, Buffers, Nodes

(* The lists REQBUFS leaves behind have links of the right type.           *)
LEMMA EmptyLinks ==
  /\ NoLinks \in [{Irqq} \cup Buffers -> Nodes]
  /\ EmptyList \in [{Irqq} \cup Buffers -> Nodes]
  BY NodeFacts DEF NoLinks, EmptyList

(* The parts of TypeOK, each about what one group of actions changes.      *)
BufType == /\ count \in 0 .. NBuf
           /\ bstate \in [Buffers -> {"IDLE", "QUEUED", "DONE"}]
           /\ used \in [Buffers -> 0 .. Length] /\ mainqueue \in Seq(Buffers)
LinkType == /\ next \in [{Irqq} \cup Buffers -> Nodes]
            /\ prev \in [{Irqq} \cup Buffers -> Nodes]
OpType == /\ op \in {"none", "read_tail", "link_head", "link_new", "link_tail"}
          /\ opBuf \in Nodes /\ opPrev \in Nodes
UrbType == live \in 0 .. NUrb /\ orphans \in 0 .. MaxOrphans
PhaseType == /\ h \in {"idle", "packet", "copy", "add", "store", "tests",
                       "unlink_prev", "unlink_next", "resubmit"}
             /\ hBuf \in Nodes /\ hPkt \in 0 .. NPkt /\ hKind \in Kinds
             /\ hLinks \in Nodes \X Nodes
DataType == hNum \in Nat /\ hEnd \in SUBSET {"full", "eof"} /\ stale \in BOOLEAN
HType == PhaseType /\ DataType
FlagType == /\ on \in BOOLEAN /\ fault \in BOOLEAN
            /\ raced \in BOOLEAN /\ orphaned \in BOOLEAN

LEMMA TypeParts == TypeOK <=> BufType /\ LinkType /\ OpType /\ UrbType /\ HType /\ FlagType
  BY DEF TypeOK, BufType, LinkType, OpType, UrbType, HType, PhaseType,
         DataType, FlagType

LEMMA TypePartsNext ==
  BufType' /\ LinkType' /\ OpType' /\ UrbType' /\ HType' /\ FlagType' => TypeOK'
  BY DEF TypeOK, BufType, LinkType, OpType, UrbType, HType, PhaseType, DataType, FlagType

(* Counting the URBs, those of urb[] and the others.                       *)
LEMMA UrbCounts ==
  ASSUME UrbType, HType
  PROVE  /\ LiveNow \in Nat /\ live <= LiveNow
         /\ OrphanNow \in Nat /\ orphans <= OrphanNow
  BY NodeFacts DEF UrbType, HType, PhaseType, DataType, LiveNow, OrphanNow

(* Overwriting urb[] moves URBs to the others, within the bound.           *)
LEMMA LosingUrbs ==
  ASSUME UrbType, HType, FlagType, LoseUrbs
  PROVE  UrbType' /\ hKind' \in Kinds /\ orphaned' \in BOOLEAN
<1>1. orphans + live \in 0 .. MaxOrphans
  BY UrbCounts, NodeFacts DEF LoseUrbs, UrbType
<1> QED
  BY <1>1, NodeFacts DEF LoseUrbs, UrbType, HType, PhaseType, DataType, FlagType, Kinds

(* Emptying the queue, whatever the list heads become.                     *)
LEMMA ZeroingTypes ==
  ASSUME TypeOK, ZeroQueue, count' \in 0 .. NBuf, LinkType'
  PROVE  TypeOK'
<1>1. UrbType' /\ hKind' \in Kinds /\ orphaned' \in BOOLEAN
  BY TypeParts, LosingUrbs DEF ZeroQueue
<1>2. BufType'
  BY TypeParts, NodeFacts DEF ZeroQueue, BufType
<1>3. OpType' /\ HType' /\ FlagType'
  BY TypeParts, <1>1 DEF ZeroQueue, OpType, HType, PhaseType, DataType, FlagType, opVars
<1> QED
  BY <1>1, <1>2, <1>3, TypePartsNext

LEMMA IoctlTypes ==
  ASSUME TypeOK, Ioctl
  PROVE  TypeOK'
<1> USE DEF NoIoctl, Running
<1>0. BufType /\ LinkType /\ OpType /\ UrbType /\ HType /\ FlagType
  BY TypeParts
<1>1. ASSUME NEW n \in Buffers, Reqbufs(n) PROVE TypeOK'
  BY <1>1, ZeroingTypes, EmptyLinks, NodeFacts DEF Reqbufs, LinkType, Buffers
<1>2. CASE ReqbufsNone
  BY <1>2, ZeroingTypes, EmptyLinks, NodeFacts DEF ReqbufsNone, LinkType
<1>3. ASSUME NEW b \in Buffers, Qbuf(b) PROVE TypeOK'
  <2>1. BufType'
    BY <1>0, <1>3, NodeFacts DEF Qbuf, BufType
  <2>2. LinkType' /\ OpType' /\ UrbType' /\ HType' /\ FlagType'
    BY <1>0, <1>3, NodeFacts DEF Qbuf, LinkType, OpType, UrbType, HType, PhaseType, DataType,
       FlagType, irqLinks, urbVars, hVars
  <2> QED
    BY <2>1, <2>2, TypePartsNext
<1>4. CASE ReadTail
  <2>1. OpType'
    BY <1>0, <1>4, NodeFacts DEF ReadTail, OpType, LinkType
  <2>2. FlagType'
    BY <1>0, <1>4 DEF ReadTail, FlagType, Overlap
  <2>3. BufType' /\ LinkType' /\ UrbType' /\ HType'
    BY <1>0, <1>4 DEF ReadTail, BufType, LinkType, UrbType, HType, PhaseType, DataType, bufVars,
       irqLinks, urbVars, hVars
  <2> QED
    BY <2>1, <2>2, <2>3, TypePartsNext
<1>5. CASE LinkHead \/ LinkNew \/ LinkTail
  <2>1. LinkType'
    BY <1>0, <1>5, NodeFacts DEF LinkHead, LinkNew, LinkTail, OpType, LinkType
  <2>2. OpType'
    BY <1>0, <1>5, NodeFacts DEF LinkHead, LinkNew, LinkTail, OpType
  <2>3. FlagType'
    BY <1>0, <1>5 DEF LinkHead, LinkNew, LinkTail, FlagType, Overlap
  <2>4. BufType' /\ UrbType' /\ HType'
    BY <1>0, <1>5 DEF LinkHead, LinkNew, LinkTail, BufType, UrbType, HType, PhaseType, DataType,
       bufVars, urbVars, hVars
  <2> QED
    BY <2>1, <2>2, <2>3, <2>4, TypePartsNext
<1>6. CASE Dqbuf
  <2>1. BufType'
    BY <1>0, <1>6 DEF Dqbuf, BufType
  <2>2. LinkType' /\ OpType' /\ UrbType' /\ HType' /\ FlagType'
    BY <1>0, <1>6 DEF Dqbuf, LinkType, OpType, UrbType, HType, PhaseType, DataType, FlagType,
       irqLinks, opVars, urbVars, hVars
  <2> QED
    BY <2>1, <2>2, TypePartsNext
<1>7. CASE DqbufUnallocated \/ ReqbufsTooMany
  BY <1>7 DEF DqbufUnallocated, ReqbufsTooMany, TypeOK, bufVars, irqLinks, opVars, urbVars, hVars
<1>8. CASE Streamon \/ \E k \in 0 .. NUrb - 1 : StreamonFails(k)
  <2>1. UrbType'
    <3>1. CASE Streamon
      BY <1>0, <3>1, UrbCounts, NodeFacts DEF Streamon, UrbType
    <3>2. ASSUME NEW k \in 0 .. NUrb - 1, StreamonFails(k) PROVE UrbType'
      BY <1>0, <3>2, UrbCounts, NodeFacts DEF StreamonFails, UrbType
    <3> QED
      BY <1>8, <3>1, <3>2
  <2>2. HType' /\ FlagType'
    BY <1>0, <1>8 DEF Streamon, StreamonFails, HType, PhaseType, DataType, FlagType, Kinds
  <2>3. BufType' /\ LinkType' /\ OpType'
    BY <1>0, <1>8 DEF Streamon, StreamonFails, BufType, LinkType, OpType, bufVars, irqLinks, opVars
  <2> QED
    BY <2>1, <2>2, <2>3, TypePartsNext
<1>9. CASE Streamoff
  <2>1. UrbType'
    BY <1>0, <1>9, NodeFacts DEF Streamoff, UrbType
  <2>2. FlagType'
    BY <1>0, <1>9 DEF Streamoff, FlagType
  <2>3. BufType' /\ LinkType' /\ OpType' /\ HType'
    BY <1>0, <1>9 DEF Streamoff, BufType, LinkType, OpType, HType, PhaseType, DataType, bufVars,
       irqLinks, opVars, hVars
  <2> QED
    BY <2>1, <2>2, <2>3, TypePartsNext
<1> QED
  BY <1>1, <1>2, <1>3, <1>4, <1>5, <1>6, <1>7, <1>8, <1>9 DEF Ioctl, Insertion

LEMMA TakingUrb ==
  ASSUME NEW kind, UrbType, TakeUrb(kind)
  PROVE  UrbType'
  BY NodeFacts DEF TakeUrb, InFlight, UrbType

(* The copy: with bytesused in bounds the room left is not negative, and   *)
(* what is copied is at most that; behind the end it comes only to lie     *)
(* where dest was computed for a fuller buffer.                            *)
LEMMA CopyFits ==
  ASSUME BufType, HType, hBuf \in Buffers, NEW len \in 0 .. MaxPayload, NEW eof \in BOOLEAN,
         PacketCopy(len, eof)
  PROVE  /\ hNum' \in Nat /\ hNum' + used[hBuf] <= Length
         /\ hNum = used[hBuf] => hNum + hNum' <= Length /\ ~fault'
<1>1. used[hBuf] \in Nat /\ used[hBuf] <= Length /\ hNum \in Nat /\ len \in Nat
  BY NodeFacts DEF BufType, HType, PhaseType, DataType
<1>2. /\ hNum' = (IF len < Length - used[hBuf] THEN len ELSE Length - used[hBuf])
      /\ fault' = (hNum + hNum' > Length)
  BY DEF PacketCopy
<1>3. ASSUME NEW u \in Nat, u <= Length, NEW n, n = (IF len < Length - u THEN len ELSE Length - u)
      PROVE  n \in Nat /\ n + u <= Length /\ u + n <= Length /\ ~(u + n > Length)
  BY <1>1, <1>3, NodeFacts
<1>4. /\ hNum' \in Nat /\ hNum' + used[hBuf] <= Length /\ used[hBuf] + hNum' <= Length
      /\ ~(used[hBuf] + hNum' > Length)
  BY <1>1, <1>2, <1>3
<1>5. hNum = used[hBuf] => ~fault'
  <2> SUFFICES ASSUME hNum = used[hBuf] PROVE ~fault'
    OBVIOUS
  <2>1. fault' = (used[hBuf] + hNum' > Length)
    BY <1>2
  <2> QED
    BY <1>4, <2>1, Zenon
<1> QED
  BY <1>4, <1>5

(* The handler runs with a buffer while it uses one, and every URB it      *)
(* completes fits when it is submitted again: both are needed for types.   *)
LEMMA HandlerTypes ==
  ASSUME TypeOK, HandlerInv, UrbInv, CopyInv, Handler
  PROVE  TypeOK'
<1> USE DEF Running
<1>0. BufType /\ LinkType /\ OpType /\ UrbType /\ HType /\ FlagType
  BY TypeParts
<1>1. ASSUME NEW kind \in Kinds, CompleteError(kind) PROVE TypeOK'
  <2>1. UrbType'
    BY <1>0, <1>1, TakingUrb DEF CompleteError
  <2>2. BufType' /\ LinkType' /\ OpType' /\ HType' /\ FlagType'
    BY <1>0, <1>1 DEF CompleteError, BufType, LinkType, OpType, HType, PhaseType, DataType, FlagType,
                      bufVars, irqLinks, opVars, hVars
  <2> QED
    BY <2>1, <2>2, TypePartsNext
<1>2. ASSUME NEW kind \in Kinds, CompleteNoBuffer(kind) \/ CompleteFirst(kind) PROVE TypeOK'
  <2>1. UrbType'
    BY <1>0, <1>2, TakingUrb DEF CompleteNoBuffer, CompleteFirst
  <2>2. HType'
    <3>1. PhaseType'
      BY <1>0, <1>2, NodeFacts DEF CompleteNoBuffer, CompleteFirst, HType, PhaseType, LinkType
    <3>2. DataType'
      BY <1>0, <1>2 DEF CompleteNoBuffer, CompleteFirst, HType, DataType
    <3> QED
      BY <3>1, <3>2 DEF HType
  <2>3. FlagType'
    BY <1>0, <1>2 DEF CompleteNoBuffer, CompleteFirst, FlagType
  <2>4. BufType' /\ LinkType' /\ OpType'
    BY <1>0, <1>2 DEF CompleteNoBuffer, CompleteFirst, BufType, LinkType, OpType,
                      bufVars, irqLinks, opVars
  <2> QED
    BY <2>1, <2>2, <2>3, <2>4, TypePartsNext
<1>3. CASE PacketDest \/ PacketSkipped \/ PacketAdd
  <2>1. hBuf \in Buffers /\ used[hBuf] \in Nat
    BY <1>0, <1>3, NodeFacts DEF PacketDest, PacketSkipped, PacketAdd, HandlerInv, Working, Copying,
                                 BufType
  <2>3. HType'
    <3>1. PhaseType'
      BY <1>0, <1>3, NodeFacts DEF PacketDest, PacketSkipped, PacketAdd, HType, PhaseType
    <3>2. DataType'
      <4>1. hNum \in Nat /\ hEnd \in SUBSET {"full", "eof"} /\ stale \in BOOLEAN
        BY <1>0 DEF HType, DataType
      <4>2. hNum' \in Nat
        BY <1>3, <2>1, <4>1 DEF PacketDest, PacketSkipped, PacketAdd
      <4>3. UNCHANGED hEnd /\ stale' \in {stale, FALSE}
        BY <1>3 DEF PacketDest, PacketSkipped, PacketAdd
      <4> QED
        BY <4>1, <4>2, <4>3 DEF DataType
    <3> QED
      BY <3>1, <3>2 DEF HType
  <2>2. BufType' /\ LinkType' /\ OpType' /\ UrbType' /\ FlagType'
    BY <1>0, <1>3 DEF PacketDest, PacketSkipped, PacketAdd, BufType, LinkType, OpType, UrbType,
       FlagType,
                      bufVars, irqLinks, opVars, urbVars
  <2> QED
    BY <2>2, <2>3, TypePartsNext
<1>5. CASE EndOfPackets
  <2>1. HType'
    BY <1>0, <1>5, NodeFacts DEF EndOfPackets, HType, PhaseType, DataType
  <2>2. BufType' /\ LinkType' /\ OpType' /\ UrbType' /\ FlagType'
    BY <1>0, <1>5 DEF EndOfPackets, BufType, LinkType, OpType, UrbType, FlagType,
                      bufVars, irqLinks, opVars, urbVars
  <2> QED
    BY <2>1, <2>2, TypePartsNext
<1>6. CASE UnlinkPrev
  <2>0. hBuf \in Buffers /\ prev[hBuf] \in Nodes /\ next[hBuf] \in Nodes
    BY <1>0, <1>6 DEF UnlinkPrev, HandlerInv, Working, LinkType
  <2>1. LinkType'
    BY <1>0, <1>6, <2>0 DEF UnlinkPrev, LinkType
  <2>2. HType'
    BY <1>0, <1>6, <2>0 DEF UnlinkPrev, HType, PhaseType, DataType
  <2>3. FlagType'
    BY <1>0, <1>6 DEF UnlinkPrev, FlagType
  <2>4. BufType' /\ OpType' /\ UrbType'
    BY <1>0, <1>6 DEF UnlinkPrev, BufType, OpType, UrbType, bufVars, opVars, urbVars
  <2> QED
    BY <2>1, <2>2, <2>3, <2>4, TypePartsNext
<1>7. CASE UnlinkNext
  <2>1. LinkType'
    BY <1>0, <1>7, NodeFacts DEF UnlinkNext, LinkType, HType, PhaseType, DataType
  <2>2. HType'
    BY <1>0, <1>7, NodeFacts DEF UnlinkNext, HType, PhaseType, DataType
  <2>3. FlagType'
    BY <1>0, <1>7 DEF UnlinkNext, FlagType
  <2>4. BufType' /\ OpType' /\ UrbType'
    BY <1>0, <1>7 DEF UnlinkNext, BufType, OpType, UrbType, bufVars, opVars, urbVars
  <2> QED
    BY <2>1, <2>2, <2>3, <2>4, TypePartsNext
<1>8. CASE Resubmit \/ ResubmitFails
  <2>1. UrbType'
    BY <1>0, <1>8, NodeFacts DEF Resubmit, ResubmitFails, UrbType, UrbInv, LiveNow, OrphanNow,
       HType, PhaseType, DataType, Kinds, urbVars
  <2>2. BufType' /\ LinkType' /\ OpType' /\ HType' /\ FlagType'
    BY <1>0, <1>8 DEF Resubmit, ResubmitFails, BufType, LinkType, OpType, HType, PhaseType,
       DataType, FlagType,
                      bufVars, irqLinks, opVars
  <2> QED
    BY <2>1, <2>2, TypePartsNext
<1>4. ASSUME NEW len \in 0 .. MaxPayload, NEW eof \in BOOLEAN, PacketCopy(len, eof)
      PROVE  TypeOK'
  <2>1. hBuf \in Buffers
    BY <1>4 DEF PacketCopy, HandlerInv, Working, Copying
  <2>2. hNum' \in Nat
    BY <1>0, <1>4, <2>1, CopyFits
  <2>3. HType'
    BY <1>0, <1>4, <2>2, NodeFacts DEF PacketCopy, HType, PhaseType, DataType
  <2>4. FlagType'
    BY <1>0, <1>4 DEF PacketCopy, FlagType
  <2>5. BufType' /\ LinkType' /\ OpType' /\ UrbType'
    BY <1>0, <1>4 DEF PacketCopy, BufType, LinkType, OpType, UrbType, bufVars, irqLinks, opVars,
                      urbVars
  <2> QED
    BY <2>3, <2>4, <2>5, TypePartsNext
<1>9. CASE PacketStore \/ PacketFull \/ PacketEof
  <2>1. BufType'
    <3>1. CASE PacketStore
      <4>1. hNum \in 0 .. Length
        BY <1>0, <3>1, NodeFacts DEF PacketStore, CopyInv, HType, PhaseType, DataType
      <4> QED
        BY <1>0, <3>1, <4>1 DEF PacketStore, BufType
    <3>2. CASE PacketFull \/ PacketEof
      BY <1>0, <3>2 DEF PacketFull, PacketEof, BufType
    <3> QED
      BY <1>9, <3>1, <3>2
  <2>2. HType'
    <3>1. PhaseType'
      BY <1>0, <1>9, NodeFacts DEF PacketStore, PacketFull, PacketEof, HType, PhaseType
    <3>2. DataType'
      <4>1. hNum \in Nat /\ hEnd \in SUBSET {"full", "eof"} /\ stale \in BOOLEAN
        BY <1>0 DEF HType, DataType
      <4>2. hNum' \in {hNum, 0} /\ hEnd' \subseteq hEnd /\ stale' \in {stale, FALSE}
        BY <1>9 DEF PacketStore, PacketFull, PacketEof
      <4>3. hNum' \in Nat
        BY <4>1, <4>2
      <4>5. stale' \in BOOLEAN
        BY <4>1, <4>2, Zenon
      <4>4. hEnd' \in SUBSET {"full", "eof"}
        BY <4>1, <4>2, Zenon
      <4> QED
        BY <4>3, <4>4, <4>5 DEF DataType
    <3> QED
      BY <3>1, <3>2 DEF HType
  <2>3. LinkType' /\ OpType' /\ UrbType' /\ FlagType'
    BY <1>0, <1>9 DEF PacketStore, PacketFull, PacketEof, LinkType, OpType, UrbType, FlagType,
                      irqLinks, opVars, urbVars
  <2> QED
    BY <2>1, <2>2, <2>3, TypePartsNext
<1> QED
  BY <1>1, <1>2, <1>3, <1>4, <1>5, <1>6, <1>7, <1>8, <1>9 DEF Handler, Complete, Packet, Copy

-----------------------------------------------------------------------------
(* The inductive invariant.                                                *)

LEMMA InitInv == Init => IInv
<1> SUFFICES ASSUME Init PROVE IInv
  OBVIOUS
<1>1. TypeOK
  <2>1. BufType
    BY NodeFacts DEF Init, BufType
  <2>2. LinkType /\ OpType /\ UrbType
    BY EmptyLinks, NodeFacts DEF Init, LinkType, OpType, UrbType
  <2>2a. FlagType
    BY DEF Init, FlagType
  <2>3. HType
    <3>1. PhaseType
      BY NodeFacts DEF Init, PhaseType, Kinds
    <3>2. DataType
      BY DEF Init, DataType
    <3> QED
      BY <3>1, <3>2 DEF HType
  <2> QED
    BY <2>1, <2>2, <2>2a, <2>3, TypeParts
<1>2. HandlerInv /\ UrbInv /\ CopyInv
  BY NodeFacts DEF Init, HandlerInv, Working, Copying, UrbInv, StoppedIsQuiet, LiveNow, OrphanNow,
                   CopyInv
<1> QED
  BY <1>1, <1>2 DEF IInv

(* An ioctl neither gives the handler a buffer nor takes it away, unless   *)
(* it is REQBUFS, which faults under a handler that has one.               *)
LEMMA IoctlHandler ==
  ASSUME HandlerInv, Ioctl
  PROVE  HandlerInv'
  BY DEF HandlerInv, Working, Copying, Ioctl, Insertion, Reqbufs, ReqbufsNone, ReqbufsTooMany,
     ZeroQueue, Qbuf, ReadTail, LinkHead,
         LinkNew, LinkTail, Dqbuf, DqbufUnallocated, Streamon, StreamonFails, Streamoff,
         NoIoctl, Running, hVars, LoseUrbs

LEMMA HandlerHandler ==
  ASSUME TypeOK, HandlerInv, Handler
  PROVE  HandlerInv'
<1>1. next[Irqq] \in Nodes
  BY DEF TypeOK
<1>2. ASSUME NEW kind \in Kinds, CompleteFirst(kind) PROVE HandlerInv'
  BY <1>1, <1>2 DEF CompleteFirst, HandlerInv, Working, Copying, Nodes
<1>3. ASSUME NEW kind \in Kinds, CompleteNoBuffer(kind) \/ CompleteError(kind) PROVE HandlerInv'
  BY <1>3 DEF CompleteNoBuffer, CompleteError, HandlerInv, Working, Copying, TakeUrb, hVars, Running
<1>4. CASE Packet \/ Copy
  BY <1>4 DEF Packet, Copy, PacketDest, PacketSkipped, PacketCopy, PacketAdd, PacketStore, PacketFull,
              PacketEof, HandlerInv, Working, Copying, Running
<1>5. CASE EndOfPackets \/ UnlinkPrev \/ UnlinkNext \/ Resubmit \/ ResubmitFails
  BY <1>5 DEF EndOfPackets, UnlinkPrev, UnlinkNext, Resubmit, ResubmitFails, HandlerInv, Working,
              Copying, Running
<1> QED
  BY <1>2, <1>3, <1>4, <1>5 DEF Handler, Complete

(* An ioctl that empties the buffer of the handler makes room; between the *)
(* two reads of bytesused it is recorded.                                  *)
LEMMA IoctlCopy ==
  ASSUME TypeOK, HandlerInv, CopyInv, Ioctl
  PROVE  CopyInv'
<1>0. BufType /\ HType /\ FlagType
  BY TypeParts
<1>1. CASE UNCHANGED <<used, h, hBuf, hNum, stale, fault>>
  BY <1>1 DEF CopyInv
<1>2. CASE ZeroQueue /\ NoIoctl
  <2> SUFFICES ASSUME ~fault' PROVE CopyInv'
    BY DEF CopyInv
  <2>1. hBuf = Nil /\ ~fault /\ UNCHANGED h
    BY <1>2 DEF ZeroQueue, NoIoctl, Running
  <2>2. h \notin Working
    BY <2>1, NodeFacts DEF HandlerInv
  <2> QED
    BY <2>1, <2>2 DEF CopyInv, Working, Copying
<1>3. ASSUME NEW b \in Buffers, Qbuf(b) PROVE CopyInv'
  <2>1. /\ ~fault /\ UNCHANGED <<h, hBuf, hNum, fault>>
        /\ used' = [used EXCEPT ![b] = 0] /\ stale' = (stale \/ (h = "copy" /\ hBuf = b))
    BY <1>3 DEF Qbuf, NoIoctl, Running
  <2>2. ASSUME h \in {"copy", "add", "store"}
        PROVE  hBuf \in Buffers /\ used[hBuf] \in Nat /\ used'[hBuf] = (IF hBuf = b THEN 0 ELSE used[hBuf])
    BY <1>0, <2>1, <2>2, NodeFacts DEF HandlerInv, Working, Copying, BufType
  <2>3. hNum \in Nat
    BY <1>0 DEF HType, DataType
  <2>4. h = "copy" /\ ~stale' => ~stale /\ hBuf # b
    BY <2>1
  <2>5. h = "copy" /\ ~stale' => hNum = used'[hBuf]
    BY <2>1, <2>2, <2>4 DEF CopyInv
  <2>6. h = "add" => hNum + used'[hBuf] <= Length
    <3> SUFFICES ASSUME h = "add" PROVE hNum + used'[hBuf] <= Length
      OBVIOUS
    <3>1. hNum + used[hBuf] <= Length /\ used'[hBuf] \in {0, used[hBuf]} /\ used[hBuf] \in Nat
      BY <2>1, <2>2 DEF CopyInv
    <3> QED
      BY <2>3, <3>1, NodeFacts
  <2>7. h = "store" => hNum <= Length
    BY <2>1 DEF CopyInv
  <2> QED
    BY <2>1, <2>5, <2>6, <2>7 DEF CopyInv
<1>4. CASE fault'
  BY <1>4 DEF CopyInv
<1>5. \/ UNCHANGED <<used, h, hBuf, hNum, stale, fault>> \/ fault'
      \/ (ZeroQueue /\ NoIoctl) \/ \E b \in Buffers : Qbuf(b)
  <2>1. CASE LinkTail
    BY <1>0, <2>1 DEF LinkTail, Running, bufVars, hVars, FlagType
  <2>2. CASE Ioctl /\ ~LinkTail
    BY <2>2 DEF Ioctl, Insertion, Reqbufs, ReqbufsNone, ReqbufsTooMany, ReadTail, LinkHead, LinkNew,
                Dqbuf, DqbufUnallocated, Streamon, StreamonFails, Streamoff, bufVars, hVars
  <2> QED
    BY <2>1, <2>2
<1> QED
  BY <1>1, <1>2, <1>3, <1>4, <1>5

LEMMA HandlerCopy ==
  ASSUME TypeOK, HandlerInv, CopyInv, Handler
  PROVE  CopyInv'
<1>0. BufType /\ HType /\ FlagType
  BY TypeParts
<1>1. CASE h' \notin {"copy", "add", "store"}
  BY <1>1 DEF CopyInv
<1>2. CASE PacketDest
  <2>1. h' = "copy" /\ hNum' = used[hBuf] /\ UNCHANGED <<used, hBuf>>
    BY <1>2 DEF PacketDest, bufVars
  <2> QED
    BY <2>1 DEF CopyInv
<1>3. ASSUME NEW len \in 0 .. MaxPayload, NEW eof \in BOOLEAN, PacketCopy(len, eof)
      PROVE  CopyInv'
  <2>1. hBuf \in Buffers
    BY <1>3 DEF PacketCopy, HandlerInv, Working, Copying, Running
  <2>2. hNum' + used[hBuf] <= Length
    BY <1>0, <1>3, <2>1, CopyFits
  <2>3. h' = "add" /\ UNCHANGED <<used, hBuf>>
    BY <1>3 DEF PacketCopy, bufVars
  <2> QED
    BY <2>2, <2>3 DEF CopyInv
<1>4. CASE PacketAdd
  <2>1. h = "add" /\ ~fault /\ h' = "store" /\ hNum' = used[hBuf] + hNum
    BY <1>4 DEF PacketAdd, Running
  <2>2. hBuf \in Buffers /\ used[hBuf] \in Nat /\ hNum \in Nat
    BY <1>0, <2>1, NodeFacts DEF HandlerInv, Working, Copying, BufType, HType, PhaseType, DataType
  <2>3. hNum' <= Length
    BY <2>1, <2>2, NodeFacts DEF CopyInv
  <2> QED
    BY <2>1, <2>3 DEF CopyInv
<1>5. h' \notin {"copy", "add", "store"} \/ UNCHANGED <<used, h, hBuf, hNum, stale,
fault>> \/ PacketDest
      \/ PacketAdd \/ Copy
  <2>1. CASE Complete \/ \E kind \in Kinds : CompleteError(kind)
    BY <2>1 DEF Complete, CompleteError, CompleteNoBuffer, CompleteFirst, TakeUrb, bufVars, hVars
  <2>2. CASE Packet \/ Copy
    BY <2>2 DEF Packet, PacketSkipped, PacketStore, PacketFull, PacketEof
  <2>3. CASE EndOfPackets \/ UnlinkPrev \/ UnlinkNext \/ Resubmit \/ ResubmitFails
    BY <2>3 DEF EndOfPackets, UnlinkPrev, UnlinkNext, Resubmit, ResubmitFails
  <2> QED
    BY <2>1, <2>2, <2>3 DEF Handler
<1>6. CASE UNCHANGED <<used, h, hBuf, hNum, stale, fault>>
  BY <1>6 DEF CopyInv
<1> QED
  BY <1>1, <1>2, <1>3, <1>4, <1>5, <1>6 DEF Copy

(* When urb[] is overwritten and no URB is lost, none was in flight.       *)
LEMMA NoneLost ==
  ASSUME UrbType, HType, UrbInv, ~orphaned, ~(LiveNow > 0)
  PROVE  live = 0 /\ orphans = 0 /\ h = "idle"
  BY DEF UrbType, HType, PhaseType, DataType, UrbInv, LiveNow

(* The URBs under the ioctls.  Where urb[] is overwritten the flag         *)
(* "orphaned" says whether a URB was lost; STREAMOFF waits for the handler *)
(* of a URB it kills, so that nothing it knows of is left.                 *)
LEMMA IoctlUrbs ==
  ASSUME TypeOK, UrbInv, Ioctl
  PROVE  UrbInv'
<1>0. UrbType /\ HType /\ FlagType
  BY TypeParts
<1>1. LiveNow \in Nat /\ OrphanNow \in Nat
  BY <1>0, UrbCounts
<1>2. CASE UNCHANGED <<live, orphans, h, hKind, on, orphaned>>
  BY <1>2 DEF UrbInv, LiveNow, OrphanNow, StoppedIsQuiet
<1>3. CASE ZeroQueue
  <2>1. LiveNow' = 0 /\ OrphanNow' = OrphanNow + LiveNow
    BY <1>0, <1>1, <1>3, NodeFacts DEF ZeroQueue, LoseUrbs, LiveNow, OrphanNow, UrbType, HType,
       PhaseType, DataType, Kinds
  <2>2. LiveNow' <= NUrb /\ OrphanNow' <= MaxOrphans
    BY <1>1, <1>3, <2>1, NodeFacts DEF ZeroQueue, LoseUrbs
  <2>3. ASSUME ~orphaned'
        PROVE  /\ ~orphaned /\ live = 0 /\ orphans = 0 /\ h = "idle"
               /\ orphans' = 0 /\ h' = "idle" /\ live' = 0
    <3>1. ~orphaned /\ ~(LiveNow > 0)
      BY <1>3, <2>3 DEF ZeroQueue, LoseUrbs
    <3>2. live = 0 /\ orphans = 0 /\ h = "idle"
      BY <1>0, <1>1, <3>1, NoneLost
    <3> QED
      BY <1>1, <1>3, <3>1, <3>2 DEF ZeroQueue, LoseUrbs
  <2> QED
    BY <1>3, <2>2, <2>3 DEF ZeroQueue, LoseUrbs, UrbInv, StoppedIsQuiet
<1>4. CASE Streamon
  <2>1. LiveNow' = NUrb /\ OrphanNow' = OrphanNow + LiveNow
    BY <1>0, <1>1, <1>4, NodeFacts DEF Streamon, LiveNow, OrphanNow, UrbType, HType, PhaseType,
       DataType, Kinds
  <2>2. LiveNow' <= NUrb /\ OrphanNow' <= MaxOrphans
    BY <1>1, <1>4, <2>1, NodeFacts DEF Streamon
  <2>3. ASSUME ~orphaned'
        PROVE  /\ ~orphaned /\ live = 0 /\ orphans = 0 /\ h = "idle"
               /\ orphans' = 0 /\ h' = "idle"
    <3>1. ~orphaned /\ ~(LiveNow > 0)
      BY <1>4, <2>3 DEF Streamon
    <3>2. live = 0 /\ orphans = 0 /\ h = "idle"
      BY <1>0, <1>1, <3>1, NoneLost
    <3> QED
      BY <1>1, <1>4, <3>1, <3>2 DEF Streamon
  <2> QED
    BY <1>4, <2>2, <2>3 DEF Streamon, UrbInv, StoppedIsQuiet
<1>5. ASSUME NEW k \in 0 .. NUrb - 1, StreamonFails(k) PROVE UrbInv'
  <2>1. LiveNow' = 0 /\ OrphanNow' = OrphanNow + LiveNow + k
    BY <1>0, <1>1, <1>5, NodeFacts DEF StreamonFails, LiveNow, OrphanNow, UrbType, HType,
       PhaseType, DataType, Kinds
  <2>2. LiveNow' <= NUrb /\ OrphanNow' <= MaxOrphans
    BY <1>1, <1>5, <2>1, NodeFacts DEF StreamonFails
  <2>3. ASSUME ~orphaned'
        PROVE  /\ ~orphaned /\ live = 0 /\ orphans = 0 /\ h = "idle"
               /\ orphans' = 0 /\ h' = "idle" /\ live' = 0
    <3>1. ~orphaned /\ ~(LiveNow + k > 0)
      BY <1>5, <2>3 DEF StreamonFails
    <3>2. live = 0 /\ orphans = 0 /\ h = "idle"
      BY <1>0, <1>1, <3>1, NoneLost, NodeFacts
    <3> QED
      BY <1>1, <1>5, <3>1, <3>2 DEF StreamonFails
  <2> QED
    BY <1>5, <2>2, <2>3 DEF StreamonFails, UrbInv, StoppedIsQuiet
<1>6. CASE Streamoff
  BY <1>0, <1>1, <1>6, NodeFacts
     DEF Streamoff, UrbInv, StoppedIsQuiet, LiveNow, OrphanNow, UrbType, HType, PhaseType,
     DataType, hVars
<1>7. \/ UNCHANGED <<live, orphans, h, hKind, on, orphaned>>
      \/ ZeroQueue \/ Streamon \/ Streamoff \/ \E k \in 0 .. NUrb - 1 : StreamonFails(k)
  BY DEF Ioctl, Insertion, Reqbufs, ReqbufsNone, Qbuf, ReadTail, LinkHead, LinkNew, LinkTail,
         Dqbuf, DqbufUnallocated, ReqbufsTooMany, urbVars, hVars
<1> QED
  BY <1>2, <1>3, <1>4, <1>5, <1>6, <1>7

(* The URBs under the handler: it takes one, and submits the same again.   *)
LEMMA HandlerUrbs ==
  ASSUME TypeOK, UrbInv, Handler
  PROVE  UrbInv'
<1>0. UrbType /\ HType /\ FlagType
  BY TypeParts
<1>1. ASSUME NEW kind \in Kinds, CompleteError(kind) PROVE UrbInv'
  BY <1>0, <1>1, NodeFacts
     DEF CompleteError, TakeUrb, InFlight, UrbInv, StoppedIsQuiet, LiveNow, OrphanNow, UrbType,
         HType, PhaseType, DataType, Kinds, hVars
<1>2. ASSUME NEW kind \in Kinds, CompleteNoBuffer(kind) \/ CompleteFirst(kind) PROVE UrbInv'
  BY <1>0, <1>2, NodeFacts
     DEF CompleteNoBuffer, CompleteFirst, TakeUrb, InFlight, UrbInv, StoppedIsQuiet, LiveNow,
         OrphanNow, UrbType, HType, PhaseType, DataType, Kinds
<1>3. CASE Packet \/ Copy \/ EndOfPackets \/ UnlinkPrev \/ UnlinkNext
  <2>1. /\ UNCHANGED <<live, orphans, hKind, on, orphaned>>
        /\ h # "idle" /\ h' # "idle"
    BY <1>3 DEF Packet, Copy, PacketDest, PacketSkipped, PacketCopy, PacketAdd, PacketStore, PacketFull,
                PacketEof, EndOfPackets, UnlinkPrev, UnlinkNext, urbVars
  <2> QED
    BY <2>1 DEF UrbInv, LiveNow, OrphanNow, StoppedIsQuiet
<1>4. CASE Resubmit \/ ResubmitFails
  BY <1>0, <1>4, NodeFacts
     DEF Resubmit, ResubmitFails, UrbInv, StoppedIsQuiet, LiveNow, OrphanNow, UrbType, HType,
     PhaseType, DataType,
         Kinds, urbVars
<1> QED
  BY <1>1, <1>2, <1>3, <1>4 DEF Handler, Complete

(* Type, copy and URB invariants hold in every reachable state.            *)
THEOREM Invariance == Spec => []IInv
<1>1. IInv /\ [Next]_vars => IInv'
  <2> SUFFICES ASSUME IInv, [Next]_vars PROVE IInv'
    OBVIOUS
  <2>0. TypeOK /\ HandlerInv /\ UrbInv /\ CopyInv
    BY DEF IInv
  <2>1. CASE Ioctl
    BY <2>0, <2>1, IoctlTypes, IoctlHandler, IoctlUrbs, IoctlCopy DEF IInv
  <2>2. CASE Handler
    BY <2>0, <2>2, HandlerTypes, HandlerHandler, HandlerUrbs, HandlerCopy DEF IInv
  <2>3. CASE UNCHANGED vars
    BY <2>0, <2>3 DEF vars, bufVars, irqLinks, opVars, urbVars, hVars, IInv, TypeOK, HandlerInv,
                      UrbInv, StoppedIsQuiet, LiveNow, OrphanNow, CopyInv
  <2> QED
    BY <2>1, <2>2, <2>3 DEF Next
<1> QED
  BY InitInv, <1>1, PTL DEF Spec

(* The state of driver, handler and application keeps its type.            *)
THEOREM TypeCorrect == Spec => []TypeOK
<1>1. IInv => TypeOK
  BY DEF IInv
<1> QED
  BY Invariance, <1>1, PTL

(* myuvc_video_complete copies behind the end of a buffer, however QBUF,   *)
(* DQBUF and REQBUFS interleave with it, only if QBUF emptied the buffer   *)
(* between its two reads of bytesused.                                     *)
THEOREM CopyTheorem == Spec => CopyInBounds
<1>1. IInv /\ [Next]_vars =>
        [(h = "copy" /\ h' = "add") => (hNum + hNum' <= Length \/ stale)]_<<h, hNum, stale>>
  <2> SUFFICES ASSUME IInv, [Next]_vars, h = "copy", h' = "add", ~stale
               PROVE  hNum + hNum' <= Length
    OBVIOUS
  <2>0. TypeOK /\ HandlerInv /\ CopyInv
    BY DEF IInv
  <2>1. Copy
    <3>1. ~Ioctl
      BY DEF Ioctl, Insertion, Reqbufs, ReqbufsNone, ReqbufsTooMany, ZeroQueue, Qbuf, ReadTail,
         LinkHead,
             LinkNew, LinkTail, Dqbuf, DqbufUnallocated, Streamon, StreamonFails, Streamoff, hVars
    <3>2. Handler => Copy
      BY DEF Handler, Complete, CompleteError, CompleteNoBuffer, CompleteFirst, TakeUrb, Packet,
             PacketDest, PacketSkipped, PacketAdd, PacketStore, PacketFull, PacketEof, EndOfPackets,
             UnlinkPrev, UnlinkNext, Resubmit, ResubmitFails
    <3> QED
      BY <3>1, <3>2 DEF Next, vars, hVars
  <2>2. PICK len \in 0 .. MaxPayload, eof \in BOOLEAN : PacketCopy(len, eof)
    BY <2>1 DEF Copy
  <2>3. ~fault /\ hBuf \in Buffers
    BY <2>0, <2>2 DEF PacketCopy, Running, HandlerInv, Working, Copying
  <2>4. hNum = used[hBuf]
    BY <2>0, <2>3 DEF CopyInv
  <2> QED
    BY <2>0, <2>2, <2>3, <2>4, CopyFits, TypeParts
<1> QED
  BY Invariance, <1>1, PTL DEF Spec, CopyInBounds

(* After myuvc_vidioc_streamoff no URB is in flight and no handler at      *)
(* work, unless a URB was lost from urb[].                                 *)
THEOREM StopTheorem == Spec => []StoppedIsQuiet
<1>1. IInv => StoppedIsQuiet
  BY DEF IInv, UrbInv
<1> QED
  BY Invariance, <1>1, PTL

-----------------------------------------------------------------------------
(* irqqueue as a ring: what its writes, one by one, make of the links.     *)

NextChain(nx, q)   == \A k \in 0 .. Len(q) : nx[At(q, k)] = At(q, k + 1)
PrevChain(pv, q)   == \A k \in 0 .. Len(q) : pv[At(q, k + 1)] = At(q, k)

(* The new entry is behind the head, and does not yet point back.          *)
PrevOpen(pv, q, b) == pv[Irqq] = b /\ \A k \in 1 .. Len(q) : pv[q[k]] = At(q, k - 1)

Links == [{Irqq} \cup Buffers -> Nodes]

LEMMA Lengths ==
  ASSUME NEW q \in Seq(Buffers)
  PROVE  /\ Len(q) \in Nat /\ DOMAIN q = 1 .. Len(q)
         /\ \A k \in 1 .. Len(q) : q[k] \in Buffers /\ q[k] \in Range(q) /\ q[k] # Irqq
         /\ q # << >> => Len(q) \in Nat \ {0} /\ Head(q) = q[1] /\ At(q, 1) = q[1]
         /\ q = << >> => At(q, 1) = Irqq
         /\ At(q, 0) = Irqq /\ At(q, Len(q) + 1) = Irqq
         /\ \A k \in 1 .. Len(q) : At(q, k) = q[k]
         /\ \A k : At(q, k) \in {Irqq} \cup Buffers /\ At(q, k) # Nil
<1>1. Len(q) \in Nat /\ DOMAIN q = 1 .. Len(q) /\ \A k \in 1 .. Len(q) : q[k] \in Buffers
  OBVIOUS
<1>2. \A k \in 1 .. Len(q) : q[k] \in Range(q) /\ q[k] # Irqq
  BY <1>1, NodeFacts DEF Range
<1>3. q # << >> => Len(q) \in Nat \ {0} /\ Head(q) = q[1]
  OBVIOUS
<1>4. q = << >> => Len(q) = 0
  OBVIOUS
<1>5. At(q, 0) = Irqq /\ At(q, Len(q) + 1) = Irqq
  BY <1>1 DEF At
<1>6. \A k \in 1 .. Len(q) : At(q, k) = q[k]
  BY DEF At
<1>7. \A k : At(q, k) \in {Irqq} \cup Buffers /\ At(q, k) # Nil
  BY <1>1, NodeFacts DEF At
<1>8. q # << >> => At(q, 1) = q[1]
  BY <1>3 DEF At
<1>9. q = << >> => At(q, 1) = Irqq
  BY <1>4 DEF At
<1> QED
  BY <1>1, <1>2, <1>3, <1>5, <1>6, <1>7, <1>8, <1>9

(* The chains in terms of the elements.                                    *)
LEMMA NextChainParts ==
  ASSUME NEW nx, NEW q \in Seq(Buffers)
  PROVE  NextChain(nx, q) <=> /\ nx[Irqq] = At(q, 1)
                              /\ \A k \in 1 .. Len(q) : nx[q[k]] = At(q, k + 1)
<1>1. \A k \in 0 .. Len(q) : k = 0 \/ k \in 1 .. Len(q)
  BY Lengths
<1>2. 0 \in 0 .. Len(q) /\ \A k \in 1 .. Len(q) : k \in 0 .. Len(q)
  BY Lengths
<1>3. At(q, 0) = Irqq /\ \A k \in 1 .. Len(q) : At(q, k) = q[k]
  BY Lengths
<1>4. 0 + 1 = 1
  OBVIOUS
<1> QED
  BY <1>1, <1>2, <1>3, <1>4 DEF NextChain

LEMMA PrevChainParts ==
  ASSUME NEW pv, NEW q \in Seq(Buffers)
  PROVE  PrevChain(pv, q) <=> /\ pv[Irqq] = At(q, Len(q))
                              /\ \A k \in 1 .. Len(q) : pv[q[k]] = At(q, k - 1)
<1>0. Len(q) \in Nat /\ At(q, Len(q) + 1) = Irqq /\ \A k \in 1 .. Len(q) : At(q, k) = q[k]
  BY Lengths
<1>1. ASSUME PrevChain(pv, q)
      PROVE  pv[Irqq] = At(q, Len(q)) /\ \A k \in 1 .. Len(q) : pv[q[k]] = At(q, k - 1)
  <2>1. Len(q) \in 0 .. Len(q)
    BY <1>0
  <2>2. ASSUME NEW k \in 1 .. Len(q) PROVE pv[q[k]] = At(q, k - 1)
    <3>1. k - 1 \in 0 .. Len(q) /\ (k - 1) + 1 = k
      BY <1>0
    <3> QED
      BY <1>0, <1>1, <3>1 DEF PrevChain
  <2> QED
    BY <1>0, <1>1, <2>1, <2>2 DEF PrevChain
<1>2. ASSUME pv[Irqq] = At(q, Len(q)), \A k \in 1 .. Len(q) : pv[q[k]] = At(q, k - 1)
      PROVE  PrevChain(pv, q)
  <2> SUFFICES ASSUME NEW k \in 0 .. Len(q) PROVE pv[At(q, k + 1)] = At(q, k)
    BY DEF PrevChain
  <2>1. CASE k = Len(q)
    BY <1>0, <1>2, <2>1
  <2>2. CASE k # Len(q)
    <3>1. k + 1 \in 1 .. Len(q) /\ (k + 1) - 1 = k
      BY <1>0, <2>2
    <3> QED
      BY <1>0, <1>2, <3>1
  <2> QED
    BY <2>1, <2>2
<1> QED
  BY <1>1, <1>2

LEMMA Injective ==
  ASSUME NEW q \in Seq(Buffers), IsInjective(q)
  PROVE  \A i, j \in 1 .. Len(q) : q[i] = q[j] => i = j
  BY Lengths DEF IsInjective

(* Appending and removing the first, by places.                            *)
LEMMA AppendedAt ==
  ASSUME NEW q \in Seq(Buffers), NEW b \in Buffers
  PROVE  LET r == Append(q, b) IN
         /\ r \in Seq(Buffers) /\ Len(r) = Len(q) + 1 /\ r[Len(q) + 1] = b
         /\ \A k \in 1 .. Len(q) : r[k] = q[k]
         /\ \A k \in 0 .. Len(q) : At(r, k) = At(q, k)
         /\ At(r, Len(q) + 1) = b /\ At(r, Len(q) + 2) = Irqq
<1> DEFINE r == Append(q, b)
           n == Len(q)
<1>1. /\ r \in Seq(Buffers) /\ Len(r) = n + 1 /\ r[n + 1] = b /\ n \in Nat
      /\ \A k \in 1 .. n : r[k] = q[k]
  OBVIOUS
<1> HIDE DEF r
<1>2. ASSUME NEW k \in 0 .. n PROVE At(r, k) = At(q, k)
  <2>1. k = 0 \/ (k \in 1 .. n /\ k \in 1 .. n + 1)
    BY <1>1
  <2> QED
    BY <1>1, <2>1 DEF At
<1>3. At(r, n + 1) = b /\ At(r, n + 2) = Irqq
  BY <1>1 DEF At
<1> QED
  BY <1>1, <1>2, <1>3 DEF r

LEMMA TailAt ==
  ASSUME NEW q \in Seq(Buffers), q # << >>
  PROVE  LET r == Tail(q) IN
         /\ r \in Seq(Buffers) /\ Len(r) = Len(q) - 1
         /\ \A k \in 1 .. Len(r) : r[k] = q[k + 1] /\ At(r, k) = q[k + 1]
         /\ \A k \in 1 .. Len(q) : At(r, k) = At(q, k + 1)
<1> DEFINE r == Tail(q)
           n == Len(q)
<1>1. /\ r \in Seq(Buffers) /\ Len(r) = n - 1 /\ n \in Nat \ {0}
      /\ \A k \in 1 .. n - 1 : r[k] = q[k + 1]
  BY Lengths, HeadTailProperties
<1> HIDE DEF r
<1>2. ASSUME NEW k \in 1 .. n PROVE At(r, k) = At(q, k + 1)
  <2>1. CASE k = n
    BY <1>1, <2>1 DEF At
  <2>2. CASE k # n
    <3>1. k \in 1 .. n - 1 /\ k + 1 \in 1 .. n
      BY <1>1, <2>2
    <3> QED
      BY <1>1, <3>1 DEF At
  <2> QED
    BY <2>1, <2>2
<1>3. \A k \in 1 .. Len(r) : r[k] = q[k + 1] /\ At(r, k) = q[k + 1]
  BY <1>1 DEF At
<1> QED
  BY <1>1, <1>2, <1>3 DEF r

(* QBUF, LinkHead: the head points back to the new entry.                  *)
LEMMA PrevOpened ==
  ASSUME NEW q \in Seq(Buffers), NEW pv \in Links, PrevChain(pv, q), NEW b \in Buffers
  PROVE  PrevOpen([pv EXCEPT ![Irqq] = b], q, b)
<1>1. \A k \in 1 .. Len(q) : q[k] \in Buffers /\ q[k] # Irqq
  BY Lengths
<1>2. \A k \in 1 .. Len(q) : pv[q[k]] = At(q, k - 1)
  BY PrevChainParts
<1> QED
  BY <1>1, <1>2 DEF PrevOpen, Links

(* LinkNew: the new entry points to the head and to the last.              *)
LEMMA PrevClosed ==
  ASSUME NEW q \in Seq(Buffers), NEW pv \in Links, NEW b \in Buffers, PrevOpen(pv, q, b),
         b \notin Range(q)
  PROVE  PrevChain([pv EXCEPT ![b] = At(q, Len(q))], Append(q, b))
<1> DEFINE r == Append(q, b)
           v == [pv EXCEPT ![b] = At(q, Len(q))]
           n == Len(q)
<1>1. /\ r \in Seq(Buffers) /\ Len(r) = n + 1 /\ r[n + 1] = b /\ n \in Nat
      /\ \A k \in 1 .. n : r[k] = q[k]
      /\ \A k \in 0 .. n : At(r, k) = At(q, k)
      /\ At(r, n + 1) = b
  BY AppendedAt, Lengths
<1>2. v[b] = At(q, n) /\ \A x \in {Irqq} \cup Buffers : x # b => v[x] = pv[x]
  BY DEF Links
<1>3. \A k \in 1 .. n : q[k] \in Buffers /\ q[k] # b
  BY Lengths
<1>4. Irqq # b
  BY NodeFacts
<1> HIDE DEF r, v, n
<1>5. v[Irqq] = At(r, n + 1)
  BY <1>1, <1>2, <1>4 DEF PrevOpen
<1>6. ASSUME NEW k \in 1 .. n + 1 PROVE v[r[k]] = At(r, k - 1)
  <2>1. CASE k = n + 1
    <3>1. k - 1 = n /\ n \in 0 .. n
      BY <1>1, <2>1
    <3> QED
      BY <1>1, <1>2, <2>1, <3>1
  <2>2. CASE k # n + 1
    <3>1. k \in 1 .. n /\ k - 1 \in 0 .. n
      BY <1>1, <2>2
    <3>2. v[r[k]] = pv[q[k]] /\ At(r, k - 1) = At(q, k - 1)
      BY <1>1, <1>2, <1>3, <3>1
    <3> QED
      BY <3>1, <3>2 DEF PrevOpen, n
  <2> QED
    BY <2>1, <2>2
<1>7. PrevChain(v, r)
  BY <1>1, <1>5, <1>6, PrevChainParts
<1> QED
  BY <1>7 DEF r, v, n

(* A write to an entry that is not linked changes nothing.                 *)
LEMMA NextApart ==
  ASSUME NEW q \in Seq(Buffers), NEW nx \in Links, NextChain(nx, q),
         NEW b \in Buffers, b \notin Range(q), NEW x
  PROVE  NextChain([nx EXCEPT ![b] = x], q)
<1>1. \A k : At(q, k) \in {Irqq} \cup Buffers
  BY Lengths
<1>2. \A k \in 0 .. Len(q) : At(q, k) # b
  <2> SUFFICES ASSUME NEW k \in 0 .. Len(q) PROVE At(q, k) # b
    OBVIOUS
  <2>1. k \in 1 .. Len(q) => q[k] \in Range(q)
    BY Lengths
  <2> QED
    BY <2>1, NodeFacts DEF At
<1> QED
  BY <1>1, <1>2 DEF NextChain, Links

LEMMA PrevApart ==
  ASSUME NEW q \in Seq(Buffers), NEW pv \in Links, PrevChain(pv, q),
         NEW b \in Buffers, b \notin Range(q), NEW x
  PROVE  PrevChain([pv EXCEPT ![b] = x], q)
<1>1. \A k : At(q, k) \in {Irqq} \cup Buffers
  BY Lengths
<1>2. \A k \in 0 .. Len(q) : At(q, k + 1) # b
  <2> SUFFICES ASSUME NEW k \in 0 .. Len(q) PROVE At(q, k + 1) # b
    OBVIOUS
  <2>1. k + 1 \in 1 .. Len(q) => q[k + 1] \in Range(q)
    BY Lengths
  <2> QED
    BY <2>1, NodeFacts DEF At
<1> QED
  BY <1>1, <1>2 DEF PrevChain, Links

(* LinkTail: the old last entry, or the head, points to the new one.       *)
LEMMA NextAppended ==
  ASSUME NEW q \in Seq(Buffers), IsInjective(q), NEW nx \in Links, NextChain(nx, q),
         NEW b \in Buffers, b \notin Range(q), nx[b] = Irqq
  PROVE  NextChain([nx EXCEPT ![At(q, Len(q))] = b], Append(q, b))
<1> DEFINE r == Append(q, b)
           n == Len(q)
           v == [nx EXCEPT ![At(q, n)] = b]
<1>1. /\ r \in Seq(Buffers) /\ Len(r) = n + 1 /\ n \in Nat
      /\ \A k \in 0 .. n : At(r, k) = At(q, k)
      /\ At(r, n + 1) = b /\ At(r, n + 2) = Irqq
  BY AppendedAt, Lengths
<1>2. \A k : At(q, k) \in {Irqq} \cup Buffers
  BY Lengths
<1>3. v[At(q, n)] = b /\ \A x \in {Irqq} \cup Buffers : x # At(q, n) => v[x] = nx[x]
  BY <1>2 DEF Links
<1>4. \A k \in 0 .. n : At(q, k) # b
  <2> SUFFICES ASSUME NEW k \in 0 .. n PROVE At(q, k) # b
    OBVIOUS
  <2>1. k \in 1 .. n => q[k] \in Range(q)
    BY Lengths
  <2> QED
    BY <2>1, NodeFacts DEF At
<1>5. \A k \in 0 .. n : k # n => At(q, k) # At(q, n)
  <2> SUFFICES ASSUME NEW k \in 0 .. n, k # n PROVE At(q, k) # At(q, n)
    OBVIOUS
  <2>1. n \in 1 .. n /\ At(q, n) = q[n] /\ q[n] # Irqq
    BY <1>1, Lengths
  <2>2. CASE k = 0
    BY <2>1, <2>2, Lengths
  <2>3. CASE k # 0
    <3>1. k \in 1 .. n /\ At(q, k) = q[k]
      BY <1>1, <2>3 DEF At
    <3> QED
      BY <2>1, <3>1, Injective
  <2> QED
    BY <2>2, <2>3
<1> HIDE DEF r, n, v
<1>6. ASSUME NEW k \in 0 .. n + 1 PROVE v[At(r, k)] = At(r, k + 1)
  <2>1. CASE k = n + 1
    <3>1. k + 1 = n + 2 /\ n \in 0 .. n
      BY <1>1, <2>1
    <3>2. v[b] = nx[b]
      BY <1>3, <1>4, <3>1
    <3> QED
      BY <1>1, <2>1, <3>1, <3>2
  <2>2. CASE k = n
    <3>1. n \in 0 .. n
      BY <1>1
    <3> QED
      BY <1>1, <1>3, <2>2, <3>1
  <2>3. CASE k # n + 1 /\ k # n
    <3>1. k \in 0 .. n /\ k + 1 \in 0 .. n
      BY <1>1, <2>3
    <3>2. v[At(q, k)] = nx[At(q, k)]
      BY <1>2, <1>3, <1>5, <2>3, <3>1
    <3>3. nx[At(q, k)] = At(q, k + 1)
      BY <3>1 DEF NextChain, n
    <3> QED
      BY <1>1, <3>1, <3>2, <3>3
  <2> QED
    BY <2>1, <2>2, <2>3
<1> QED
  BY <1>1, <1>6 DEF NextChain, r, n, v

(* UnlinkPrev: the neighbours of the first, and the write behind it.       *)
LEMMA PrevUnlinked ==
  ASSUME NEW q \in Seq(Buffers), q # << >>, IsInjective(q), NEW nx, NEW pv \in Links,
         NextChain(nx, q), PrevChain(pv, q)
  PROVE  /\ pv[Head(q)] = Irqq /\ nx[Head(q)] = At(q, 2)
         /\ PrevChain([pv EXCEPT ![At(q, 2)] = Irqq], Tail(q))
<1> DEFINE r == Tail(q)
           n == Len(q)
           v == [pv EXCEPT ![At(q, 2)] = Irqq]
<1>1. /\ r \in Seq(Buffers) /\ Len(r) = n - 1 /\ n \in Nat \ {0}
      /\ \A k \in 1 .. n - 1 : r[k] = q[k + 1]
      /\ \A k \in 1 .. n : At(r, k) = At(q, k + 1)
      /\ At(r, 0) = Irqq /\ At(q, 0) = Irqq
  BY TailAt, Lengths
<1>2. /\ Head(q) = q[1] /\ \A k : At(q, k) \in {Irqq} \cup Buffers
      /\ At(q, n + 1) = Irqq /\ \A k \in 1 .. n : At(q, k) = q[k]
  BY Lengths
<1>3. /\ pv[Irqq] = At(q, n) /\ \A k \in 1 .. n : pv[q[k]] = At(q, k - 1)
      /\ \A k \in 1 .. n : nx[q[k]] = At(q, k + 1)
  BY PrevChainParts, NextChainParts
<1>4. v[At(q, 2)] = Irqq /\ \A x \in {Irqq} \cup Buffers : x # At(q, 2) => v[x] = pv[x]
  BY <1>2 DEF Links
<1>5. pv[Head(q)] = Irqq /\ nx[Head(q)] = At(q, 2)
  <2>1. 1 \in 1 .. n /\ 1 - 1 = 0 /\ 1 + 1 = 2
    BY <1>1
  <2> QED
    BY <1>1, <1>2, <1>3, <2>1
<1>6. \A k \in 1 .. n : k # 2 => q[k] # At(q, 2)
  <2> SUFFICES ASSUME NEW k \in 1 .. n, k # 2 PROVE q[k] # At(q, 2)
    OBVIOUS
  <2>1. CASE 2 \in 1 .. n
    BY <1>2, <2>1, Injective
  <2>2. CASE 2 \notin 1 .. n
    BY <2>2, Lengths DEF At
  <2> QED
    BY <2>1, <2>2
<1> HIDE DEF r, n, v
<1>7. PrevChain(v, r)
  <2>1. CASE n = 1
    <3>1. At(q, 2) = Irqq /\ Len(r) = 0 /\ At(r, Len(r)) = Irqq
      BY <1>1, <1>2, <2>1
    <3>2. \A k \in 1 .. Len(r) : v[r[k]] = At(r, k - 1)
      BY <3>1
    <3> QED
      BY <1>1, <1>4, <3>1, <3>2, PrevChainParts
  <2>2. CASE n # 1
    <3>1. 2 \in 1 .. n /\ n \in 1 .. n /\ n - 1 \in 1 .. n
      BY <1>1, <2>2
    <3>2. At(q, 2) # Irqq
      BY <1>2, <3>1, Lengths DEF n
    <3>3. At(r, n - 1) = At(q, n)
      <4>1. (n - 1) + 1 = n
        BY <1>1
      <4> QED
        BY <1>1, <3>1, <4>1
    <3>4. v[Irqq] = At(r, Len(r))
      BY <1>1, <1>3, <1>4, <3>2, <3>3
    <3>5. ASSUME NEW k \in 1 .. Len(r) PROVE v[r[k]] = At(r, k - 1)
      <4>1. /\ k \in 1 .. n - 1 /\ k \in 1 .. n /\ k + 1 \in 1 .. n /\ r[k] = q[k + 1]
            /\ (k + 1) - 1 = k
        BY <1>1
      <4>2. CASE k = 1
        <5>1. r[k] = At(q, 2) /\ At(r, k - 1) = Irqq
          BY <1>1, <1>2, <3>1, <4>1, <4>2
        <5> QED
          BY <1>4, <5>1
      <4>3. CASE k # 1
        <5>1. k - 1 \in 1 .. n /\ (k - 1) + 1 = k /\ k + 1 # 2
          BY <1>1, <4>1, <4>3
        <5>2. At(r, k - 1) = At(q, k)
          BY <1>1, <5>1
        <5>3. q[k + 1] # At(q, 2) /\ q[k + 1] \in {Irqq} \cup Buffers
          BY <1>2, <1>6, <4>1, <5>1
        <5>4. v[q[k + 1]] = pv[q[k + 1]] /\ pv[q[k + 1]] = At(q, k)
          BY <1>3, <1>4, <4>1, <5>3
        <5> QED
          BY <4>1, <5>2, <5>4
      <4> QED
        BY <4>2, <4>3
    <3> QED
      BY <1>1, <3>4, <3>5, PrevChainParts
  <2> QED
    BY <2>1, <2>2
<1> QED
  BY <1>5, <1>7 DEF r, v

(* UnlinkNext: the head points behind the first, which is poisoned.        *)
LEMMA NextUnlinked ==
  ASSUME NEW q \in Seq(Buffers), q # << >>, IsInjective(q), NEW nx \in Links, NextChain(nx, q)
  PROVE  NextChain([nx EXCEPT ![Irqq] = At(q, 2), ![Head(q)] = Nil], Tail(q))
<1> DEFINE r == Tail(q)
           n == Len(q)
           v == [nx EXCEPT ![Irqq] = At(q, 2), ![Head(q)] = Nil]
<1>1. /\ r \in Seq(Buffers) /\ Len(r) = n - 1 /\ n \in Nat \ {0}
      /\ \A k \in 1 .. n - 1 : r[k] = q[k + 1]
      /\ \A k \in 1 .. n : At(r, k) = At(q, k + 1)
  BY TailAt, Lengths
<1>2. Head(q) = q[1] /\ q[1] # Irqq /\ \A k \in 1 .. n : q[k] \in Buffers /\ q[k] # Irqq
  BY <1>1, Lengths
<1>3. \A k \in 1 .. n : nx[q[k]] = At(q, k + 1)
  BY NextChainParts
<1>4. /\ v[Irqq] = At(q, 2)
      /\ \A x \in Buffers : x # Head(q) => v[x] = nx[x]
  BY <1>2, NodeFacts DEF Links
<1>5. \A k \in 1 .. n : k # 1 => q[k] # q[1]
  <2>1. 1 \in 1 .. n
    BY <1>1
  <2> QED
    BY <2>1, Injective
<1> HIDE DEF r, n, v
<1>6. v[Irqq] = At(r, 1)
  <2>1. 1 \in 1 .. n /\ 1 + 1 = 2
    BY <1>1
  <2>2. At(r, 1) = At(q, 1 + 1)
    BY <1>1, <2>1
  <2> QED
    BY <1>4, <2>1, <2>2
<1>7. ASSUME NEW k \in 1 .. Len(r) PROVE v[r[k]] = At(r, k + 1)
  <2>1. k + 1 \in 1 .. n /\ k + 1 # 1 /\ r[k] = q[k + 1]
    BY <1>1
  <2>2. v[q[k + 1]] = nx[q[k + 1]]
    BY <1>2, <1>4, <1>5, <2>1
  <2>3. At(r, k + 1) = At(q, (k + 1) + 1)
    BY <1>1, <2>1
  <2> QED
    BY <1>3, <2>1, <2>2, <2>3
<1>8. NextChain(v, r)
  BY <1>1, <1>6, <1>7, NextChainParts
<1> QED
  BY <1>8 DEF r, v

(* INIT_LIST_HEAD.                                                         *)
LEMMA EmptyChains == NextChain(EmptyList, << >>) /\ PrevChain(EmptyList, << >>)
<1>1. EmptyList[Irqq] = Irqq
  BY DEF EmptyList, NoLinks
<1>2. At(<< >>, 0) = Irqq /\ At(<< >>, 0 + 1) = Irqq /\ Len(<< >>) = 0
  BY DEF At
<1>3. \A k \in 0 .. 0 : k = 0
  OBVIOUS
<1> QED
  BY <1>1, <1>2, <1>3 DEF NextChain, PrevChain
-----------------------------------------------------------------------------
(* The lists and the links, as long as the two sides have not overlapped   *)
(* and no URB is lost.                                                     *)

(* The buffers that irqqueue holds or is about to hold, and those that are *)
(* filled and unlinked, for buffer states s and a handler with buffer x.   *)
Waits(s, x) == {b \in Buffers : s[b] = "QUEUED" \/ b = x}
Dones(s, x) == {b \in Buffers : s[b] = "DONE" /\ b # x}

(* What irqqueue holds: Unfilled without the buffer being inserted.        *)
Line == Kept(mainqueue, Waits(bstate, hBuf) \ {opBuf})

(* mainqueue: the filled buffers, then the others; the rest is IDLE.       *)
MainInv ==
  /\ TwoParts(mainqueue, Dones(bstate, hBuf), Waits(bstate, hBuf))
  /\ Range(mainqueue) \subseteq 1 .. count
  /\ \A b \in Buffers : (bstate[b] = "IDLE") <=> (b \notin Range(mainqueue))

(* The handler works on the first of irqqueue.                             *)
HeadInv ==
  /\ h \in Working => Line # << >> /\ hBuf = Head(Line)
  /\ h \in {"unlink_prev", "unlink_next"} => bstate[hBuf] = "DONE"

(* VIDIOC_QBUF inserts a buffer behind the last of irqqueue.               *)
OpInv ==
  /\ op # "none" =>
       opBuf \in Buffers /\ bstate[opBuf] = "QUEUED" /\ Unfilled = Append(Line, opBuf)
  /\ op \in {"link_head", "link_new", "link_tail"} =>
       h # "unlink_next" /\ opPrev = At(Line, Len(Line))

(* What the links are, between any two writes of either side.              *)
LinkInv ==
  /\ NextChain(next, Line)
  /\ h = "unlink_next" => PrevChain(prev, Tail(Line)) /\ hLinks = <<Irqq, At(Line, 2)>>
  /\ h # "unlink_next" /\ op \in {"none", "read_tail", "link_head"} => PrevChain(prev, Line)
  /\ op = "link_new" => PrevOpen(prev, Line, opBuf)
  /\ op = "link_tail" => PrevChain(prev, Append(Line, opBuf)) /\ next[opBuf] = Irqq

(* Without memory there is nothing to work on.                             *)
NoMemoryInv ==
  /\ mainqueue = << >> /\ op = "none" /\ next[Irqq] = Nil
  /\ ~fault => h = "idle"

ListInv ==
  /\ fault => ~Orderly
  /\ MainInv
  /\ count = 0 => NoMemoryInv
  /\ count > 0 => HeadInv /\ OpInv /\ LinkInv

(* The rest of the invariant does not depend on the overlaps.              *)
RestInv ==
  /\ h \in {"idle", "resubmit"} => hBuf = Nil
  /\ op = "none" => opBuf = Nil
  /\ stale => raced
  /\ Orderly /\ ~orphaned /\ on => count > 0

QueueInv == RestInv /\ (Undisturbed => ListInv)

(* The histories only ever rise.                                           *)
LEMMA RacedStays == [Next]_vars /\ raced => raced'
<1> SUFFICES ASSUME [Next]_vars, raced PROVE raced'
  OBVIOUS
<1>1. CASE Insertion
  BY <1>1, Zenon DEF Insertion, ReadTail, LinkHead, LinkNew, LinkTail
<1>2. CASE Dqbuf
  BY <1>2, Zenon DEF Dqbuf
<1>3. CASE UnlinkPrev \/ UnlinkNext
  BY <1>3, Zenon DEF UnlinkPrev, UnlinkNext
<1>4. ASSUME NEW b \in Buffers, Qbuf(b) PROVE raced'
  BY <1>4, Zenon DEF Qbuf
<1>5. CASE \/ DqbufUnallocated \/ Streamon \/ Streamoff \/ ReqbufsNone \/ ReqbufsTooMany
           \/ \E n \in Buffers : Reqbufs(n)
           \/ \E k \in 0 .. NUrb - 1 : StreamonFails(k)
  BY <1>5 DEF DqbufUnallocated, Streamon, Streamoff, Reqbufs, ReqbufsNone, ReqbufsTooMany, ZeroQueue,
     StreamonFails
<1>6. CASE \/ Packet \/ Copy
           \/ Complete \/ \E kind \in Kinds : CompleteError(kind)
           \/ EndOfPackets \/ Resubmit \/ ResubmitFails
  BY <1>6 DEF Complete, CompleteError, CompleteNoBuffer, CompleteFirst, Packet, Copy, PacketDest,
     PacketSkipped, PacketCopy,
     PacketAdd, PacketStore, PacketFull, PacketEof,
     EndOfPackets, Resubmit, ResubmitFails
<1>7. CASE UNCHANGED vars
  BY <1>7 DEF vars
<1> QED
  BY <1>1, <1>2, <1>3, <1>4, <1>5, <1>6, <1>7, Zenon DEF Next, Ioctl, Handler

LEMMA OrphanedStays == [Next]_vars /\ orphaned => orphaned'
<1> SUFFICES ASSUME [Next]_vars, orphaned PROVE orphaned'
  OBVIOUS
<1>1. CASE ReqbufsNone \/ \E n \in Buffers : Reqbufs(n)
  BY <1>1, Zenon DEF Reqbufs, ReqbufsNone, ZeroQueue, LoseUrbs
<1>2. CASE Streamon
  BY <1>2, Zenon DEF Streamon
<1>3. CASE \E k \in 0 .. NUrb - 1 : StreamonFails(k)
  BY <1>3, Zenon DEF StreamonFails
<1>4. CASE \/ Insertion \/ Dqbuf \/ DqbufUnallocated \/ ReqbufsTooMany \/ Streamoff \/ \E b \in Buffers : Qbuf(b)
  BY <1>4 DEF Insertion, ReadTail, LinkHead, LinkNew, LinkTail, Dqbuf, DqbufUnallocated,
     ReqbufsTooMany, Streamoff, Qbuf
<1>5. CASE Handler
  BY <1>5 DEF Handler, Complete, CompleteError, CompleteNoBuffer, CompleteFirst, Packet, Copy,
     PacketDest, PacketSkipped, PacketCopy,
     PacketAdd, PacketStore, PacketFull, PacketEof,
     EndOfPackets, UnlinkPrev, UnlinkNext, Resubmit, ResubmitFails
<1>6. CASE UNCHANGED vars
  BY <1>6 DEF vars
<1> QED
  BY <1>1, <1>2, <1>3, <1>4, <1>5, <1>6 DEF Next, Ioctl

LEMMA RestStep ==
  ASSUME RestInv, TypeOK, [Next]_vars
  PROVE  RestInv'
<1> USE DEF RestInv
<1>1. ASSUME NEW n \in Buffers, Reqbufs(n) PROVE RestInv'
  <2>1. count' > 0
    BY <1>1, NodeFacts DEF Reqbufs, Buffers
  <2> QED
    BY <1>1, <2>1 DEF Reqbufs, ZeroQueue, opVars
<1>2. CASE ReqbufsNone
  BY <1>2 DEF ReqbufsNone, ZeroQueue, opVars, NoIoctl
<1>3. ASSUME NEW b \in Buffers, Qbuf(b) PROVE RestInv'
  <2>1. stale' => raced'
    BY <1>3 DEF Qbuf
  <2> QED
    BY <1>3, <2>1 DEF Qbuf
<1>4. CASE Insertion
  <2>1. stale' => raced'
    <3>1. stale' = stale /\ (raced => raced')
      BY <1>4, RacedStays DEF Insertion, ReadTail, LinkHead, LinkNew, LinkTail, hVars, Next, Ioctl
    <3> QED
      BY <3>1
  <2> QED
    BY <1>4, <2>1 DEF Insertion, ReadTail, LinkHead, LinkNew, LinkTail, bufVars, hVars
<1>5. CASE Dqbuf \/ DqbufUnallocated \/ ReqbufsTooMany \/ Streamoff
  <2>1. stale' => raced'
    <3>1. stale' = stale /\ (raced => raced')
      BY <1>5, RacedStays DEF Dqbuf, DqbufUnallocated, ReqbufsTooMany, Streamoff, hVars
    <3> QED
      BY <3>1
  <2> QED
    BY <1>5, <2>1 DEF Dqbuf, DqbufUnallocated, ReqbufsTooMany, Streamoff, opVars, hVars, bufVars
<1>6. CASE Streamon \/ \E k \in 0 .. NUrb - 1 : StreamonFails(k)
  BY <1>6 DEF Streamon, StreamonFails, opVars, bufVars
<1>7. CASE Handler
  <2>1. stale' => raced'
    <3>1. stale' => stale
      BY <1>7 DEF Handler, Complete, CompleteError, CompleteNoBuffer, CompleteFirst, Packet, Copy,
         PacketDest, PacketSkipped, PacketCopy, PacketAdd, PacketStore, PacketFull, PacketEof,
         EndOfPackets, UnlinkPrev, UnlinkNext, Resubmit, ResubmitFails, hVars
    <3> QED
      BY <3>1, RacedStays
  <2>2. h' \in {"idle", "resubmit"} => hBuf' = Nil
    BY <1>7 DEF Handler, Complete, CompleteError, CompleteNoBuffer, CompleteFirst, Packet, Copy,
       PacketDest, PacketSkipped, PacketCopy, PacketAdd, PacketStore, PacketFull, PacketEof,
       EndOfPackets, UnlinkPrev, UnlinkNext, Resubmit, ResubmitFails, TakeUrb, hVars
  <2>3. UNCHANGED <<op, opBuf, on, orphaned, count>>
    BY <1>7 DEF Handler, Complete, CompleteError, CompleteNoBuffer, CompleteFirst, Packet, Copy,
       PacketDest, PacketSkipped, PacketCopy, PacketAdd, PacketStore, PacketFull, PacketEof,
       EndOfPackets, UnlinkPrev, UnlinkNext, Resubmit, ResubmitFails, opVars, bufVars
  <2> QED
    BY <2>1, <2>2, <2>3
<1>8. CASE UNCHANGED vars
  BY <1>8 DEF vars, opVars, hVars, bufVars
<1> QED
  BY <1>1, <1>2, <1>3, <1>4, <1>5, <1>6, <1>7, <1>8 DEF Next, Ioctl

(* What the invariant says of the lists, for use in the steps.             *)
LEMMA LineFacts ==
  ASSUME TypeOK, RestInv, MainInv
  PROVE  /\ mainqueue \in Seq(Buffers) /\ IsInjective(mainqueue)
         /\ Line \in Seq(Buffers) /\ IsInjective(Line)
         /\ Range(Line) = Range(mainqueue) \cap (Waits(bstate, hBuf) \ {opBuf})
         /\ Unfilled = Kept(mainqueue, Waits(bstate, hBuf))
         /\ op = "none" => Line = Unfilled
         /\ next \in Links /\ prev \in Links
<1>1. mainqueue \in Seq(Buffers) /\ next \in Links /\ prev \in Links
  BY DEF TypeOK, Links
<1>2. IsInjective(mainqueue)
  BY DEF MainInv, TwoParts
<1>3. Line \in Seq(Buffers) /\ IsInjective(Line)
  BY <1>1, <1>2, KeptType, KeptInjective DEF Line
<1>4. Range(Line) = Range(mainqueue) \cap (Waits(bstate, hBuf) \ {opBuf})
  BY <1>1, KeptRange DEF Line
<1>5. Unfilled = Kept(mainqueue, Waits(bstate, hBuf))
  BY DEF Unfilled, Waits
<1>6. op = "none" => Waits(bstate, hBuf) \ {opBuf} = Waits(bstate, hBuf)
  BY NodeFacts DEF RestInv, Waits
<1>7. op = "none" => Line = Unfilled
  BY <1>5, <1>6, Zenon DEF Line
<1> QED
  BY <1>1, <1>2, <1>3, <1>4, <1>5, <1>7

(* Where neither the lists nor who holds what change.                      *)
LEMMA LineFrame ==
  ASSUME UNCHANGED <<mainqueue, bstate, hBuf, opBuf>>
  PROVE  Line' = Line /\ Unfilled' = Unfilled
  BY DEF Line, Unfilled, Waits

LEMMA MainFrame ==
  ASSUME MainInv, UNCHANGED <<count, mainqueue, bstate, hBuf>>
  PROVE  MainInv'
  BY DEF MainInv, Waits, Dones

(* Where the states of the buffers or the buffer of the handler change,    *)
(* but not what waits.                                                     *)
LEMMA SetsFrame ==
  ASSUME MainInv, UNCHANGED <<count, mainqueue, opBuf>>,
         Waits(bstate', hBuf') = Waits(bstate, hBuf), Dones(bstate', hBuf') = Dones(bstate, hBuf),
         \A b \in Buffers : (bstate'[b] = "IDLE") <=> (bstate[b] = "IDLE")
  PROVE  MainInv' /\ Line' = Line /\ Unfilled' = Unfilled
<1>1. MainInv'
  BY DEF MainInv
<1>2. Line' = Line
  BY DEF Line
<1>3. Unfilled' = Unfilled
  <2>1. Unfilled = Kept(mainqueue, Waits(bstate, hBuf))
    BY DEF Unfilled, Waits
  <2>2. Unfilled' = Kept(mainqueue, Waits(bstate', hBuf'))
    BY DEF Unfilled, Waits
  <2> QED
    BY <2>1, <2>2, Zenon
<1> QED
  BY <1>1, <1>2, <1>3

(* REQBUFS: with no URB lost nothing was in flight, and no handler at work. *)
LEMMA ZeroFacts ==
  ASSUME IInv, RestInv, Undisturbed', ZeroQueue, NoIoctl
  PROVE  h' = "idle" /\ hBuf' = Nil /\ op' = "none" /\ opBuf' = Nil /\ fault' = FALSE
<1>1. UrbType /\ HType /\ UrbInv
  BY TypeParts DEF IInv
<1>2. ~orphaned /\ ~(LiveNow > 0)
  BY DEF Undisturbed, ZeroQueue, LoseUrbs
<1>3. h = "idle"
  BY <1>1, <1>2, NoneLost
<1>4. hBuf = Nil /\ op = "none" /\ opBuf = Nil
  BY <1>3 DEF RestInv, NoIoctl
<1> QED
  BY <1>3, <1>4 DEF ZeroQueue, opVars

LEMMA ZeroLists ==
  ASSUME IInv, RestInv, Undisturbed', ZeroQueue, NoIoctl
  PROVE  MainInv' /\ Line' = << >> /\ mainqueue' = << >>
<1>1. /\ hBuf' = Nil /\ opBuf' = Nil /\ mainqueue' = << >>
      /\ bstate' = [b \in Buffers |-> "IDLE"]
  BY ZeroFacts DEF ZeroQueue
<1>2. Line' = << >>
  BY <1>1, KeptEmpty DEF Line
<1>3. TwoParts(<< >>, Dones(bstate', hBuf'), Waits(bstate', hBuf'))
  <2>1. Dones(bstate', hBuf') \cap Waits(bstate', hBuf') = {}
    BY DEF Dones, Waits
  <2> QED
    BY <2>1, TwoPartsEmpty
<1>4. Range(<< >>) = {}
  BY EmptySeq DEF Range
<1> QED
  BY <1>1, <1>2, <1>3, <1>4 DEF MainInv

LEMMA ReqbufsLists ==
  ASSUME IInv, RestInv, Undisturbed', NEW n \in Buffers, Reqbufs(n)
  PROVE  ListInv'
<1>1. /\ h' = "idle" /\ op' = "none" /\ fault' = FALSE
      /\ MainInv' /\ Line' = << >>
  BY ZeroFacts, ZeroLists DEF Reqbufs
<1>2. count' > 0 /\ count' # 0
  BY NodeFacts DEF Reqbufs, Buffers
<1>3. HeadInv' /\ OpInv'
  BY <1>1 DEF HeadInv, OpInv, Working, Copying
<1>4. LinkInv'
  <2>1. next' = EmptyList /\ prev' = EmptyList
    BY DEF Reqbufs
  <2>2. NextChain(next', Line') /\ PrevChain(prev', Line')
    BY <1>1, <2>1, EmptyChains
  <2> QED
    BY <1>1, <2>2 DEF LinkInv
<1> QED
  BY <1>1, <1>2, <1>3, <1>4 DEF ListInv

LEMMA ReqbufsNoneLists ==
  ASSUME IInv, RestInv, Undisturbed', ReqbufsNone
  PROVE  ListInv'
<1>1. /\ h' = "idle" /\ op' = "none" /\ fault' = FALSE
      /\ MainInv' /\ mainqueue' = << >>
  BY ZeroFacts, ZeroLists DEF ReqbufsNone
<1>2. count' = 0 /\ next'[Irqq] = Nil
  BY DEF ReqbufsNone, NoLinks
<1> QED
  BY <1>1, <1>2 DEF ListInv, NoMemoryInv

(* VIDIOC_QBUF up to the first list: the buffer is behind the others in    *)
(* mainqueue, and waits, but is not yet in irqqueue.                       *)
LEMMA QbufLists ==
  ASSUME IInv, RestInv, ListInv, Undisturbed', NEW b \in Buffers, Qbuf(b)
  PROVE  ListInv'
<1> DEFINE D == Dones(bstate, hBuf)
           W == Waits(bstate, hBuf)
<1>0. TypeOK /\ MainInv
  BY DEF IInv, ListInv
<1>1. /\ bstate[b] = "IDLE" /\ op = "none" /\ opBuf = Nil /\ b <= count
      /\ hBuf # b /\ ~fault
  BY DEF Qbuf, NoIoctl, Running, RestInv, Undisturbed
<1>2. /\ b \notin Range(mainqueue) /\ b \notin D
      /\ mainqueue \in Seq(Buffers) /\ TwoParts(mainqueue, D, W)
  BY <1>0, <1>1, LineFacts DEF MainInv, Dones
<1>3. /\ UNCHANGED <<count, next, prev, opPrev, h, hBuf, hLinks, fault>>
      /\ op' = "read_tail" /\ opBuf' = b
      /\ mainqueue' = Append(mainqueue, b)
      /\ bstate' = [bstate EXCEPT ![b] = "QUEUED"]
  BY DEF Qbuf, irqLinks, hVars
<1>4. bstate \in [Buffers -> {"IDLE", "QUEUED", "DONE"}] /\ count \in 0 .. NBuf /\ count > 0
  BY <1>0, <1>1, NodeFacts DEF TypeOK, Buffers
<1>5. Waits(bstate', hBuf') = W \cup {b} /\ Dones(bstate', hBuf') = D
  BY <1>1, <1>3, <1>4 DEF Waits, Dones
<1>6. /\ TwoParts(mainqueue', D, W \cup {b})
      /\ Kept(mainqueue', W \cup {b}) = Append(Kept(mainqueue, W), b)
      /\ Range(mainqueue') = Range(mainqueue) \cup {b}
  BY <1>2, <1>3, TwoPartsAppend, RangeOfAppend
<1>7. MainInv'
  <2>1. Range(mainqueue') \subseteq 1 .. count'
    BY <1>0, <1>1, <1>3, <1>4, <1>6 DEF MainInv, Buffers
  <2>2. \A x \in Buffers : (bstate'[x] = "IDLE") <=> (x \notin Range(mainqueue'))
    BY <1>0, <1>3, <1>4, <1>6 DEF MainInv
  <2> QED
    BY <1>5, <1>6, <2>1, <2>2 DEF MainInv
<1>8. Line' = Line /\ Unfilled' = Append(Line, b)
  <2>1. Unfilled = Kept(mainqueue, W) /\ Line = Kept(mainqueue, W)
    BY <1>0, <1>1, LineFacts
  <2>2. Kept(mainqueue', (W \cup {b}) \ {b}) = Kept(mainqueue, (W \cup {b}) \ {b})
    BY <1>2, <1>3, KeptAppend
  <2>3. \A x \in Range(mainqueue) : x \in (W \cup {b}) \ {b} <=> x \in W
    BY <1>2
  <2>4. Kept(mainqueue, (W \cup {b}) \ {b}) = Kept(mainqueue, W)
    BY <1>2, <2>3, KeptAlike
  <2>5. Line' = Kept(mainqueue', (W \cup {b}) \ {b})
    BY <1>3, <1>5 DEF Line
  <2>6. Unfilled' = Kept(mainqueue', W \cup {b})
    <3>1. Unfilled' = Kept(mainqueue', Waits(bstate', hBuf'))
      BY DEF Unfilled, Waits
    <3> QED
      BY <1>5, <3>1, Zenon
  <2> QED
    BY <1>6, <2>1, <2>2, <2>4, <2>5, <2>6, Zenon
<1>9. bstate'[b] = "QUEUED" /\ \A x : x # b => bstate'[x] = bstate[x]
  BY <1>3, <1>4
<1>10. HeadInv /\ OpInv /\ LinkInv
  BY <1>4 DEF ListInv
<1> HIDE DEF D, W
<1>11. HeadInv' /\ OpInv'
  BY <1>1, <1>3, <1>8, <1>9, <1>10 DEF HeadInv, OpInv
<1>12. LinkInv'
  BY <1>1, <1>3, <1>8, <1>10 DEF LinkInv
<1> QED
  BY <1>1, <1>3, <1>4, <1>7, <1>11, <1>12 DEF ListInv

(* During an insertion there is memory, and the entry is not in the list.  *)
LEMMA InsertFacts ==
  ASSUME IInv, RestInv, ListInv, op # "none", ~fault
  PROVE  /\ count > 0 /\ HeadInv /\ OpInv /\ LinkInv
         /\ opBuf \in Buffers /\ opBuf \notin Range(Line)
         /\ Line \in Seq(Buffers) /\ IsInjective(Line)
         /\ next \in Links /\ prev \in Links
<1>1. TypeOK /\ MainInv
  BY DEF IInv, ListInv
<1>2. count # 0 /\ count \in Nat
  BY <1>1, NodeFacts DEF ListInv, NoMemoryInv, TypeOK
<1>3. HeadInv /\ OpInv /\ LinkInv
  BY <1>2 DEF ListInv
<1> QED
  BY <1>1, <1>2, <1>3, LineFacts DEF OpInv

LEMMA ReadTailLists ==
  ASSUME IInv, RestInv, ListInv, Undisturbed', ReadTail
  PROVE  ListInv'
<1>1. ~fault /\ op = "read_tail" /\ op' = "link_head" /\ opPrev' = prev[Irqq] /\ h # "unlink_next"
  BY DEF ReadTail, Running, Undisturbed, Overlap
<1>2. UNCHANGED <<count, mainqueue, bstate, next, prev, opBuf, h, hBuf, hLinks, fault>>
  BY DEF ReadTail, bufVars, irqLinks, hVars
<1>3. count > 0 /\ HeadInv /\ OpInv /\ LinkInv /\ Line \in Seq(Buffers)
  BY <1>1, InsertFacts
<1>4. Line' = Line /\ Unfilled' = Unfilled /\ MainInv'
  BY <1>2, LineFrame, MainFrame DEF ListInv
<1>5. prev[Irqq] = At(Line, Len(Line))
  BY <1>1, <1>3, PrevChainParts DEF LinkInv
<1>6. HeadInv' /\ OpInv'
  BY <1>1, <1>2, <1>3, <1>4, <1>5 DEF HeadInv, OpInv
<1>7. LinkInv'
  BY <1>1, <1>2, <1>3, <1>4 DEF LinkInv
<1> QED
  BY <1>1, <1>2, <1>3, <1>4, <1>6, <1>7 DEF ListInv

LEMMA LinkHeadLists ==
  ASSUME IInv, RestInv, ListInv, Undisturbed', LinkHead
  PROVE  ListInv'
<1>1. ~fault /\ op = "link_head" /\ op' = "link_new" /\ h # "unlink_next"
      /\ prev' = [prev EXCEPT ![Irqq] = opBuf]
  BY DEF LinkHead, Running, Undisturbed, Overlap
<1>2. UNCHANGED <<count, mainqueue, bstate, next, opBuf, opPrev, h, hBuf, hLinks, fault>>
  BY DEF LinkHead, bufVars, hVars
<1>3. /\ count > 0 /\ HeadInv /\ OpInv /\ LinkInv /\ Line \in Seq(Buffers)
      /\ opBuf \in Buffers /\ prev \in Links
  BY <1>1, InsertFacts
<1>4. Line' = Line /\ Unfilled' = Unfilled /\ MainInv'
  BY <1>2, LineFrame, MainFrame DEF ListInv
<1>5. PrevOpen(prev', Line, opBuf)
  BY <1>1, <1>3, PrevOpened DEF LinkInv
<1>6. HeadInv' /\ OpInv'
  BY <1>1, <1>2, <1>3, <1>4 DEF HeadInv, OpInv
<1>7. LinkInv'
  BY <1>1, <1>2, <1>3, <1>4, <1>5 DEF LinkInv
<1> QED
  BY <1>1, <1>2, <1>3, <1>4, <1>6, <1>7 DEF ListInv

LEMMA LinkNewLists ==
  ASSUME IInv, RestInv, ListInv, Undisturbed', LinkNew
  PROVE  ListInv'
<1>1. /\ ~fault /\ op = "link_new" /\ op' = "link_tail" /\ h # "unlink_next"
      /\ next' = [next EXCEPT ![opBuf] = Irqq] /\ prev' = [prev EXCEPT ![opBuf] = opPrev]
  BY DEF LinkNew, Running, Undisturbed, Overlap
<1>2. UNCHANGED <<count, mainqueue, bstate, opBuf, opPrev, h, hBuf, hLinks, fault>>
  BY DEF LinkNew, bufVars, hVars
<1>3. /\ count > 0 /\ HeadInv /\ OpInv /\ LinkInv /\ Line \in Seq(Buffers)
      /\ opBuf \in Buffers /\ opBuf \notin Range(Line) /\ prev \in Links /\ next \in Links
  BY <1>1, InsertFacts
<1>4. Line' = Line /\ Unfilled' = Unfilled /\ MainInv'
  BY <1>2, LineFrame, MainFrame DEF ListInv
<1>5. PrevChain(prev', Append(Line, opBuf))
  BY <1>1, <1>3, PrevClosed DEF LinkInv, OpInv
<1>6. NextChain(next', Line) /\ next'[opBuf] = Irqq
  BY <1>1, <1>3, NextApart DEF LinkInv, Links
<1>7. HeadInv' /\ OpInv'
  BY <1>1, <1>2, <1>3, <1>4 DEF HeadInv, OpInv
<1>8. LinkInv'
  BY <1>1, <1>2, <1>4, <1>5, <1>6 DEF LinkInv
<1> QED
  BY <1>1, <1>2, <1>3, <1>4, <1>7, <1>8 DEF ListInv

(* The insertion is complete: irqqueue is one buffer longer.               *)
LEMMA LinkTailLists ==
  ASSUME IInv, RestInv, ListInv, Undisturbed', LinkTail
  PROVE  ListInv'
<1>0. TypeOK /\ MainInv
  BY DEF IInv, ListInv
<1>1. /\ ~fault /\ op = "link_tail" /\ op' = "none" /\ opBuf' = Nil /\ h # "unlink_next"
      /\ fault' = (opPrev = Nil)
      /\ next' = IF opPrev = Nil THEN next ELSE [next EXCEPT ![opPrev] = opBuf]
  BY DEF LinkTail, Running, Undisturbed, Overlap
<1>2. UNCHANGED <<count, mainqueue, bstate, prev, h, hBuf, hLinks>>
  BY DEF LinkTail, bufVars, hVars
<1>3. /\ count > 0 /\ HeadInv /\ OpInv /\ LinkInv /\ Line \in Seq(Buffers) /\ IsInjective(Line)
      /\ opBuf \in Buffers /\ opBuf \notin Range(Line) /\ next \in Links
  BY <1>1, InsertFacts
<1>4. opPrev = At(Line, Len(Line)) /\ opPrev # Nil
  BY <1>1, <1>3, Lengths DEF OpInv
<1>5. ~fault' /\ next' = [next EXCEPT ![At(Line, Len(Line))] = opBuf]
  BY <1>1, <1>4
<1>6. NextChain(next', Append(Line, opBuf))
  BY <1>1, <1>3, <1>5, NextAppended DEF LinkInv
<1>7. MainInv'
  BY <1>0, <1>2, MainFrame
<1>8. Line' = Append(Line, opBuf)
  <2>1. Waits(bstate, hBuf) \ {opBuf'} = Waits(bstate, hBuf)
    BY <1>1, NodeFacts DEF Waits
  <2>2. Line' = Kept(mainqueue, Waits(bstate, hBuf))
    BY <1>2, <2>1 DEF Line
  <2>3. Unfilled = Kept(mainqueue, Waits(bstate, hBuf))
    BY <1>0, LineFacts
  <2> QED
    BY <1>1, <1>3, <2>2, <2>3 DEF OpInv
<1>9. Line # << >> => Line' # << >> /\ Head(Line') = Head(Line)
  BY <1>3, <1>8
<1>10. HeadInv'
  BY <1>2, <1>3, <1>9 DEF HeadInv
<1>11. OpInv'
  BY <1>1 DEF OpInv
<1>12. LinkInv'
  BY <1>1, <1>2, <1>3, <1>6, <1>8 DEF LinkInv
<1> QED
  BY <1>2, <1>3, <1>5, <1>7, <1>10, <1>11, <1>12 DEF ListInv

(* VIDIOC_DQBUF takes the first, a filled one, and irqqueue stays.         *)
LEMMA DqbufLists ==
  ASSUME IInv, RestInv, ListInv, Undisturbed', Dqbuf
  PROVE  ListInv'
<1> DEFINE D == Dones(bstate, hBuf)
           W == Waits(bstate, hBuf)
           b == Head(mainqueue)
<1>0. TypeOK /\ MainInv
  BY DEF IInv, ListInv
<1>1. /\ mainqueue # << >> /\ op = "none" /\ opBuf = Nil /\ ~fault
      /\ bstate[b] = "DONE" /\ bstate' = [bstate EXCEPT ![b] = "IDLE"]
      /\ hBuf # b /\ mainqueue' = Tail(mainqueue)
  BY DEF Dqbuf, NoIoctl, Running, RestInv, Undisturbed
<1>2. UNCHANGED <<count, next, prev, op, opBuf, opPrev, h, hBuf, hLinks, fault>>
  BY DEF Dqbuf, irqLinks, opVars, hVars
<1>3. /\ mainqueue \in Seq(Buffers) /\ TwoParts(mainqueue, D, W) /\ IsInjective(mainqueue)
      /\ b \in Buffers /\ bstate \in [Buffers -> {"IDLE", "QUEUED", "DONE"}]
  BY <1>0, <1>1, LineFacts, HeadTailProperties DEF MainInv, TypeOK
<1>4. b \in D /\ Waits(bstate', hBuf') = W /\ Dones(bstate', hBuf') = D \ {b}
  BY <1>1, <1>2, <1>3 DEF Waits, Dones
<1>5. /\ TwoParts(mainqueue', D \ {b}, W) /\ Kept(mainqueue', W) = Kept(mainqueue, W)
      /\ Range(mainqueue) = Range(mainqueue') \cup {b} /\ b \notin Range(mainqueue')
  <2>0. /\ mainqueue \in Seq(Buffers) /\ mainqueue # << >> /\ b = Head(mainqueue)
        /\ TwoParts(mainqueue, D, W) /\ b \in D
    BY <1>1, <1>3, <1>4
  <2> HIDE DEF D, W, b
  <2>1. /\ TwoParts(Tail(mainqueue), D \ {b}, W)
        /\ Kept(Tail(mainqueue), W) = Kept(mainqueue, W)
    BY <2>0, TwoPartsTake
  <2>2. Range(mainqueue) = Range(Tail(mainqueue)) \cup {b} /\ b \notin Range(Tail(mainqueue))
    BY <1>3, <2>0, TailOfInjective
  <2> QED
    BY <1>1, <2>1, <2>2
<1>6. MainInv'
  <2>1. Range(mainqueue') \subseteq 1 .. count'
    BY <1>0, <1>2, <1>5 DEF MainInv
  <2>2. \A x \in Buffers : (bstate'[x] = "IDLE") <=> (x \notin Range(mainqueue'))
    BY <1>0, <1>1, <1>3, <1>5 DEF MainInv
  <2> QED
    BY <1>4, <1>5, <2>1, <2>2 DEF MainInv
<1>7. Line' = Line
  <2>1. W \ {opBuf} = W
    BY <1>1, NodeFacts DEF Waits
  <2>2. Line = Kept(mainqueue, W)
    BY <2>1 DEF Line
  <2>3. Line' = Kept(mainqueue', W)
    BY <1>2, <1>4, <2>1 DEF Line
  <2> QED
    BY <1>5, <2>2, <2>3
<1>8. count > 0 /\ HeadInv /\ OpInv /\ LinkInv
  <2>1. count # 0 /\ count \in Nat
    BY <1>0, <1>1, NodeFacts DEF ListInv, NoMemoryInv, TypeOK
  <2> QED
    BY <2>1 DEF ListInv
<1>9. bstate'[hBuf] = bstate[hBuf]
  BY <1>1, <1>3
<1> HIDE DEF b, D, W
<1>10. HeadInv' /\ OpInv'
  BY <1>1, <1>2, <1>7, <1>8, <1>9 DEF HeadInv, OpInv
<1>11. LinkInv'
  BY <1>1, <1>2, <1>7, <1>8 DEF LinkInv
<1> QED
  BY <1>1, <1>2, <1>6, <1>8, <1>10, <1>11 DEF ListInv

-----------------------------------------------------------------------------
(* The steps of the handler.                                               *)

(* It starts on the first of irqqueue, which waits already; without memory *)
(* it follows a NULL pointer, unless the application is orderly.           *)
LEMMA CompleteFirstLists ==
  ASSUME IInv, RestInv, ListInv, Undisturbed, NEW kind \in Kinds, CompleteFirst(kind)
  PROVE  ListInv'
<1>0. TypeOK /\ MainInv /\ UrbInv
  BY DEF IInv, ListInv
<1>1. /\ ~fault /\ h = "idle" /\ hBuf = Nil /\ next[Irqq] # Irqq /\ InFlight(kind)
      /\ fault' = (next[Irqq] = Nil) /\ h' = "packet" /\ hBuf' = next[Irqq]
  BY DEF CompleteFirst, TakeUrb, Running, RestInv
<1>2. UNCHANGED <<count, mainqueue, bstate, next, prev, op, opBuf, opPrev, hLinks>>
  BY DEF CompleteFirst, bufVars, irqLinks, opVars
<1>3. CASE count = 0
  <2>1. next[Irqq] = Nil /\ NoMemoryInv
    BY <1>3 DEF ListInv, NoMemoryInv
  <2>2. hBuf' = hBuf /\ fault'
    BY <1>1, <2>1
  <2>3. ~Orderly
    <3>1. live > 0
      BY <1>0, <1>1 DEF InFlight, Undisturbed, UrbInv
    <3>2. on
      BY <1>0, <3>1 DEF UrbInv, StoppedIsQuiet, Undisturbed
    <3> QED
      BY <1>3, <3>2 DEF RestInv, Undisturbed
  <2>4. MainInv'
    BY <1>0, <1>2, <2>2, MainFrame
  <2> QED
    BY <1>2, <1>3, <2>1, <2>2, <2>3, <2>4 DEF ListInv, NoMemoryInv
<1>4. CASE count # 0
  <2>1. count > 0 /\ HeadInv /\ OpInv /\ LinkInv
    BY <1>0, <1>4, NodeFacts DEF TypeOK, ListInv
  <2>2. /\ Line \in Seq(Buffers)
        /\ Range(Line) = Range(mainqueue) \cap (Waits(bstate, hBuf) \ {opBuf})
    BY <1>0, LineFacts
  <2>3. next[Irqq] = At(Line, 1)
    BY <2>1, <2>2, NextChainParts DEF LinkInv
  <2>4. Line # << >> /\ next[Irqq] = Head(Line) /\ Head(Line) \in Buffers
    BY <1>1, <2>2, <2>3, Lengths
  <2>5. Head(Line) \in Range(Line)
    BY <2>2, <2>4, Lengths
  <2>6. bstate[hBuf'] = "QUEUED" /\ hBuf' \in Buffers /\ hBuf' # Nil /\ hBuf' = Head(Line)
    BY <1>1, <2>2, <2>4, <2>5, NodeFacts DEF Waits
  <2>7. /\ Waits(bstate', hBuf') = Waits(bstate, hBuf)
        /\ Dones(bstate', hBuf') = Dones(bstate, hBuf)
    BY <1>1, <1>2, <2>6, NodeFacts DEF Waits, Dones
  <2>8. MainInv' /\ Line' = Line /\ Unfilled' = Unfilled
    BY <1>0, <1>2, <2>7, SetsFrame
  <2>9. HeadInv' /\ OpInv'
    BY <1>1, <1>2, <2>1, <2>4, <2>6, <2>8 DEF HeadInv, OpInv
  <2>10. LinkInv'
    BY <1>1, <1>2, <2>1, <2>8 DEF LinkInv
  <2>11. ~fault' /\ count' = count
    BY <1>1, <1>2, <2>6
  <2> QED
    BY <2>1, <2>8, <2>9, <2>10, <2>11, <1>4 DEF ListInv
<1> QED
  BY <1>3, <1>4

(* While the handler works there is memory, and it works on the first.     *)
LEMMA WorkFacts ==
  ASSUME IInv, RestInv, ListInv, h # "idle", ~fault \/ count # 0
  PROVE  /\ count > 0 /\ HeadInv /\ OpInv /\ LinkInv
         /\ Line \in Seq(Buffers) /\ IsInjective(Line)
         /\ next \in Links /\ prev \in Links
         /\ h \in Working =>
              /\ Line # << >> /\ hBuf = Head(Line) /\ hBuf \in Buffers
              /\ hBuf \in Range(mainqueue) /\ hBuf # opBuf /\ bstate[hBuf] # "IDLE"
<1>1. TypeOK /\ MainInv
  BY DEF IInv, ListInv
<1>2. count # 0 /\ count \in Nat
  BY <1>1, NodeFacts DEF ListInv, NoMemoryInv, TypeOK
<1>3. HeadInv /\ OpInv /\ LinkInv
  BY <1>2 DEF ListInv
<1>4. /\ Line \in Seq(Buffers) /\ IsInjective(Line) /\ next \in Links /\ prev \in Links
      /\ Range(Line) = Range(mainqueue) \cap (Waits(bstate, hBuf) \ {opBuf})
  BY <1>1, LineFacts
<1>5. ASSUME h \in Working
      PROVE  /\ Line # << >> /\ hBuf = Head(Line) /\ hBuf \in Buffers
             /\ hBuf \in Range(mainqueue) /\ hBuf # opBuf /\ bstate[hBuf] # "IDLE"
  <2>1. Line # << >> /\ hBuf = Head(Line)
    BY <1>3, <1>5 DEF HeadInv
  <2>2. hBuf \in Range(Line) /\ hBuf \in Buffers
    BY <1>4, <2>1, Lengths
  <2> QED
    BY <1>1, <1>4, <2>1, <2>2 DEF MainInv
<1> QED
  BY <1>2, <1>3, <1>4, <1>5

(* A packet may fill the buffer, which stays where it is until the packets *)
(* of the URB are through; the copy stays in the buffer.                   *)
LEMMA PacketLists ==
  ASSUME IInv, RestInv, ListInv, Undisturbed, Packet \/ Copy
  PROVE  ListInv'
<1>0. TypeOK /\ MainInv
  BY DEF IInv, ListInv
<1>1. ~fault /\ h \in Copying /\ h' \in Copying
  BY DEF Packet, Copy, PacketDest, PacketSkipped, PacketCopy, PacketAdd, PacketStore, PacketFull,
         PacketEof, Running, Copying
<1>2. /\ UNCHANGED <<count, mainqueue, next, prev, op, opBuf, opPrev, hBuf, hLinks>>
      /\ bstate' \in {bstate, [bstate EXCEPT ![hBuf] = "DONE"]}
  BY DEF Packet, Copy, PacketDest, PacketSkipped, PacketCopy, PacketAdd, PacketStore, PacketFull,
         PacketEof, bufVars, irqLinks, opVars
<1>2a. ~fault'
  <2>1. CASE Packet
    BY <1>1, <2>1 DEF Packet, PacketDest, PacketSkipped, PacketAdd, PacketStore, PacketFull, PacketEof
  <2>2. ASSUME NEW len \in 0 .. MaxPayload, NEW eof \in BOOLEAN, PacketCopy(len, eof)
        PROVE  ~fault'
    <3>1. h = "copy" /\ ~stale /\ hBuf \in Buffers
      BY <1>1, <2>2 DEF PacketCopy, RestInv, Undisturbed, IInv, HandlerInv, Working
    <3>2. hNum = used[hBuf]
      BY <1>1, <3>1 DEF IInv, CopyInv
    <3> QED
      BY <1>0, <2>2, <3>1, <3>2, CopyFits, TypeParts
  <2> QED
    BY <2>1, <2>2 DEF Copy
<1>3. /\ count > 0 /\ HeadInv /\ OpInv /\ LinkInv
      /\ hBuf \in Buffers /\ hBuf # opBuf /\ bstate[hBuf] # "IDLE"
  BY <1>1, WorkFacts DEF Working, Copying
<1>4. bstate \in [Buffers -> {"IDLE", "QUEUED", "DONE"}]
  BY <1>0 DEF TypeOK
<1>5. /\ \A b \in Buffers : b # hBuf => bstate'[b] = bstate[b]
      /\ bstate'[hBuf] # "IDLE"
  BY <1>2, <1>3, <1>4
<1>6. /\ Waits(bstate', hBuf') = Waits(bstate, hBuf)
      /\ Dones(bstate', hBuf') = Dones(bstate, hBuf)
  BY <1>2, <1>5 DEF Waits, Dones
<1>7. \A b \in Buffers : (bstate'[b] = "IDLE") <=> (bstate[b] = "IDLE")
  BY <1>3, <1>5
<1>8. MainInv' /\ Line' = Line /\ Unfilled' = Unfilled
  BY <1>0, <1>2, <1>6, <1>7, SetsFrame
<1>9. HeadInv' /\ OpInv'
  BY <1>1, <1>2, <1>3, <1>5, <1>8 DEF HeadInv, OpInv, Working, Copying
<1>10. LinkInv'
  BY <1>1, <1>2, <1>3, <1>8 DEF LinkInv, Copying
<1> QED
  BY <1>2, <1>2a, <1>3, <1>8, <1>9, <1>10 DEF ListInv

LEMMA EndOfPacketsLists ==
  ASSUME IInv, RestInv, ListInv, EndOfPackets
  PROVE  ListInv'
<1>0. TypeOK /\ MainInv
  BY DEF IInv, ListInv
<1>1. ~fault /\ h = "packet"
  BY DEF EndOfPackets, Running
<1>2. /\ UNCHANGED <<count, mainqueue, bstate, next, prev, op, opBuf, opPrev, hLinks, fault>>
      /\ h' = IF bstate[hBuf] = "DONE" THEN "unlink_prev" ELSE "resubmit"
      /\ hBuf' = IF bstate[hBuf] = "DONE" THEN hBuf ELSE Nil
  BY DEF EndOfPackets, bufVars, irqLinks, opVars
<1>3. /\ count > 0 /\ HeadInv /\ OpInv /\ LinkInv
      /\ hBuf \in Buffers /\ bstate[hBuf] # "IDLE"
      /\ bstate \in [Buffers -> {"IDLE", "QUEUED", "DONE"}]
  BY <1>0, <1>1, WorkFacts DEF TypeOK, Working, Copying
<1>4. /\ Waits(bstate', hBuf') = Waits(bstate, hBuf)
      /\ Dones(bstate', hBuf') = Dones(bstate, hBuf)
  <2>1. CASE bstate[hBuf] = "DONE"
    BY <1>2, <2>1
  <2>2. CASE bstate[hBuf] = "QUEUED"
    BY <1>2, <1>3, <2>2, NodeFacts DEF Waits, Dones
  <2> QED
    BY <1>3, <2>1, <2>2
<1>5. MainInv' /\ Line' = Line /\ Unfilled' = Unfilled
  BY <1>0, <1>2, <1>4, SetsFrame
<1>6. HeadInv' /\ OpInv'
  BY <1>1, <1>2, <1>3, <1>5 DEF HeadInv, OpInv, Working, Copying
<1>7. LinkInv'
  BY <1>1, <1>2, <1>3, <1>5 DEF LinkInv
<1> QED
  BY <1>1, <1>2, <1>3, <1>5, <1>6, <1>7 DEF ListInv

(* list_del, first half: the second of irqqueue, or the head, is now first *)
(* by the "prev" links.                                                    *)
LEMMA UnlinkPrevLists ==
  ASSUME IInv, RestInv, ListInv, Undisturbed', UnlinkPrev
  PROVE  ListInv'
<1>0. MainInv /\ TypeOK
  BY DEF ListInv, IInv
<1>1. /\ ~fault /\ h = "unlink_prev" /\ h' = "unlink_next"
      /\ op \notin {"link_head", "link_new", "link_tail"}
      /\ hLinks' = <<prev[hBuf], next[hBuf]>>
      /\ fault' = (Nil \in {prev[hBuf], next[hBuf]})
      /\ prev' = IF next[hBuf] = Nil THEN prev ELSE [prev EXCEPT ![next[hBuf]] = prev[hBuf]]
  BY DEF UnlinkPrev, Running, Undisturbed
<1>2. UNCHANGED <<count, mainqueue, bstate, next, op, opBuf, opPrev, hBuf>>
  BY DEF UnlinkPrev, bufVars, opVars
<1>3. /\ count > 0 /\ HeadInv /\ OpInv /\ LinkInv
      /\ Line \in Seq(Buffers) /\ IsInjective(Line) /\ next \in Links /\ prev \in Links
      /\ Line # << >> /\ hBuf = Head(Line)
  BY <1>1, WorkFacts DEF Working
<1>4. op \in {"none", "read_tail"}
  BY <1>0, <1>1 DEF TypeOK
<1>5. NextChain(next, Line) /\ PrevChain(prev, Line)
  BY <1>1, <1>3, <1>4 DEF LinkInv
<1>6. /\ prev[hBuf] = Irqq /\ next[hBuf] = At(Line, 2)
      /\ PrevChain([prev EXCEPT ![At(Line, 2)] = Irqq], Tail(Line))
  BY <1>3, <1>5, PrevUnlinked
<1>7. At(Line, 2) # Nil /\ Irqq # Nil
  BY <1>3, Lengths, NodeFacts
<1>8. /\ ~fault' /\ prev' = [prev EXCEPT ![At(Line, 2)] = Irqq]
      /\ hLinks' = <<Irqq, At(Line, 2)>>
  BY <1>1, <1>6, <1>7
<1>9. MainInv' /\ Line' = Line /\ Unfilled' = Unfilled
  BY <1>0, <1>2, MainFrame, LineFrame
<1>10. HeadInv' /\ OpInv'
  BY <1>1, <1>2, <1>3, <1>4, <1>9 DEF HeadInv, OpInv
<1>11. LinkInv'
  BY <1>1, <1>2, <1>4, <1>5, <1>6, <1>8, <1>9 DEF LinkInv
<1> QED
  BY <1>2, <1>3, <1>8, <1>9, <1>10, <1>11 DEF ListInv

(* A queue that grows at the end keeps its first.                          *)
LEMMA TailOfAppend ==
  ASSUME NEW q \in Seq(Buffers), q # << >>, NEW b \in Buffers
  PROVE  /\ Head(Append(q, b)) = Head(q) /\ Append(q, b) # << >>
         /\ Tail(Append(q, b)) = Append(Tail(q), b)
<1>1. /\ <<b>> \in Seq(Buffers) /\ Tail(q) \in Seq(Buffers)
      /\ Append(q, b) = q \o <<b>> /\ Append(Tail(q), b) = Tail(q) \o <<b>>
  BY AppendIsConcat, HeadTailProperties
<1> QED
  BY <1>1, TailOfConcat

(* list_del, second half: the buffer is out of irqqueue and filled, and    *)
(* in mainqueue it is the last of the filled ones.                         *)
LEMMA UnlinkNextLists ==
  ASSUME IInv, RestInv, ListInv, Undisturbed', UnlinkNext
  PROVE  ListInv'
<1> DEFINE D == Dones(bstate, hBuf)
           W == Waits(bstate, hBuf)
<1>0. MainInv /\ TypeOK
  BY DEF ListInv, IInv
<1>1. /\ ~fault /\ h = "unlink_next" /\ h' = "resubmit"
      /\ op \notin {"link_head", "link_new", "link_tail"}
      /\ next' = [next EXCEPT ![hLinks[1]] = hLinks[2], ![hBuf] = Nil]
      /\ prev' = [prev EXCEPT ![hBuf] = Nil] /\ hBuf' = Nil
  BY DEF UnlinkNext, Running, Undisturbed
<1>2. UNCHANGED <<count, mainqueue, bstate, op, opBuf, opPrev, fault>>
  BY DEF UnlinkNext, bufVars, opVars
<1>3. /\ count > 0 /\ HeadInv /\ OpInv /\ LinkInv
      /\ Line \in Seq(Buffers) /\ IsInjective(Line) /\ next \in Links /\ prev \in Links
      /\ Line # << >> /\ hBuf = Head(Line) /\ hBuf \in Buffers /\ bstate[hBuf] = "DONE"
  BY <1>1, WorkFacts DEF HeadInv, Working
<1>4. op \in {"none", "read_tail"}
  BY <1>0, <1>1 DEF TypeOK
<1>5. /\ NextChain(next, Line) /\ PrevChain(prev, Tail(Line))
      /\ hLinks[1] = Irqq /\ hLinks[2] = At(Line, 2)
  BY <1>1, <1>3 DEF LinkInv
<1>6. Tail(Line) \in Seq(Buffers) /\ hBuf \notin Range(Tail(Line))
  BY <1>3, TailOfInjective, HeadTailProperties
<1>7. NextChain(next', Tail(Line))
  BY <1>1, <1>3, <1>5, NextUnlinked
<1>8. PrevChain(prev', Tail(Line))
  BY <1>1, <1>3, <1>5, <1>6, PrevApart
<1>9. /\ mainqueue \in Seq(Buffers) /\ TwoParts(mainqueue, D, W)
      /\ Unfilled = Kept(mainqueue, W) /\ (op = "none" => Line = Unfilled)
  BY <1>0, LineFacts DEF MainInv
<1>10. /\ Unfilled # << >> /\ Head(Unfilled) = hBuf
       /\ op # "none" => Tail(Unfilled) = Append(Tail(Line), opBuf)
  <2>1. CASE op = "none"
    BY <1>3, <1>9, <2>1
  <2>2. CASE op # "none"
    BY <1>3, <2>2, TailOfAppend DEF OpInv
  <2> QED
    BY <2>1, <2>2
<1>11. Waits(bstate', hBuf') = W \ {hBuf} /\ Dones(bstate', hBuf') = D \cup {hBuf}
  <2>1. bstate' = bstate /\ hBuf' \notin Buffers
    BY <1>1, <1>2, NodeFacts
  <2> QED
    BY <1>3, <2>1 DEF Waits, Dones
<1> HIDE DEF D, W
<1>12. TwoPartsMoved(mainqueue, D, W, hBuf)
  BY <1>9, <1>10, TwoPartsMove
<1>13. MainInv'
  <2>1. TwoParts(mainqueue', Dones(bstate', hBuf'), Waits(bstate', hBuf'))
    BY <1>2, <1>11, <1>12 DEF TwoPartsMoved
  <2> QED
    BY <1>0, <1>2, <2>1 DEF MainInv
<1>14. Unfilled' = Tail(Unfilled)
  <2>1. Unfilled' = Kept(mainqueue', Waits(bstate', hBuf'))
    BY DEF Unfilled, Waits
  <2>2. Kept(mainqueue, W \ {hBuf}) = Tail(Kept(mainqueue, W))
    BY <1>12 DEF TwoPartsMoved
  <2> QED
    BY <1>2, <1>9, <1>11, <2>1, <2>2
<1>15. Line' = Tail(Line)
  <2>1. Line = Kept(mainqueue, W \ {opBuf})
    BY DEF Line, W
  <2>2. Line' = Kept(mainqueue, (W \ {hBuf}) \ {opBuf})
    BY <1>2, <1>11 DEF Line
  <2>3. (W \ {hBuf}) \ {opBuf} = (W \ {opBuf}) \cap (Buffers \ {hBuf})
    BY DEF W, Waits
  <2>4. Kept(Kept(mainqueue, W \ {opBuf}), Buffers \ {hBuf})
          = Kept(mainqueue, (W \ {opBuf}) \cap (Buffers \ {hBuf}))
    BY <1>9, KeptKept
  <2>5. Kept(Line, Buffers \ {hBuf}) = Tail(Line)
    BY <1>3, KeptWithoutHead
  <2> QED
    BY <2>1, <2>2, <2>3, <2>4, <2>5
<1>16. HeadInv'
  BY <1>1 DEF HeadInv, Working, Copying
<1>17. OpInv'
  BY <1>1, <1>2, <1>3, <1>4, <1>10, <1>14, <1>15 DEF OpInv
<1>18. LinkInv'
  BY <1>1, <1>2, <1>4, <1>7, <1>8, <1>15 DEF LinkInv
<1> QED
  BY <1>1, <1>2, <1>3, <1>13, <1>16, <1>17, <1>18 DEF ListInv

(* What starts or ends a URB without a buffer, skips a packet or only      *)
(* counts URBs leaves the lists alone.                                     *)
LEMMA IdleLists ==
  ASSUME IInv, RestInv, ListInv, ~fault,
         UNCHANGED <<count, mainqueue, bstate, next, prev, op, opBuf, opPrev, hBuf, hLinks, fault>>,
         \/ h' = h
         \/ count > 0 /\ h # "unlink_next" /\ h' \in {"idle", "resubmit"}
  PROVE  ListInv'
<1>1. MainInv' /\ Line' = Line /\ Unfilled' = Unfilled
  BY MainFrame, LineFrame DEF ListInv
<1>2. ASSUME count' = 0 PROVE NoMemoryInv'
  BY <1>2 DEF ListInv, NoMemoryInv
<1>3. ASSUME count' > 0 PROVE HeadInv' /\ OpInv' /\ LinkInv'
  <2>1. HeadInv /\ OpInv /\ LinkInv
    BY <1>3 DEF ListInv
  <2> QED
    BY <1>1, <2>1 DEF HeadInv, OpInv, LinkInv, Working, Copying
<1> QED
  BY <1>1, <1>2, <1>3 DEF ListInv

LEMMA StreamLists ==
  ASSUME IInv, RestInv, ListInv,
         Streamon \/ Streamoff \/ \E k \in 0 .. NUrb - 1 : StreamonFails(k)
  PROVE  ListInv'
<1>1. ~fault /\ h' = h
      /\ UNCHANGED <<count, mainqueue, bstate, next, prev, op, opBuf, opPrev, hBuf, hLinks, fault>>
  BY DEF Streamon, Streamoff, StreamonFails, NoIoctl, Running, bufVars, irqLinks, opVars, hVars
<1> QED
  BY <1>1, IdleLists

LEMMA DqbufUnallocatedLists ==
  ASSUME RestInv, ListInv, DqbufUnallocated
  PROVE  ListInv'
<1>1. /\ UNCHANGED <<count, mainqueue, bstate, next, prev, op, opBuf, opPrev, h, hBuf, hLinks>>
      /\ fault' /\ ~Orderly /\ count = 0 /\ count' = 0
  BY DEF DqbufUnallocated, bufVars, irqLinks, opVars, hVars
<1>2. MainInv'
  BY <1>1, MainFrame DEF ListInv
<1> QED
  BY <1>1, <1>2 DEF ListInv, NoMemoryInv

LEMMA TooManyLists ==
  ASSUME RestInv, ListInv, ReqbufsTooMany
  PROVE  ListInv'
<1>1. /\ UNCHANGED <<count, mainqueue, bstate, next, prev, op, opBuf, opPrev, h, hBuf, hLinks>>
      /\ fault' /\ ~Orderly
  BY DEF ReqbufsTooMany, bufVars, irqLinks, opVars, hVars
<1>2. MainInv' /\ Line' = Line /\ Unfilled' = Unfilled
  BY <1>1, MainFrame, LineFrame DEF ListInv
<1> QED
  BY <1>1, <1>2 DEF ListInv, NoMemoryInv, HeadInv, OpInv, LinkInv

LEMMA UrbLists ==
  ASSUME IInv, RestInv, ListInv,
         \/ \E kind \in Kinds : CompleteError(kind) \/ CompleteNoBuffer(kind)
         \/ Resubmit \/ ResubmitFails
  PROVE  ListInv'
<1>1. /\ UNCHANGED <<count, mainqueue, bstate, next, prev, op, opBuf, opPrev, hBuf, hLinks, fault>>
      /\ ~fault
  BY DEF CompleteError, CompleteNoBuffer, Resubmit, ResubmitFails, TakeUrb, Running,
         bufVars, irqLinks, opVars, hVars
<1>2. CASE \E kind \in Kinds : CompleteError(kind)
  <2>1. h' = h
    BY <1>2 DEF CompleteError, hVars
  <2> QED
    BY <1>1, <2>1, IdleLists
<1>3. CASE \E kind \in Kinds : CompleteNoBuffer(kind)
  <2>1. h = "idle" /\ h' = "resubmit" /\ next[Irqq] = Irqq
    BY <1>3 DEF CompleteNoBuffer, TakeUrb
  <2>2. count # 0 /\ count \in Nat
    BY <2>1, NodeFacts DEF ListInv, NoMemoryInv, IInv, TypeOK
  <2> QED
    BY <1>1, <2>1, <2>2, IdleLists
<1>4. CASE Resubmit \/ ResubmitFails
  <2>1. h = "resubmit" /\ h' = "idle"
    BY <1>4 DEF Resubmit, ResubmitFails
  <2>2. count > 0
    BY <1>1, <2>1, WorkFacts
  <2> QED
    BY <1>1, <2>1, <2>2, IdleLists
<1> QED
  BY <1>2, <1>3, <1>4

LEMMA StutterLists ==
  ASSUME ListInv, UNCHANGED vars
  PROVE  ListInv'
<1>1. UNCHANGED <<count, mainqueue, bstate, next, prev, op, opBuf, opPrev, h, hBuf, hLinks, fault>>
  BY DEF vars, bufVars, irqLinks, opVars, hVars
<1>2. MainInv' /\ Line' = Line /\ Unfilled' = Unfilled
  BY <1>1, MainFrame, LineFrame DEF ListInv
<1> QED
  BY <1>1, <1>2 DEF ListInv, NoMemoryInv, HeadInv, OpInv, LinkInv

-----------------------------------------------------------------------------
(* The invariant of the queues.                                            *)

LEMMA QueueInit == Init => QueueInv
<1> SUFFICES ASSUME Init PROVE QueueInv
  OBVIOUS
<1>1. RestInv
  BY DEF Init, RestInv
<1>2. MainInv
  <2>1. /\ mainqueue = << >> /\ bstate = [b \in Buffers |-> "IDLE"]
        /\ Dones(bstate, hBuf) \cap Waits(bstate, hBuf) = {}
    BY DEF Init, Dones, Waits
  <2>2. TwoParts(mainqueue, Dones(bstate, hBuf), Waits(bstate, hBuf))
    BY <2>1, TwoPartsEmpty
  <2>3. Range(mainqueue) = {}
    BY <2>1, EmptySeq DEF Range
  <2> QED
    BY <2>1, <2>2, <2>3 DEF MainInv
<1>3. NoMemoryInv
  BY DEF Init, NoMemoryInv, NoLinks
<1> QED
  BY <1>1, <1>2, <1>3 DEF QueueInv, ListInv, Init

LEMMA QueueStep ==
  ASSUME IInv, QueueInv, [Next]_vars
  PROVE  QueueInv'
<1>0. TypeOK /\ RestInv
  BY DEF IInv, QueueInv
<1>1. RestInv'
  BY <1>0, RestStep
<1>2. ASSUME Undisturbed' PROVE ListInv'
  <2>0. Undisturbed /\ ListInv
    <3>1. Undisturbed
      BY <1>2, RacedStays, OrphanedStays, Zenon DEF Undisturbed
    <3> QED
      BY <3>1 DEF QueueInv
  <2>1. CASE Ioctl
    BY <1>0, <1>2, <2>0, <2>1, ReqbufsLists, ReqbufsNoneLists, QbufLists, ReadTailLists,
       LinkHeadLists, LinkNewLists, LinkTailLists, DqbufLists, DqbufUnallocatedLists, TooManyLists,
       StreamLists
    DEF Ioctl, Insertion
  <2>2. CASE Handler
    BY <1>0, <1>2, <2>0, <2>2, UrbLists, CompleteFirstLists, PacketLists, EndOfPacketsLists,
       UnlinkPrevLists, UnlinkNextLists
    DEF Handler, Complete
  <2>3. CASE UNCHANGED vars
    BY <2>0, <2>3, StutterLists
  <2> QED
    BY <2>1, <2>2, <2>3 DEF Next
<1> QED
  BY <1>1, <1>2 DEF QueueInv

LEMMA QueueInvariance == Spec => [](IInv /\ QueueInv)
<1>1. Init => QueueInv
  BY QueueInit
<1>2. IInv /\ QueueInv /\ [Next]_vars => QueueInv'
  BY QueueStep
<1> QED
  BY <1>1, <1>2, Invariance, PTL DEF Spec

(* An application that keeps the order of the calls and asks for at most   *)
(* the NBuf buffers the array has never makes the kernel follow a NULL,    *)
(* poisoned or freed pointer or write behind a buffer, until ioctl and     *)
(* handler overlap or a URB is lost.                                       *)
THEOREM NoFaultTheorem == Spec => []NoFault
<1>1. QueueInv => NoFault
  BY DEF QueueInv, ListInv, NoFault
<1> QED
  BY QueueInvariance, <1>1, PTL

(* Between updates irqqueue holds, forward and backward, the buffers of    *)
(* mainqueue that wait, in the order they were queued, and what is in      *)
(* neither queue is IDLE.                                                  *)
THEOREM QueuesAgreeTheorem == Spec => []QueuesAgree
<1>1. IInv /\ QueueInv => QueuesAgree
  <2> SUFFICES ASSUME IInv, QueueInv, Undisturbed, op = "none", h # "unlink_next", count > 0
               PROVE  /\ Linked(Unfilled)
                      /\ \A b \in 1 .. count : (bstate[b] = "IDLE") <=> b \notin Range(mainqueue)
    BY DEF QueuesAgree
  <2>1. TypeOK /\ RestInv /\ ListInv /\ MainInv /\ LinkInv
    BY DEF IInv, QueueInv, ListInv
  <2>2. Line = Unfilled
    BY <2>1, LineFacts
  <2>3. Linked(Unfilled)
    BY <2>1, <2>2 DEF LinkInv, NextChain, PrevChain, Linked
  <2>4. 1 .. count \subseteq Buffers
    BY <2>1, NodeFacts DEF TypeOK, Buffers
  <2> QED
    BY <2>1, <2>3, <2>4 DEF MainInv
<1> QED
  BY QueueInvariance, <1>1, PTL

(* The buffer of the handler is the first of those that wait.              *)
LEMMA FirstWaits ==
  ASSUME IInv, RestInv, ListInv, hBuf # Nil, ~fault \/ count # 0
  PROVE  /\ Unfilled # << >> /\ hBuf = Head(Unfilled) /\ hBuf \in Buffers
         /\ hBuf \in Range(mainqueue) /\ bstate[hBuf] # "IDLE" /\ h # "idle"
<1>1. TypeOK /\ MainInv
  BY DEF IInv, ListInv
<1>2. h \in Working /\ h # "idle"
  BY <1>1 DEF RestInv, TypeOK, Working, Copying
<1>3. /\ OpInv /\ Line # << >> /\ hBuf = Head(Line) /\ hBuf \in Buffers
      /\ hBuf \in Range(mainqueue) /\ bstate[hBuf] # "IDLE" /\ Line \in Seq(Buffers)
  BY <1>2, WorkFacts
<1>4. op # "none" => Unfilled # << >> /\ Head(Unfilled) = Head(Line)
  BY <1>3, TailOfAppend DEF OpInv
<1>5. op = "none" => Unfilled = Line
  BY <1>1, LineFacts
<1> QED
  BY <1>2, <1>3, <1>4, <1>5

(* VIDIOC_DQBUF looks at the first buffer of mainqueue only, and misses no *)
(* filled one: those come first.                                           *)
THEOREM DoneFirstTheorem == Spec => []DoneFirst
<1>1. IInv /\ QueueInv => DoneFirst
  <2> SUFFICES ASSUME IInv, QueueInv, Undisturbed,
                      NEW i \in 1 .. Len(mainqueue), NEW j \in 1 .. Len(mainqueue),
                      i < j, bstate[mainqueue[j]] = "DONE"
               PROVE  bstate[mainqueue[i]] = "DONE"
    BY DEF DoneFirst
  <2> DEFINE d == Kept(mainqueue, Dones(bstate, hBuf))
             w == Kept(mainqueue, Waits(bstate, hBuf))
  <2>1. TypeOK /\ RestInv /\ ListInv /\ MainInv
    BY DEF IInv, QueueInv, ListInv
  <2>2. /\ mainqueue \in Seq(Buffers) /\ mainqueue = d \o w /\ Unfilled = w
        /\ IsInjective(mainqueue)
    BY <2>1, LineFacts DEF MainInv, TwoParts
  <2>3. /\ d \in Seq(Buffers) /\ w \in Seq(Buffers)
        /\ Range(d) = Range(mainqueue) \cap Dones(bstate, hBuf)
        /\ Range(w) = Range(mainqueue) \cap Waits(bstate, hBuf)
    BY <2>2, KeptType, KeptRange
  <2> HIDE DEF d, w
  <2>4. /\ Len(d) \in Nat /\ Len(w) \in Nat /\ Len(mainqueue) = Len(d) + Len(w)
        /\ \A k \in 1 .. Len(mainqueue) :
             mainqueue[k] = IF k <= Len(d) THEN d[k] ELSE w[k - Len(d)]
    BY <2>2, <2>3, ConcatProperties, LenProperties
  <2>5. CASE i <= Len(d)
    <3>1. i \in 1 .. Len(d) /\ mainqueue[i] = d[i]
      BY <2>4, <2>5
    <3>2. d[i] \in Range(d)
      BY <2>3, <3>1, Lengths
    <3> QED
      BY <2>3, <3>1, <3>2 DEF Dones
  <2>6. CASE i > Len(d)
    <3> DEFINE k == j - Len(d)
    <3>1. k \in 1 .. Len(w) /\ k # 1 /\ mainqueue[j] = w[k] /\ 1 \in 1 .. Len(w)
      BY <2>4, <2>6
    <3>2. w[k] \in Range(w)
      BY <2>3, <3>1, Lengths
    <3>3. w[k] = hBuf /\ w[k] \in Buffers
      BY <2>3, <3>1, <3>2 DEF Waits
    <3>4. count # 0
      <4>1. mainqueue # << >>
        BY <2>2
      <4> QED
        BY <2>1, <4>1 DEF ListInv, NoMemoryInv
    <3>5. w # << >> /\ hBuf = Head(w)
      BY <2>1, <2>2, <3>3, <3>4, FirstWaits, NodeFacts
    <3>6. w[1] = w[k] /\ IsInjective(w)
      BY <2>3, <3>3, <3>5, <2>2, KeptInjective, Lengths DEF w
    <3>7. FALSE
      BY <2>3, <3>1, <3>6, Injective
    <3> QED
      BY <3>7
  <2> QED
    BY <2>4, <2>5, <2>6
<1> QED
  BY QueueInvariance, <1>1, PTL

(* A buffer the application holds is neither written nor filled by the     *)
(* handler, as long as no ioctl overlaps with it and no URB is lost.       *)
THEOREM HeldTheorem == Spec => AppBufferUntouched
<1>1. IInv /\ QueueInv /\ [Next]_vars =>
        [\A b \in Buffers :
           (bstate[b] = "IDLE" /\ Undisturbed') =>
             bstate'[b] # "DONE" /\ used'[b] <= used[b]]_<<bstate, used, raced, orphaned>>
  <2> SUFFICES ASSUME IInv, QueueInv, [Next]_vars, Undisturbed',
                      NEW b \in Buffers, bstate[b] = "IDLE"
               PROVE  bstate'[b] # "DONE" /\ used'[b] <= used[b]
    OBVIOUS
  <2>1. Undisturbed /\ ListInv /\ RestInv
    <3>1. Undisturbed
      BY RacedStays, OrphanedStays, Zenon DEF Undisturbed
    <3> QED
      BY <3>1 DEF QueueInv
  <2>2. /\ bstate \in [Buffers -> {"IDLE", "QUEUED", "DONE"}]
        /\ used \in [Buffers -> 0 .. Length] /\ used[b] \in Nat /\ used[b] >= 0
    BY NodeFacts DEF IInv, TypeOK
  <2>3. CASE UNCHANGED <<bstate, used>>
    BY <2>2, <2>3
  <2>4. CASE ZeroQueue
    BY <2>2, <2>4 DEF ZeroQueue
  <2>5. ASSUME NEW c \in Buffers, Qbuf(c) PROVE bstate'[b] # "DONE" /\ used'[b] <= used[b]
    BY <2>2, <2>5 DEF Qbuf
  <2>6. CASE Dqbuf
    BY <2>2, <2>6 DEF Dqbuf
  <2>7. CASE PacketStore \/ PacketFull \/ PacketEof
    <3>1. hBuf # b
      BY <2>1, <2>7, WorkFacts DEF PacketStore, PacketFull, PacketEof, Running, Working, Copying
    <3> QED
      BY <2>2, <2>7, <3>1 DEF PacketStore, PacketFull, PacketEof
  <2>8. \/ UNCHANGED <<bstate, used>> \/ ZeroQueue \/ Dqbuf
        \/ \E c \in Buffers : Qbuf(c)
        \/ PacketStore \/ PacketFull \/ PacketEof
    <3>1. CASE Ioctl
      BY <3>1 DEF Ioctl, Insertion, Reqbufs, ReqbufsNone, ReqbufsTooMany, ReadTail, LinkHead, LinkNew,
                  LinkTail, DqbufUnallocated, Streamon, StreamonFails, Streamoff, bufVars
    <3>2. CASE Handler
      BY <3>2 DEF Handler, Complete, CompleteError, CompleteNoBuffer, CompleteFirst, Packet, Copy,
                  PacketDest, PacketSkipped, PacketCopy, PacketAdd, EndOfPackets, UnlinkPrev,
                  UnlinkNext, Resubmit, ResubmitFails, bufVars
    <3> QED
      BY <3>1, <3>2 DEF Next, vars, bufVars
  <2> QED
    BY <2>3, <2>4, <2>5, <2>6, <2>7, <2>8
<1> QED
  BY QueueInvariance, <1>1, PTL DEF Spec, AppBufferUntouched

-----------------------------------------------------------------------------
(* Refinement: each step, while nothing overlaps, is a step of             *)
(* CaptureQueue or none.                                                   *)

Calm == IInv /\ RestInv /\ ListInv /\ Undisturbed /\ ~fault

LEMMA CaptureInit == Init => Capture!Init
<1> SUFFICES ASSUME Init PROVE Capture!Init
  OBVIOUS
<1>1. Held = {}
  BY DEF Init, Held
<1>2. InState("QUEUED") = << >> /\ InState("DONE") = << >>
  BY KeptEmpty DEF Init, InState
<1>3. on = FALSE /\ (~Undisturbed \/ fault) = FALSE
  BY DEF Init, Undisturbed
<1> QED
  BY <1>1, <1>2, <1>3 DEF Capture!Init

LEMMA CaptureFrame ==
  ASSUME UNCHANGED <<count, bstate, mainqueue>>
  PROVE  UNCHANGED <<Held, InState("QUEUED"), InState("DONE")>>
  BY DEF Held, InState

(* REQBUFS: n new buffers, or none.                                        *)
LEMMA ReqbufsIsReset ==
  ASSUME NEW n \in 0 .. NBuf, ZeroQueue, count' = n
  PROVE  /\ Held' = 1 .. n /\ InState("QUEUED")' = << >> /\ InState("DONE")' = << >>
         /\ on' = on
<1>1. mainqueue' = << >> /\ bstate' = [b \in Buffers |-> "IDLE"] /\ on' = on
  BY DEF ZeroQueue
<1>2. 1 .. n \subseteq Buffers
  BY NodeFacts DEF Buffers
<1> QED
  BY <1>1, <1>2, KeptEmpty DEF Held, InState

LEMMA QbufIsQueue ==
  ASSUME Calm, NEW b \in Buffers, Qbuf(b)
  PROVE  /\ b \in Held /\ Held' = Held \ {b}
         /\ InState("QUEUED")' = Append(InState("QUEUED"), b)
         /\ UNCHANGED <<InState("DONE"), on>>
<1>1. /\ bstate[b] = "IDLE" /\ b <= count /\ UNCHANGED <<count, on>>
      /\ mainqueue' = Append(mainqueue, b) /\ bstate' = [bstate EXCEPT ![b] = "QUEUED"]
  BY DEF Qbuf
<1>2. /\ mainqueue \in Seq(Buffers) /\ bstate \in [Buffers -> {"IDLE", "QUEUED", "DONE"}]
      /\ count \in 0 .. NBuf /\ b \notin Range(mainqueue)
  BY <1>1 DEF Calm, IInv, TypeOK, ListInv, MainInv
<1>3. b \in Held /\ Held' = Held \ {b}
  <2>1. b \in 1 .. count /\ 1 .. count \subseteq Buffers
    BY <1>1, <1>2, NodeFacts DEF Buffers
  <2> QED
    BY <1>1, <1>2, <2>1 DEF Held
<1>4. ASSUME NEW s
      PROVE  Kept(mainqueue, {x \in Buffers : bstate'[x] = s}) = InState(s)
  <2>1. \A x \in Range(mainqueue) :
          x \in {y \in Buffers : bstate'[y] = s} <=> x \in {y \in Buffers : bstate[y] = s}
    BY <1>1, <1>2
  <2> QED
    BY <1>2, <2>1, KeptAlike DEF InState
<1>5. InState("QUEUED")' = Append(InState("QUEUED"), b)
  <2> DEFINE S == {x \in Buffers : bstate'[x] = "QUEUED"}
  <2>1. b \in S
    BY <1>1, <1>2
  <2>2. Kept(mainqueue, S) = InState("QUEUED")
    BY <1>4
  <2>3. InState("QUEUED")' = Kept(mainqueue', S)
    BY DEF InState
  <2> HIDE DEF S
  <2>4. Kept(Append(mainqueue, b), S) = Append(Kept(mainqueue, S), b)
    BY <1>2, <2>1, KeptAppend
  <2> QED
    BY <1>1, <2>2, <2>3, <2>4
<1>6. InState("DONE")' = InState("DONE")
  <2> DEFINE S == {x \in Buffers : bstate'[x] = "DONE"}
  <2>1. b \notin S
    BY <1>1, <1>2
  <2>2. Kept(mainqueue, S) = InState("DONE")
    BY <1>4
  <2>3. InState("DONE")' = Kept(mainqueue', S)
    BY DEF InState
  <2> HIDE DEF S
  <2>4. Kept(Append(mainqueue, b), S) = Kept(mainqueue, S)
    BY <1>2, <2>1, KeptAppend
  <2> QED
    BY <1>1, <2>2, <2>3, <2>4
<1> QED
  BY <1>1, <1>3, <1>5, <1>6

LEMMA DqbufIsDequeue ==
  ASSUME Calm, Dqbuf
  PROVE  /\ InState("DONE") # << >> /\ Held' = Held \cup {Head(InState("DONE"))}
         /\ InState("DONE")' = Tail(InState("DONE"))
         /\ UNCHANGED <<InState("QUEUED"), on>>
<1> DEFINE b == Head(mainqueue)
           In(f, s) == {x \in Buffers : f[x] = s}
<1>1. /\ mainqueue # << >> /\ bstate[b] = "DONE" /\ UNCHANGED <<count, on>>
      /\ mainqueue' = Tail(mainqueue) /\ bstate' = [bstate EXCEPT ![b] = "IDLE"]
  BY DEF Dqbuf
<1>2. /\ mainqueue \in Seq(Buffers) /\ bstate \in [Buffers -> {"IDLE", "QUEUED", "DONE"}]
      /\ count \in 0 .. NBuf /\ IsInjective(mainqueue) /\ Range(mainqueue) \subseteq 1 .. count
  BY DEF Calm, IInv, TypeOK, ListInv, MainInv, TwoParts
<1>3. /\ Tail(mainqueue) \in Seq(Buffers) /\ b \notin Range(Tail(mainqueue))
      /\ b \in Range(mainqueue) /\ b \in Buffers
  BY <1>1, <1>2, TailOfInjective, HeadTailProperties
<1>4. \A s : InState(s)' = Kept(Tail(mainqueue), In(bstate', s)) /\ InState(s) = Kept(mainqueue,
In(bstate, s))
  BY <1>1 DEF InState
<1>5. ASSUME NEW s
      PROVE  Kept(Tail(mainqueue), In(bstate', s)) = Kept(Tail(mainqueue), In(bstate, s))
  <2>1. \A x \in Range(Tail(mainqueue)) : x \in In(bstate', s) <=> x \in In(bstate, s)
    BY <1>1, <1>2, <1>3
  <2> HIDE DEF In
  <2> QED
    BY <1>3, <2>1, KeptAlike
<1>6. b \in In(bstate, "DONE") /\ b \notin In(bstate, "QUEUED")
  BY <1>1, <1>3
<1>7. Held' = Held \cup {b}
  <2>1. b \in 1 .. count /\ 1 .. count \subseteq Buffers
    BY <1>2, <1>3, NodeFacts DEF Buffers
  <2> QED
    BY <1>1, <1>2, <2>1 DEF Held
<1> HIDE DEF In
<1>8. /\ Kept(mainqueue, In(bstate, "DONE")) # << >>
      /\ Head(Kept(mainqueue, In(bstate, "DONE"))) = b
      /\ Tail(Kept(mainqueue, In(bstate, "DONE"))) = Kept(Tail(mainqueue), In(bstate, "DONE"))
      /\ Kept(mainqueue, In(bstate, "QUEUED")) = Kept(Tail(mainqueue), In(bstate, "QUEUED"))
  BY <1>1, <1>2, <1>6, KeptHead
<1> HIDE DEF b
<1>9. InState("DONE") # << >> /\ b = Head(InState("DONE")) /\ InState("DONE")' = Tail(InState("DONE"))
  BY <1>4, <1>5, <1>8
<1>10. InState("QUEUED")' = InState("QUEUED")
  BY <1>4, <1>5, <1>8
<1> QED
  BY <1>1, <1>7, <1>9, <1>10

(* The packet that completes a frame fills the first buffer that waits,    *)
(* while the device streams; every other packet changes nothing.           *)
LEMMA PacketIsFill ==
  ASSUME Calm, Packet \/ Copy
  PROVE  /\ UNCHANGED <<Held, on>>
         /\ \/ UNCHANGED <<InState("QUEUED"), InState("DONE")>>
            \/ /\ on /\ InState("QUEUED") # << >>
               /\ InState("QUEUED")' = Tail(InState("QUEUED"))
               /\ InState("DONE")' = Append(InState("DONE"), Head(InState("QUEUED")))
<1> DEFINE D == Dones(bstate, hBuf)
           W == Waits(bstate, hBuf)
<1>0. IInv /\ RestInv /\ ListInv /\ TypeOK /\ MainInv /\ ~orphaned
  BY DEF Calm, IInv, ListInv, Undisturbed
<1>1. /\ h \in Copying /\ UNCHANGED <<count, mainqueue, on>>
      /\ bstate' \in {bstate, [bstate EXCEPT ![hBuf] = "DONE"]}
  BY DEF Packet, Copy, PacketDest, PacketSkipped, PacketCopy, PacketAdd, PacketStore, PacketFull,
         PacketEof, bufVars, Copying
<1>2. on
  BY <1>0, <1>1 DEF Copying, IInv, UrbInv, StoppedIsQuiet
<1>3. /\ hBuf \in Buffers /\ bstate[hBuf] # "IDLE" /\ hBuf # Nil
      /\ bstate \in [Buffers -> {"IDLE", "QUEUED", "DONE"}]
  BY <1>0, <1>1, WorkFacts, NodeFacts DEF Calm, TypeOK, Working, Copying
<1>4. Held' = Held
  <2>1. 1 .. count \subseteq Buffers
    BY <1>0, NodeFacts DEF TypeOK, Buffers
  <2> QED
    BY <1>1, <1>3, <2>1 DEF Held
<1>5. CASE bstate' = bstate
  BY <1>1, <1>4, <1>5 DEF InState
<1>6. CASE bstate' # bstate
  <2>1. bstate[hBuf] = "QUEUED" /\ bstate' = [bstate EXCEPT ![hBuf] = "DONE"]
    BY <1>1, <1>3, <1>6
  <2>2. /\ {b \in Buffers : bstate[b] = "QUEUED"} = W
        /\ {b \in Buffers : bstate[b] = "DONE"} = D
        /\ {b \in Buffers : bstate'[b] = "QUEUED"} = W \ {hBuf}
        /\ {b \in Buffers : bstate'[b] = "DONE"} = D \cup {hBuf}
    BY <1>3, <2>1 DEF Waits, Dones
  <2> HIDE DEF D, W
  <2>3. /\ InState("QUEUED") = Kept(mainqueue, W) /\ InState("DONE") = Kept(mainqueue, D)
        /\ InState("QUEUED")' = Kept(mainqueue, W \ {hBuf})
        /\ InState("DONE")' = Kept(mainqueue, D \cup {hBuf})
    BY <1>1, <2>2 DEF InState
  <2>4. /\ mainqueue \in Seq(Buffers) /\ TwoParts(mainqueue, D, W)
        /\ Kept(mainqueue, W) # << >> /\ hBuf = Head(Kept(mainqueue, W))
    BY <1>0, <1>3, FirstWaits, LineFacts DEF Calm, MainInv, D, W
  <2>5. TwoPartsMoved(mainqueue, D, W, hBuf)
    BY <2>4, TwoPartsMove
  <2> QED
    BY <1>1, <1>2, <1>4, <2>3, <2>4, <2>5 DEF TwoPartsMoved
<1> QED
  BY <1>5, <1>6

(* The kernel does nothing after a fault.                                  *)
LEMMA RunsUnfaulted == Next => ~fault
<1>1. Ioctl => ~fault
  BY DEF Ioctl, Insertion, Reqbufs, ReqbufsNone, Qbuf, ReadTail, LinkHead, LinkNew, LinkTail, Dqbuf,
         DqbufUnallocated, ReqbufsTooMany, Streamon, StreamonFails, Streamoff, NoIoctl, Running
<1>2. Handler => ~fault
  BY DEF Handler, Complete, CompleteError, CompleteNoBuffer, CompleteFirst, TakeUrb, Packet, Copy,
         PacketDest, PacketSkipped, PacketCopy, PacketAdd, PacketStore, PacketFull, PacketEof,
         EndOfPackets, UnlinkPrev, UnlinkNext, Resubmit, ResubmitFails, Running
<1> QED
  BY <1>1, <1>2 DEF Next

LEMMA CaptureIoctl ==
  ASSUME Calm, Undisturbed', ~fault', on' \in BOOLEAN, Ioctl
  PROVE  [Capture!Next]_(Capture!cvars)
<1>0. (~Undisturbed \/ fault) = FALSE /\ (~Undisturbed \/ fault)' = FALSE
  BY DEF Calm
<1>1. ASSUME NEW n \in 0 .. NBuf, ZeroQueue, count' = n PROVE Capture!Next
  <2>1. /\ Held' = 1 .. n /\ InState("QUEUED")' = << >> /\ InState("DONE")' = << >>
        /\ on' \in {on, FALSE}
    BY <1>1, ReqbufsIsReset
  <2>2. Capture!Reset(n)
    BY <1>0, <2>1 DEF Capture!Reset
  <2> QED
    BY <1>0, <2>2 DEF Capture!Next
<1>2. CASE ReqbufsNone \/ \E n \in Buffers : Reqbufs(n)
  BY <1>1, <1>2, NodeFacts DEF ReqbufsNone, Reqbufs, Buffers
<1>3. ASSUME NEW b \in Buffers, Qbuf(b) PROVE Capture!Next
  <2>1. Capture!Queue(b)
    BY <1>0, <1>3, QbufIsQueue DEF Capture!Queue
  <2> QED
    BY <1>0, <2>1 DEF Capture!Next, Buffers
<1>4. CASE Dqbuf
  <2>1. Capture!Dequeue
    BY <1>0, <1>4, DqbufIsDequeue DEF Capture!Dequeue
  <2> QED
    BY <1>0, <2>1 DEF Capture!Next
<1>5. CASE Streamon \/ Streamoff \/ \E k \in 0 .. NUrb - 1 : StreamonFails(k)
  <2>1. UNCHANGED <<count, bstate, mainqueue>>
    BY <1>5 DEF Streamon, Streamoff, StreamonFails, bufVars
  <2>2. Capture!Switch
    BY <1>0, <2>1, CaptureFrame DEF Capture!Switch
  <2> QED
    BY <1>0, <2>2 DEF Capture!Next
<1>6. CASE Insertion
  <2>1. UNCHANGED <<count, bstate, mainqueue, on>>
    BY <1>6 DEF Insertion, ReadTail, LinkHead, LinkNew, LinkTail, bufVars
  <2> QED
    BY <1>0, <2>1, CaptureFrame DEF Capture!cvars
<1>7. CASE DqbufUnallocated \/ ReqbufsTooMany
  BY <1>7 DEF DqbufUnallocated, ReqbufsTooMany
<1> QED
  BY <1>2, <1>3, <1>4, <1>5, <1>6, <1>7 DEF Ioctl

LEMMA CaptureHandler ==
  ASSUME Calm, Undisturbed', ~fault', Handler
  PROVE  [Capture!Next]_(Capture!cvars)
<1>0. (~Undisturbed \/ fault) = FALSE /\ (~Undisturbed \/ fault)' = FALSE
  BY DEF Calm
<1>1. CASE Packet \/ Copy
  <2>1. UNCHANGED <<Held, on>>
    BY <1>1, PacketIsFill
  <2>2. CASE UNCHANGED <<InState("QUEUED"), InState("DONE")>>
    BY <1>0, <2>1, <2>2 DEF Capture!cvars
  <2>3. CASE /\ on /\ InState("QUEUED") # << >>
             /\ InState("QUEUED")' = Tail(InState("QUEUED"))
             /\ InState("DONE")' = Append(InState("DONE"), Head(InState("QUEUED")))
    <3>1. Capture!Fill
      BY <1>0, <2>1, <2>3 DEF Capture!Fill
    <3> QED
      BY <1>0, <3>1 DEF Capture!Next
  <2> QED
    BY <1>1, <2>2, <2>3, PacketIsFill
<1>2. CASE \/ Complete \/ \E kind \in Kinds : CompleteError(kind)
           \/ EndOfPackets \/ UnlinkPrev \/ UnlinkNext \/ Resubmit \/ ResubmitFails
  <2>1. UNCHANGED <<count, bstate, mainqueue, on>>
    BY <1>2 DEF Complete, CompleteError, CompleteNoBuffer, CompleteFirst,
                EndOfPackets, UnlinkPrev, UnlinkNext, Resubmit, ResubmitFails, bufVars
  <2> QED
    BY <1>0, <2>1, CaptureFrame DEF Capture!cvars
<1> QED
  BY <1>1, <1>2 DEF Handler

LEMMA CaptureNext ==
  ASSUME IInv, IInv', QueueInv, [Next]_vars
  PROVE  [Capture!Next]_(Capture!cvars)
<1>1. CASE ~Undisturbed' \/ fault'
  <2>1. (~Undisturbed \/ fault)' = TRUE
    BY <1>1
  <2> QED
    BY <2>1 DEF Capture!Next, Capture!Break
<1>2. CASE UNCHANGED vars
  <2>1. UNCHANGED <<count, bstate, mainqueue, on, raced, orphaned, fault>>
    BY <1>2 DEF vars, bufVars
  <2> QED
    BY <2>1, CaptureFrame DEF Capture!cvars, Undisturbed
<1>3. CASE Undisturbed' /\ ~fault' /\ Next
  <2>1. Undisturbed
    BY <1>3, RacedStays, OrphanedStays, Zenon DEF Undisturbed
  <2>2. Calm
    BY <1>3, <2>1, RunsUnfaulted DEF Calm, QueueInv
  <2>3. on' \in BOOLEAN
    BY DEF IInv, TypeOK
  <2> QED
    BY <1>3, <2>2, <2>3, CaptureIoctl, CaptureHandler DEF Next
<1> QED
  BY <1>1, <1>2, <1>3

(* The UVC driver implements the abstract capture queue, whatever the      *)
(* application does and whatever the packets are, until ioctl and handler  *)
(* overlap, a URB is lost or the kernel faults.                            *)
THEOREM Refinement == Spec => ImplementsCapture
<1>1. IInv /\ IInv' /\ QueueInv /\ [Next]_vars => [Capture!Next]_(Capture!cvars)
  BY CaptureNext
<1> QED
  BY <1>1, CaptureInit, QueueInvariance, PTL DEF Spec, ImplementsCapture, Capture!Spec

=============================================================================
