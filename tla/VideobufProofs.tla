--------------------------- MODULE VideobufProofs ---------------------------
(***************************************************************************)
(* Theorems about the virtual driver: until the timer function and a call  *)
(* meet on a buffer or a list, the timer's list is what the stream has     *)
(* waiting, no freed memory is touched, and the driver implements          *)
(* CaptureQueue.                                                           *)
(***************************************************************************)
EXTENDS VideobufRefinement, ListProofs

(* The file is open, or being closed.                                      *)
InSession == opens > 0 \/ \E t \in Threads : pc[t] = "closing"

SessionInv ==
  /\ opens <= 1 /\ ~reading /\ readBuf = Nil
  /\ opens = 0 => ~pending /\ tpc = "idle" /\ \A t \in Threads : pc[t] \in {"run", "closing"}
  /\ opens > 0 => \A t \in Threads : pc[t] # "closing"
  /\ \A t, u \in Threads : pc[t] = "closing" /\ pc[u] = "closing" => t = u
  /\ ~InSession => ~streaming

(* Who sleeps, sleeps on a buffer of the queue; a DQBUF on the first.      *)
SleepInv ==
  \A t \in Threads :
    /\ pc[t] \in {"polling", "poll_woken", "wait_buf", "buf_woken"} => target[t] \in QBufs
    /\ InDqbuf(t) => /\ holder = t /\ streaming
                     /\ stream # << >> /\ target[t] = Head(stream)

PoolInv == IsInjective(bufs) /\ \A b \in QBufs : vstate[b] # "FREE"

(* The buffers the application has queued are those in stream; while it    *)
(* streams, those that have their frame are in front of those that wait.   *)
Having(s) == {b \in Structs : vstate[b] = s}

StreamInv ==
  /\ \A b \in Structs : vstate[b] = "QUEUED" => streaming /\ b \in QBufs
  /\ InSession =>
       /\ IsInjective(stream)
       /\ Range(stream) = {b \in QBufs : vstate[b] \in {"PREPARED", "QUEUED", "DONE"}}
       /\ \A b \in Range(stream) : streaming <=> vstate[b] # "PREPARED"
       /\ streaming => TwoParts(stream, Having("DONE"), Having("QUEUED"))

(* The timer's list is what waits in stream, and in front the buffer the   *)
(* timer function has filled and not yet unlinked.                         *)
TimerInv ==
  /\ local = IF tpc \in {"unlink", "unlinking"} THEN <<tBuf>> \o Kept(stream, Having("QUEUED"))
             ELSE Kept(stream, Having("QUEUED"))
  /\ tpc = "fill" => local # << >> /\ tBuf = Head(local)
  /\ tpc \in {"unlink", "unlinking", "wake"} => vstate[tBuf] \in {"DONE", "IDLE"}
  /\ tpc \in {"fill", "unlink", "unlinking", "wake"} => tBuf \in QBufs /\ streaming

(* What waits for data was mapped, or its mmap has failed.                 *)
MapInv == Having("QUEUED") \subseteq mapped

Undisturbed ==
  ~fault /\ SessionInv /\ SleepInv /\ PoolInv /\ StreamInv /\ TimerInv /\ MapInv

IInv == TypeOK /\ NoFault /\ (~disturbed /\ ~fault => Undisturbed)

-----------------------------------------------------------------------------
(* Type correctness.                                                       *)

LEMMA Constants ==
  /\ NBuf \in Nat /\ NBuf >= 2 /\ Pool \in Nat /\ MaxOpens \in Nat \ {0}
  /\ Structs \subseteq Nat /\ Nil \notin Structs /\ Nil \notin Threads
  BY ConstantsAssumption DEF Structs, Nil

(* The parts of TypeOK, each about what one group of actions changes.      *)
Wheres == {"run", "closing", "polling", "poll_woken", "wait_stream", "wait_buf", "buf_woken"}

OpensType == opens \in 0 .. MaxOpens
TimerType == /\ pending \in BOOLEAN
             /\ tpc \in {"idle", "fill", "unlink", "unlinking", "wake", "rearm"}
             /\ tBuf \in {Nil} \cup Structs
PoolType == /\ bufs \in Seq(Structs) /\ Len(bufs) <= NBuf /\ vstate \in [Structs -> States]
            /\ mapped \subseteq Structs /\ backed \subseteq Structs /\ vma \subseteq Structs
ListType == /\ stream \in Seq(Structs) /\ local \in Seq(Structs)
            /\ readBuf \in {Nil} \cup Structs
SleepType == /\ holder \in {Nil} \cup Threads /\ pc \in [Threads -> Wheres]
             /\ target \in [Threads -> {Nil} \cup Structs]
FlagType == /\ streaming \in BOOLEAN /\ reading \in BOOLEAN
            /\ fault \in BOOLEAN /\ disturbed \in BOOLEAN

LEMMA TypeParts == TypeOK <=> OpensType /\ TimerType /\ PoolType /\ ListType /\ SleepType /\ FlagType
  BY DEF TypeOK, OpensType, TimerType, PoolType, ListType, SleepType, FlagType, Wheres

LEMMA TypePartsNext ==
  OpensType' /\ TimerType' /\ PoolType' /\ ListType' /\ SleepType' /\ FlagType' => TypeOK'
  BY DEF TypeOK, OpensType, TimerType, PoolType, ListType, SleepType, FlagType, Wheres

LEMMA TypeInit == Init => TypeOK
<1> SUFFICES ASSUME Init PROVE TypeOK
  OBVIOUS
<1>1. OpensType /\ TimerType
  <2>1. OpensType
    BY Constants DEF Init, OpensType
  <2>2. TimerType
    BY DEF Init, TimerType
  <2> QED
    BY <2>1, <2>2
<1>2. PoolType
  BY Constants DEF Init, PoolType, States
<1>3. ListType
  BY Constants DEF Init, ListType
<1>4. SleepType
  BY Constants DEF Init, SleepType, Wheres
<1>5. FlagType
  BY Constants DEF Init, FlagType
<1> QED
  BY <1>1, <1>2, <1>3, <1>4, <1>5, TypeParts

(* The lists keep their type, and what is in them is a structure.          *)
LEMMA ListTypes ==
  ASSUME TypeOK
  PROVE  /\ \A S : Kept(stream, S) \in Seq(Structs) /\ Kept(local, S) \in Seq(Structs)
         /\ QBufs \subseteq Structs /\ Range(stream) \subseteq Structs
         /\ Range(local) \subseteq Structs
         /\ stream # << >> => Head(stream) \in Structs /\ Head(stream) \in Range(stream)
         /\ local # << >> => Head(local) \in Structs /\ Head(local) \in Range(local)
<1>1. \A S : Kept(stream, S) \in Seq(Structs) /\ Kept(local, S) \in Seq(Structs)
  BY KeptType DEF TypeOK
<1> QED
  BY <1>1 DEF TypeOK, QBufs, Range

(* Cancelled buffers, woken threads and freed structures have their types. *)
LEMMA PartTypes ==
  ASSUME TypeOK
  PROVE  /\ Released \in [Structs -> States]
         /\ \A S : Freed(S) \in [Structs -> States]
         /\ \A S : Woken(S) \in [Threads -> Wheres]
  BY DEF TypeOK, Released, Freed, Woken, States, Wheres

(* An allocation gives n different structures, all in state s.             *)
LEMMA AllocateFacts ==
  ASSUME TypeOK, NEW n \in 1 .. NBuf, NEW s \in States, Allocate(n, s)
  PROVE  /\ bufs' \in Seq(Structs) /\ Len(bufs') = n /\ IsInjective(bufs')
         /\ vstate' \in [Structs -> States]
         /\ \A b \in Range(bufs') : vstate'[b] = s
         /\ \A b \in Structs \ Range(bufs') : vstate'[b] = Freed(QBufs)[b]
         /\ mapped' \subseteq Structs /\ backed' \subseteq Structs
<1>1. n \in Nat /\ n <= NBuf
  BY Constants
<1>2. bufs' \in Seq(Structs) /\ Len(bufs') = n /\ IsInjective(bufs')
  BY <1>1 DEF Allocate
<1>3. Range(bufs') \subseteq Structs
  BY <1>2 DEF Range
<1>4. mapped' \subseteq Structs /\ backed' \subseteq Structs
  BY DEF Allocate, TypeOK
<1> QED
  BY <1>1, <1>2, <1>3, <1>4, PartTypes DEF Allocate

LEMMA TypeNext == TypeOK /\ [Next]_vars => TypeOK'
<1> SUFFICES ASSUME TypeOK, [Next]_vars PROVE TypeOK'
  OBVIOUS
<1>1. ASSUME NEW t \in Threads, Open(t) PROVE TypeOK'
  <2>0. OpensType'
    BY <1>1, TypeParts, Constants DEF Open, OpensType
  <2>1. TimerType'
    BY <1>1, TypeParts DEF Open, TimerType
  <2>2. PoolType'
    BY <1>1, TypeParts, Constants DEF Open, PoolType
  <2>3. ListType'
    BY <1>1, TypeParts DEF Open, ListType
  <2>4. SleepType'
    BY <1>1, TypeParts, Constants DEF Open, SleepType
  <2>5. FlagType'
    BY <1>1, TypeParts DEF Open, FlagType, TimerType
  <2> QED
    BY <2>0, <2>1, <2>2, <2>3, <2>4, <2>5, TypePartsNext
<1>2. ASSUME NEW t \in Threads, CloseTimer(t) PROVE TypeOK'
  <2>0. OpensType'
    BY <1>2, TypeParts, Constants DEF CloseTimer, InUse, queueVars, OpensType
  <2>1. TimerType'
    BY <1>2, TypeParts DEF CloseTimer, InUse, queueVars, TimerType
  <2>2. PoolType'
    BY <1>2, TypeParts DEF CloseTimer, InUse, queueVars, PoolType
  <2>3. ListType'
    BY <1>2, TypeParts DEF CloseTimer, InUse, queueVars, ListType
  <2>4. SleepType'
    BY <1>2, TypeParts DEF CloseTimer, InUse, queueVars, Wheres, SleepType
  <2>5. FlagType'
    BY <1>2, TypeParts DEF CloseTimer, InUse, queueVars, FlagType
  <2> QED
    BY <2>0, <2>1, <2>2, <2>3, <2>4, <2>5, TypePartsNext
<1>3. ASSUME NEW t \in Threads, CloseQueue(t) PROVE TypeOK'
  <2>0. OpensType'
    BY <1>3, TypeParts DEF CloseQueue, timerVars, OpensType
  <2>1. TimerType'
    BY <1>3, TypeParts DEF CloseQueue, timerVars, TimerType
  <2>2. PoolType'
    BY <1>3, TypeParts, PartTypes, Constants DEF CloseQueue, timerVars, PoolType
  <2>3. ListType'
    BY <1>3, TypeParts, ListTypes DEF CloseQueue, timerVars, ListType
  <2>4. SleepType'
    BY <1>3, TypeParts, PartTypes DEF CloseQueue, timerVars, Wheres, SleepType
  <2>5. FlagType'
    BY <1>3, TypeParts DEF CloseQueue, timerVars, CancelFaults, CancelDisturbs, FreeDisturbs, FlagType
  <2> QED
    BY <2>0, <2>1, <2>2, <2>3, <2>4, <2>5, TypePartsNext
<1>4. ASSUME NEW t \in Threads, NEW b \in Structs, Mmap(t, b) \/ MmapFails(t, b) PROVE TypeOK'
  <2>0. OpensType'
    BY <1>4, TypeParts DEF Mmap, MmapFails, timerVars, sleepVars, OpensType
  <2>1. TimerType'
    BY <1>4, TypeParts DEF Mmap, MmapFails, timerVars, sleepVars, TimerType
  <2>2. PoolType'
    BY <1>4, TypeParts DEF Mmap, MmapFails, timerVars, sleepVars, PoolType
  <2>3. ListType'
    BY <1>4, TypeParts DEF Mmap, MmapFails, timerVars, sleepVars, ListType
  <2>4. SleepType'
    BY <1>4, TypeParts DEF Mmap, MmapFails, timerVars, sleepVars, SleepType
  <2>5. FlagType'
    BY <1>4, TypeParts DEF Mmap, MmapFails, timerVars, sleepVars, FlagType
  <2> QED
    BY <2>0, <2>1, <2>2, <2>3, <2>4, <2>5, TypePartsNext
<1>5. ASSUME NEW t \in Threads, NEW b \in Structs, Munmap(t, b) PROVE TypeOK'
  <2>0. OpensType'
    BY <1>5, TypeParts DEF Munmap, Cancel, timerVars, OpensType
  <2>1. TimerType'
    BY <1>5, TypeParts DEF Munmap, Cancel, timerVars, TimerType
  <2>2. PoolType'
    BY <1>5, TypeParts, PartTypes DEF Munmap, Cancel, timerVars, PoolType
  <2>3. ListType'
    <3>1. stream' \in Seq(Structs) /\ local' \in Seq(Structs)
      <4>1. CASE Cancel
        BY <4>1, ListTypes DEF Cancel
      <4>2. CASE UNCHANGED <<stream, local>>
        BY <4>2, TypeParts DEF ListType
      <4> QED
        BY <1>5, <4>1, <4>2 DEF Munmap
    <3> QED
      BY <1>5, <3>1, TypeParts DEF Munmap, ListType
  <2>4. SleepType'
    BY <1>5, TypeParts, PartTypes DEF Munmap, Cancel, timerVars, SleepType
  <2>5. FlagType'
    BY <1>5, TypeParts DEF Munmap, Cancel, timerVars, CancelFaults, CancelDisturbs, Busy, TornList,
       FlagType
  <2> QED
    BY <2>0, <2>1, <2>2, <2>3, <2>4, <2>5, TypePartsNext
<1>6. ASSUME NEW t \in Threads, NEW b \in Structs, Qbuf(t, b) PROVE TypeOK'
  <2>0. OpensType'
    BY <1>6, TypeParts DEF Qbuf, timerVars, sleepVars, OpensType
  <2>1. TimerType'
    BY <1>6, TypeParts DEF Qbuf, timerVars, sleepVars, TimerType
  <2>2. PoolType'
    BY <1>6, TypeParts DEF Qbuf, timerVars, sleepVars, States, PoolType
  <2>3. ListType'
    BY <1>6, TypeParts DEF Qbuf, timerVars, sleepVars, EnterLocal, ListType
  <2>4. SleepType'
    BY <1>6, TypeParts DEF Qbuf, timerVars, sleepVars, SleepType
  <2>5. FlagType'
    BY <1>6, TypeParts DEF Qbuf, timerVars, sleepVars, EnterLocal, Busy, TornList, FlagType
  <2> QED
    BY <2>0, <2>1, <2>2, <2>3, <2>4, <2>5, TypePartsNext
<1>7. ASSUME NEW t \in Threads, Poll(t) \/ PollRead(t) PROVE TypeOK'
  <2>0. OpensType'
    BY <1>7, TypeParts DEF Poll, PollRead, queueVars, timerVars, OpensType
  <2>1. TimerType'
    BY <1>7, TypeParts DEF Poll, PollRead, queueVars, timerVars, TimerType
  <2>2. PoolType'
    BY <1>7, TypeParts DEF Poll, PollRead, queueVars, timerVars, PoolType
  <2>3. ListType'
    BY <1>7, TypeParts DEF Poll, PollRead, queueVars, timerVars, ListType
  <2>4. SleepType'
    BY <1>7, TypeParts, ListTypes DEF Poll, PollRead, queueVars, timerVars, Wheres, ListType, SleepType
  <2>5. FlagType'
    BY <1>7, TypeParts DEF Poll, PollRead, queueVars, timerVars, FlagType
  <2> QED
    BY <2>0, <2>1, <2>2, <2>3, <2>4, <2>5, TypePartsNext
<1>8. ASSUME NEW t \in Threads, PollStartsRead(t) PROVE TypeOK'
  <2>1. /\ bufs' \in Seq(Structs) /\ Len(bufs') = NBuf /\ vstate' \in [Structs -> States]
        /\ mapped' \subseteq Structs /\ backed' \subseteq Structs
    <3>1. NBuf \in 1 .. NBuf /\ "QUEUED" \in States
      BY Constants DEF States
    <3> QED
      BY <1>8, <3>1, AllocateFacts DEF PollStartsRead
  <2>2. stream \o bufs' \in Seq(Structs) /\ stream \o bufs' # << >> /\ local \o bufs' \in Seq(Structs)
    BY <2>1, TypeParts, Constants DEF ListType
  <2>3. readBuf' \in Structs /\ stream' \in Seq(Structs) /\ local' \in Seq(Structs)
    BY <1>8, <2>2, HeadTailProperties DEF PollStartsRead
  <2>4. OpensType' /\ TimerType'
    BY <1>8, TypeParts DEF PollStartsRead, timerVars, OpensType, TimerType
  <2>5. PoolType' /\ ListType'
    <3>1. vma' = vma /\ NBuf <= NBuf
      BY <1>8, Constants DEF PollStartsRead
    <3>2. PoolType'
      BY <2>1, <3>1, TypeParts DEF PoolType
    <3>3. ListType'
      BY <2>3 DEF ListType
    <3> QED
      BY <3>2, <3>3
  <2>6. SleepType'
    BY <1>8, <2>3, TypeParts DEF PollStartsRead, SleepType, Wheres
  <2>7. FlagType'
    BY <1>8, TypeParts DEF PollStartsRead, TornList, FlagType
  <2> QED
    BY <2>4, <2>5, <2>6, <2>7, TypePartsNext
<1>9. ASSUME NEW t \in Threads, PollAgain(t) \/ PollTimeout(t) PROVE TypeOK'
  <2>0. OpensType'
    BY <1>9, TypeParts DEF PollAgain, PollTimeout, queueVars, timerVars, OpensType
  <2>1. TimerType'
    BY <1>9, TypeParts DEF PollAgain, PollTimeout, queueVars, timerVars, TimerType
  <2>2. PoolType'
    BY <1>9, TypeParts DEF PollAgain, PollTimeout, queueVars, timerVars, PoolType
  <2>3. ListType'
    BY <1>9, TypeParts DEF PollAgain, PollTimeout, queueVars, timerVars, ListType
  <2>4. SleepType'
    BY <1>9, TypeParts DEF PollAgain, PollTimeout, queueVars, timerVars, Wheres, SleepType
  <2>5. FlagType'
    BY <1>9, TypeParts DEF PollAgain, PollTimeout, queueVars, timerVars, FlagType
  <2> QED
    BY <2>0, <2>1, <2>2, <2>3, <2>4, <2>5, TypePartsNext
<1>10. ASSUME NEW t \in Threads, NEW n \in 1 .. NBuf, Reqbufs(t, n) PROVE TypeOK'
  <2>0. OpensType'
    BY <1>10, TypeParts DEF Reqbufs, timerVars, sleepVars, OpensType
  <2>1. TimerType'
    BY <1>10, TypeParts DEF Reqbufs, timerVars, sleepVars, TimerType
  <2>2. PoolType'
    BY <1>10, TypeParts, AllocateFacts, Constants DEF Reqbufs, timerVars, sleepVars, States, PoolType
  <2>3. ListType'
    BY <1>10, TypeParts DEF Reqbufs, timerVars, sleepVars, ListType
  <2>4. SleepType'
    BY <1>10, TypeParts DEF Reqbufs, timerVars, sleepVars, SleepType
  <2>5. FlagType'
    BY <1>10, TypeParts DEF Reqbufs, timerVars, sleepVars, FreeDisturbs, FlagType
  <2> QED
    BY <2>0, <2>1, <2>2, <2>3, <2>4, <2>5, TypePartsNext
<1>19. ASSUME NEW t \in Threads, ReqbufsNoMemory(t) PROVE TypeOK'
  BY <1>19 DEF ReqbufsNoMemory, queueVars, timerVars, sleepVars, TypeOK
<1>11. ASSUME NEW t \in Threads, Streamon(t) PROVE TypeOK'
  <2>0. OpensType'
    BY <1>11, TypeParts DEF Streamon, EnterLocal, timerVars, sleepVars, OpensType
  <2>1. TimerType'
    BY <1>11, TypeParts DEF Streamon, EnterLocal, timerVars, sleepVars, TimerType
  <2>2. PoolType'
    BY <1>11, TypeParts DEF Streamon, EnterLocal, timerVars, sleepVars, States, PoolType
  <2>3. ListType'
    BY <1>11, TypeParts, ListTypes DEF Streamon, EnterLocal, timerVars, sleepVars, ListType
  <2>4. SleepType'
    BY <1>11, TypeParts DEF Streamon, EnterLocal, timerVars, sleepVars, SleepType
  <2>5. FlagType'
    BY <1>11, TypeParts DEF Streamon, EnterLocal, timerVars, sleepVars, TornList, FlagType
  <2> QED
    BY <2>0, <2>1, <2>2, <2>3, <2>4, <2>5, TypePartsNext
<1>12. ASSUME NEW t \in Threads, Streamoff(t) PROVE TypeOK'
  <2>0. OpensType'
    BY <1>12, TypeParts, Constants DEF Streamoff, Cancel, timerVars, OpensType
  <2>1. TimerType'
    BY <1>12, TypeParts DEF Streamoff, Cancel, timerVars, TimerType
  <2>2. PoolType'
    BY <1>12, TypeParts, PartTypes DEF Streamoff, Cancel, timerVars, PoolType
  <2>3. ListType'
    BY <1>12, TypeParts, ListTypes DEF Streamoff, Cancel, timerVars, ListType
  <2>4. SleepType'
    BY <1>12, TypeParts, PartTypes DEF Streamoff, Cancel, timerVars, SleepType
  <2>5. FlagType'
    BY <1>12, TypeParts DEF Streamoff, Cancel, timerVars, CancelFaults, CancelDisturbs, TornList,
       FlagType
  <2> QED
    BY <2>0, <2>1, <2>2, <2>3, <2>4, <2>5, TypePartsNext
<1>13. ASSUME NEW t \in Threads, NEW b, TakeOut(t, b) PROVE TypeOK'
  <2>0. OpensType'
    BY <1>13, TypeParts DEF TakeOut, timerVars, OpensType
  <2>1. TimerType'
    BY <1>13, TypeParts DEF TakeOut, timerVars, TimerType
  <2>2. PoolType'
    BY <1>13, TypeParts DEF TakeOut, timerVars, States, PoolType
  <2>3. ListType'
    BY <1>13, TypeParts, ListTypes DEF TakeOut, timerVars, ListType
  <2>4. SleepType'
    BY <1>13, TypeParts DEF TakeOut, timerVars, Wheres, SleepType
  <2>5. FlagType'
    BY <1>13, TypeParts DEF TakeOut, timerVars, FlagType
  <2> QED
    BY <2>0, <2>1, <2>2, <2>3, <2>4, <2>5, TypePartsNext
<1>14. ASSUME NEW t \in Threads, Dqbuf(t) PROVE TypeOK'
  <2>1. CASE \E b : TakeOut(t, b)
    BY <1>13, <2>1
  <2>2. CASE UNCHANGED <<queueVars, timerVars, opens, local, fault, disturbed>>
    <3>1. SleepType'
      BY <1>14, <2>2, TypeParts, ListTypes DEF Dqbuf, TakeOut, SleepType, Wheres, queueVars, timerVars
    <3> QED
      BY <2>2, <3>1, TypeParts, TypePartsNext DEF queueVars, timerVars, OpensType, TimerType,
         PoolType, ListType, FlagType
  <2> QED
    BY <1>14, <2>1, <2>2 DEF Dqbuf
<1>15. ASSUME NEW t \in Threads, DqbufStopped(t) \/ DqbufSignal(t) PROVE TypeOK'
  BY <1>15 DEF DqbufStopped, DqbufSignal, queueVars, timerVars, TypeOK
<1>16. ASSUME NEW t \in Threads, DqbufWakes(t) PROVE TypeOK'
  <2>1. CASE TakeOut(t, target[t])
    BY <1>13, <2>1
  <2>2. CASE ~TakeOut(t, target[t])
    <3>1. /\ pc' = [pc EXCEPT ![t] = "wait_buf"]
          /\ UNCHANGED <<queueVars, timerVars, opens, local, holder, target, fault, disturbed>>
      BY <1>16, <2>2 DEF DqbufWakes
    <3> QED
      BY <3>1 DEF queueVars, timerVars, TypeOK
  <2> QED
    BY <2>1, <2>2
<1>17. ASSUME Timer PROVE TypeOK'
  <2> USE DEF TimerStart, TimerFill, TimerUnlink, TimerUnlinked, TimerWake, TimerRearm, Timer,
              queueVars, sleepVars
  <2>1. OpensType' /\ TimerType'
    <3>1. OpensType'
      BY <1>17, TypeParts DEF OpensType
    <3>2. TimerType'
      BY <1>17, TypeParts, ListTypes DEF TimerType
    <3> QED
      BY <3>1, <3>2
  <2>2. PoolType'
    BY <1>17, TypeParts DEF PoolType, States
  <2>3. ListType'
    BY <1>17, TypeParts, ListTypes DEF ListType
  <2>4. SleepType'
    BY <1>17, TypeParts, PartTypes DEF SleepType
  <2>5. FlagType'
    BY <1>17, TypeParts DEF FlagType
  <2> QED
    BY <2>1, <2>2, <2>3, <2>4, <2>5, TypePartsNext
<1>18. CASE UNCHANGED vars
  BY <1>18 DEF vars, queueVars, timerVars, sleepVars, TypeOK
<1> QED
  BY <1>1, <1>2, <1>3, <1>4, <1>5, <1>6, <1>7, <1>8, <1>9, <1>10, <1>11, <1>12, <1>14, <1>15,
     <1>16, <1>17, <1>18, <1>19 DEF Next, Process

(* Every variable keeps its type, whatever the timer function and the      *)
(* calls of the threads do to each other.                                  *)
THEOREM TypeCorrect == Spec => []TypeOK
<1>1. TypeOK /\ [Next]_vars => TypeOK'
  BY TypeNext
<1> QED
  BY TypeInit, <1>1, PTL DEF Spec

-----------------------------------------------------------------------------
(* The invariant.                                                          *)

LEMMA UndisturbedInit == Init => Undisturbed
<1> SUFFICES ASSUME Init PROVE Undisturbed
  OBVIOUS
<1>1. QBufs = {} /\ Range(stream) = {} /\ IsInjective(bufs) /\ IsInjective(stream)
  BY DEF Init, QBufs, Range, IsInjective
<1>2. ~fault /\ SessionInv
  BY DEF Init, SessionInv, InSession
<1>3. SleepInv /\ PoolInv
  BY <1>1 DEF Init, SleepInv, InDqbuf, PoolInv
<1>4. StreamInv
  BY <1>1 DEF Init, StreamInv
<1>5. TimerInv
  BY KeptEmpty DEF Init, TimerInv
<1>6. MapInv
  BY DEF Init, MapInv, Having
<1> QED
  BY <1>2, <1>3, <1>4, <1>5, <1>6 DEF Undisturbed

(* As long as no buffer starts to wait and no map goes.                    *)
LEMMA MapFrame ==
  ASSUME MapInv, Having("QUEUED")' \subseteq Having("QUEUED"), mapped \subseteq mapped'
  PROVE  MapInv'
  BY DEF MapInv

LEMMA NothingWaitsMap ==
  ASSUME \A b \in Structs : vstate'[b] # "QUEUED"
  PROVE  MapInv'
  BY DEF MapInv, Having

(* What does not change the buffers or the stream leaves what is said of   *)
(* them alone.                                                             *)
LEMMA ContentFrame ==
  ASSUME Undisturbed, UNCHANGED <<bufs, vstate, stream, streaming>>, InSession' => InSession
  PROVE  /\ PoolInv' /\ StreamInv' /\ QBufs' = QBufs
         /\ (mapped \subseteq mapped' => MapInv')
         /\ Kept(stream, Having("QUEUED"))' = Kept(stream, Having("QUEUED"))
<1>1. QBufs' = QBufs
  BY DEF QBufs
<1>2. \A s : Having(s)' = Having(s)
  BY DEF Having
<1>3. PoolInv'
  BY <1>1 DEF Undisturbed, PoolInv
<1>4. StreamInv'
  BY <1>1, <1>2 DEF Undisturbed, StreamInv
<1>5. mapped \subseteq mapped' => MapInv'
  BY <1>2 DEF Undisturbed, MapInv
<1> QED
  BY <1>1, <1>2, <1>3, <1>4, <1>5

(* The timer's list while the timer function has no buffer, and what is in *)
(* it.                                                                     *)
LEMMA ListFacts ==
  ASSUME TypeOK, Undisturbed
  PROVE  /\ Range(Kept(stream, Having("QUEUED"))) = Range(stream) \cap Having("QUEUED")
         /\ \A b \in Range(local) : \/ vstate[b] = "QUEUED"
                                    \/ tpc \in {"unlink", "unlinking"} /\ b = tBuf
         /\ tpc \in {"idle", "rearm"} => local = Kept(stream, Having("QUEUED"))
         /\ ~streaming => /\ local = << >> /\ Having("QUEUED") = {} /\ tpc \in {"idle", "rearm"}
                          /\ Kept(stream, Having("QUEUED")) = << >>
<1> DEFINE q == Kept(stream, Having("QUEUED"))
<1>1. q \in Seq(Structs) /\ Range(q) = Range(stream) \cap Having("QUEUED")
  BY KeptType, KeptRange DEF TypeOK
<1>2. \A b \in Range(q) : vstate[b] = "QUEUED"
  BY <1>1 DEF Having
<1>3. tpc \in {"idle", "rearm"} => local = q
  BY DEF Undisturbed, TimerInv
<1> HIDE DEF q
<1>4. \A b \in Range(local) : vstate[b] = "QUEUED" \/ (tpc \in {"unlink", "unlinking"} /\ b = tBuf)
  <2>1. CASE tpc \in {"unlink", "unlinking"}
    <3> DEFINE one == <<tBuf>>
    <3>1. local = one \o q
      BY <2>1 DEF Undisturbed, TimerInv, q
    <3>2. tBuf \in Structs
      BY <2>1, ListTypes DEF Undisturbed, TimerInv
    <3>3. one \in Seq(Structs) /\ Range(one) = {tBuf}
      BY <3>2 DEF Range
    <3> HIDE DEF one
    <3>4. Range(local) = Range(one) \cup Range(q)
      <4>1. Range(one \o q) = Range(one) \cup Range(q)
        BY <1>1, <3>3, RangeConcatenation
      <4> QED
        BY <3>1, <4>1, Zenon
    <3> QED
      BY <1>2, <2>1, <3>3, <3>4
  <2>2. CASE tpc \notin {"unlink", "unlinking"}
    BY <1>2, <2>2 DEF Undisturbed, TimerInv, q
  <2> QED
    BY <2>1, <2>2
<1>5. ASSUME ~streaming
      PROVE  local = << >> /\ Having("QUEUED") = {} /\ tpc \in {"idle", "rearm"} /\ q = << >>
  <2>1. Having("QUEUED") = {}
    BY <1>5 DEF Undisturbed, StreamInv, Having
  <2>2. tpc \in {"idle", "rearm"}
    BY <1>5 DEF Undisturbed, TimerInv, TypeOK
  <2>3. q = << >>
    BY <2>1, KeptNone DEF q, TypeOK
  <2> QED
    BY <1>3, <2>1, <2>2, <2>3
<1> QED
  BY <1>1, <1>3, <1>4, <1>5 DEF q

(* STREAMOFF, a munmap or a close that stops: nothing waits any more.      *)
LEMMA CancelEmpties ==
  ASSUME TypeOK, Undisturbed, tpc \in {"idle", "rearm"}
  PROVE  /\ Kept(local, Structs \ QueuedNow) = << >>
         /\ \A b \in Structs : Released[b] # "QUEUED"
         /\ Having("QUEUED") \subseteq QueuedNow
<1>1. Having("QUEUED") \subseteq QueuedNow
  BY DEF Undisturbed, StreamInv, Having, QueuedNow
<1>2. Range(local) \cap (Structs \ QueuedNow) = {}
  BY <1>1, ListFacts DEF Having
<1>3. Kept(local, Structs \ QueuedNow) = << >>
  BY <1>2, KeptNone DEF TypeOK
<1>4. \A b \in Structs : Released[b] # "QUEUED"
  BY DEF Undisturbed, StreamInv, Released, TypeOK
<1> QED
  BY <1>1, <1>3, <1>4

(* Who sleeps in DQBUF has vb_lock.                                        *)
LEMMA NobodyInDqbuf ==
  ASSUME TypeOK, Undisturbed, holder = Nil
  PROVE  \A t \in Threads : ~InDqbuf(t)
  BY Constants DEF Undisturbed, SleepInv

LEMMA OneOpen ==
  ASSUME TypeOK, Undisturbed
  PROVE  opens = 0 \/ opens = 1
<1>1. opens \in Nat
  BY TypeParts, Constants DEF OpensType
<1> QED
  BY <1>1 DEF Undisturbed, SessionInv

(* Open and close.                                                         *)
LEMMA OpenStep ==
  ASSUME TypeOK, Undisturbed, NEW t \in Threads, Open(t), ~disturbed'
  PROVE  ~InSession /\ Undisturbed'
<1>1. /\ opens = 0 /\ ~InSession /\ ~streaming /\ ~pending /\ tpc = "idle"
      /\ \A u \in Threads : pc[u] = "run"
  <2>1. ~(opens > 0) /\ \A u \in Threads : pc[u] # "closing"
    BY Zenon DEF Open
  <2>2. opens = 0
    BY <2>1, OneOpen
  <2> QED
    BY <2>1, <2>2 DEF Undisturbed, SessionInv, InSession
<1>2. QBufs' = {} /\ Range(stream)' = {} /\ IsInjective(bufs)' /\ IsInjective(stream)'
  BY DEF Open, QBufs, Range, IsInjective
<1>3. \A b \in Structs : vstate[b] # "QUEUED"
  BY <1>1 DEF Undisturbed, StreamInv
<1>4. fault' = FALSE /\ SessionInv'
  BY <1>1 DEF Open, Undisturbed, SessionInv, InSession
<1>5. SleepInv' /\ PoolInv'
  BY <1>1, <1>2 DEF Open, SleepInv, InDqbuf, PoolInv
<1>6. StreamInv'
  BY <1>2, <1>3 DEF Open, StreamInv
<1>7. TimerInv'
  BY <1>1, ListFacts, KeptEmpty DEF Open, TimerInv
<1>8. MapInv'
  BY <1>3, NothingWaitsMap DEF Open
<1> QED
  BY <1>1, <1>4, <1>5, <1>6, <1>7, <1>8 DEF Undisturbed

LEMMA CloseTimerStep ==
  ASSUME TypeOK, Undisturbed, NEW t \in Threads, CloseTimer(t), ~disturbed'
  PROVE  Undisturbed'
<1>1. /\ opens = 1 /\ InSession /\ tpc = "idle" /\ pc \in [Threads -> Wheres]
      /\ \A u \in Threads : pc[u] = "run"
  <2>1. opens = 1
    BY OneOpen DEF CloseTimer, InUse
  <2>2. pc \in [Threads -> Wheres]
    BY TypeParts DEF SleepType
  <2>3. tpc = "idle"
    BY Zenon DEF CloseTimer
  <2>4. \A u \in Threads : pc[u] = "run"
    BY <2>1, Zenon DEF CloseTimer
  <2> QED
    BY <2>1, <2>2, <2>3, <2>4 DEF InSession
<1>2. /\ opens' = 0 /\ pending' = FALSE /\ InSession' /\ tpc' = "idle"
      /\ \A u \in Threads : pc'[u] = IF u = t THEN "closing" ELSE "run"
  BY <1>1 DEF CloseTimer, InSession
<1>3. /\ PoolInv' /\ StreamInv' /\ MapInv' /\ QBufs' = QBufs
      /\ Kept(stream, Having("QUEUED"))' = Kept(stream, Having("QUEUED"))
  BY <1>1, ContentFrame DEF CloseTimer, queueVars
<1>4. ~fault' /\ SessionInv'
  BY <1>1, <1>2 DEF CloseTimer, queueVars, Undisturbed, SessionInv
<1>5. SleepInv'
  BY <1>2 DEF SleepInv, InDqbuf
<1>6. TimerInv'
  BY <1>1, <1>3 DEF CloseTimer, Undisturbed, TimerInv
<1> QED
  BY <1>3, <1>4, <1>5, <1>6 DEF Undisturbed

(* The session is over: whatever the queue has left, nothing waits.        *)
LEMMA CloseQueueStep ==
  ASSUME TypeOK, Undisturbed, NEW t \in Threads, CloseQueue(t), ~disturbed'
  PROVE  InSession /\ tpc = "idle" /\ Undisturbed'
<1>1. /\ opens = 0 /\ InSession /\ tpc = "idle" /\ ~pending /\ ~reading
      /\ pc \in [Threads -> Wheres] /\ \A u \in Threads \ {t} : pc[u] = "run"
  BY TypeParts DEF CloseQueue, Undisturbed, SessionInv, InSession, OpensType, SleepType
<1>2. pc' = [u \in Threads |-> "run"]
  BY <1>1 DEF CloseQueue, Woken
<1>3. opens' = 0 /\ ~InSession' /\ ~streaming' /\ ~reading' /\ tpc' = "idle"
  BY <1>1, <1>2 DEF CloseQueue, timerVars, InSession
<1>4. /\ \A b \in Structs : vstate'[b] # "QUEUED"
      /\ \A b \in Structs : vstate[b] # "FREE" => vstate'[b] # "FREE" \/ QBufs' = {}
      /\ bufs' = bufs \/ bufs' = << >>
  <2>1. CASE CanFree
    <3>1. vstate' = Freed(QBufs) /\ bufs' = << >>
      BY <1>1, <2>1 DEF CloseQueue
    <3>2. QBufs' = {}
      BY <3>1 DEF QBufs, Range
    <3> QED
      BY <3>1, <3>2 DEF Freed, Undisturbed, StreamInv, TypeOK
  <2>2. CASE ~CanFree /\ streaming
    <3>1. vstate' = Released /\ bufs' = bufs
      BY <1>1, <2>2 DEF CloseQueue
    <3> QED
      BY <1>1, <3>1, CancelEmpties DEF Released, TypeOK
  <2>3. CASE ~CanFree /\ ~streaming
    <3>1. vstate' = vstate /\ bufs' = bufs
      BY <1>1, <2>3 DEF CloseQueue
    <3> QED
      BY <2>3, <3>1 DEF Undisturbed, StreamInv
  <2> QED
    BY <2>1, <2>2, <2>3
<1>5. local' = << >>
  BY <1>1, ListFacts, CancelEmpties DEF CloseQueue
<1>6. ~fault' /\ SessionInv'
  BY <1>1, <1>2, <1>3 DEF CloseQueue, CancelFaults, TornList, timerVars, Undisturbed, SessionInv
<1>7. SleepInv'
  BY <1>2 DEF SleepInv, InDqbuf
<1>8. PoolInv'
  <2>1. CASE bufs' = << >>
    BY <2>1 DEF PoolInv, QBufs, Range, IsInjective
  <2>2. CASE bufs' = bufs
    <3>1. QBufs' = QBufs
      BY <2>2 DEF QBufs
    <3> QED
      BY <1>4, <2>2, <3>1, ListTypes DEF Undisturbed, PoolInv
  <2> QED
    BY <1>4, <2>1, <2>2
<1>9. StreamInv'
  BY <1>3, <1>4 DEF StreamInv
<1>10. TimerInv'
  <2>1. Having("QUEUED")' = {}
    BY <1>4 DEF Having
  <2>2. Kept(stream', {}) = << >>
    BY TypeNext, KeptNone DEF TypeOK, Next, Process
  <2> QED
    BY <1>3, <1>5, <2>1, <2>2 DEF TimerInv
<1>11. MapInv'
  BY <1>4, NothingWaitsMap
<1> QED
  BY <1>1, <1>6, <1>7, <1>8, <1>9, <1>10, <1>11 DEF Undisturbed

(* STREAMOFF, and the munmap of a buffer that streams: not while the timer *)
(* function has a buffer.                                                  *)
LEMMA CancelStep ==
  ASSUME TypeOK, Undisturbed, opens > 0, holder = Nil, streaming, Cancel, ~disturbed',
         UNCHANGED <<bufs, readBuf, timerVars, opens, holder, target>>
  PROVE  /\ tpc \in {"idle", "rearm"}
         /\ ~fault' => Undisturbed'
<1>1. opens = 1 /\ InSession /\ \A u \in Threads : ~InDqbuf(u) /\ pc[u] # "closing"
  BY OneOpen, NobodyInDqbuf DEF Undisturbed, SessionInv, InSession
<1>2. tpc \in {"idle", "rearm"}
  <2>1. ~CancelDisturbs
    BY Zenon DEF Cancel
  <2> QED
    BY <2>1 DEF CancelDisturbs, Busy, Undisturbed, TimerInv, TypeOK
<1>3. /\ vstate' = Released /\ local' = << >> /\ stream' = << >> /\ ~streaming' /\ ~reading'
      /\ tpc' = tpc /\ QBufs' = QBufs /\ pc' = Woken(QueuedNow) /\ InSession'
  BY <1>1, <1>2, CancelEmpties DEF Cancel, timerVars, QBufs, InSession
<1>4. /\ \A b \in Structs : vstate'[b] # "QUEUED"
      /\ \A b \in QBufs : vstate'[b] = "NEEDS_INIT"
  BY <1>2, <1>3, CancelEmpties, ListTypes DEF Released
<1>5. SessionInv'
  <2>1. opens' = 1 /\ readBuf' = Nil /\ \A u \in Threads : pc'[u] # "closing"
    BY <1>1, <1>3 DEF Woken, InDqbuf, Undisturbed, SessionInv
  <2> QED
    BY <1>3, <2>1 DEF SessionInv
<1>6. SleepInv'
  <2>1. ASSUME NEW u \in Threads
        PROVE  /\ pc'[u] \notin {"wait_buf", "buf_woken"}
               /\ pc'[u] \in {"polling", "poll_woken"} => target'[u] \in QBufs'
    BY <1>1, <1>3 DEF Woken, InDqbuf, Undisturbed, SleepInv
  <2> QED
    BY <2>1 DEF SleepInv, InDqbuf
<1>7. PoolInv'
  BY <1>3, <1>4 DEF Undisturbed, PoolInv
<1>8. StreamInv'
  <2>1. Range(stream)' = {} /\ IsInjective(stream)'
    BY <1>3 DEF Range, IsInjective
  <2> QED
    BY <1>3, <1>4, <2>1 DEF StreamInv
<1>9. TimerInv'
  BY <1>2, <1>3, KeptEmpty DEF TimerInv
<1>10. MapInv'
  BY <1>4, NothingWaitsMap
<1> QED
  BY <1>2, <1>5, <1>6, <1>7, <1>8, <1>9, <1>10 DEF Undisturbed

LEMMA StreamoffStep ==
  ASSUME TypeOK, Undisturbed, NEW t \in Threads, Streamoff(t), ~disturbed'
  PROVE  Undisturbed'
<1>1. /\ opens > 0 /\ holder = Nil /\ streaming /\ Cancel
      /\ UNCHANGED <<bufs, readBuf, timerVars, opens, holder, target>>
  BY DEF Streamoff, Locked, InUse
<1>2. tpc \in {"idle", "rearm"} /\ (~fault' => Undisturbed')
  BY <1>1, CancelStep
<1> QED
  BY <1>2 DEF Streamoff, CancelFaults, TornList

LEMMA MunmapStep ==
  ASSUME TypeOK, Undisturbed, NEW t \in Threads, NEW b \in Structs, Munmap(t, b), ~disturbed'
  PROVE  Undisturbed'
<1>1. CASE streaming
  <2>1. /\ opens > 0 /\ holder = Nil /\ Cancel
        /\ UNCHANGED <<bufs, readBuf, timerVars, opens, holder, target>>
    BY <1>1 DEF Munmap, Locked, InUse
  <2>2. tpc \in {"idle", "rearm"} /\ (~fault' => Undisturbed')
    BY <1>1, <2>1, CancelStep
  <2> QED
    BY <2>2 DEF Munmap, CancelFaults, TornList
<1>2. CASE ~streaming
  <2>1. UNCHANGED <<bufs, vstate, stream, streaming, reading, readBuf, timerVars, sleepVars,
                    opens, local>>
    BY <1>2 DEF Munmap, sleepVars
  <2>2. tpc \in {"idle", "rearm"} /\ ~fault'
    BY <1>2, ListFacts DEF Munmap
  <2>3. InSession' = InSession
    BY <2>1 DEF InSession, sleepVars
  <2>4. /\ PoolInv' /\ StreamInv' /\ QBufs' = QBufs
        /\ Kept(stream, Having("QUEUED"))' = Kept(stream, Having("QUEUED"))
    BY <2>1, <2>3, ContentFrame
  <2>5. SessionInv' /\ SleepInv'
    BY <2>1, <2>3, <2>4 DEF Undisturbed, SessionInv, SleepInv, InDqbuf, timerVars, sleepVars
  <2>6. TimerInv'
    BY <2>1, <2>4 DEF Undisturbed, TimerInv, timerVars
  <2>7. MapInv'
    <3>1. \A c \in Structs : vstate'[c] # "QUEUED"
      BY <1>2, <2>1 DEF Undisturbed, StreamInv
    <3> QED
      BY <3>1, NothingWaitsMap
  <2> QED
    BY <2>2, <2>4, <2>5, <2>6, <2>7 DEF Undisturbed
<1> QED
  BY <1>1, <1>2

LEMMA ReqbufsStep ==
  ASSUME TypeOK, Undisturbed, NEW t \in Threads, NEW n \in 1 .. NBuf, Reqbufs(t, n), ~disturbed'
  PROVE  Undisturbed'
<1>1. /\ opens > 0 /\ holder = Nil /\ ~streaming /\ stream = << >> /\ CanFree
      /\ UNCHANGED <<stream, streaming, reading, readBuf, timerVars, sleepVars, opens, local, fault>>
  BY DEF Reqbufs, Locked, InUse
<1>2. /\ IsInjective(bufs') /\ \A b \in QBufs' : vstate'[b] = "NEEDS_INIT"
      /\ \A b \in Structs : vstate'[b] # "QUEUED"
  <2>1. "NEEDS_INIT" \in States
    BY DEF States
  <2>2. /\ IsInjective(bufs') /\ \A b \in Range(bufs') : vstate'[b] = "NEEDS_INIT"
        /\ \A b \in Structs \ Range(bufs') : vstate'[b] = Freed(QBufs)[b]
    BY <2>1, AllocateFacts DEF Reqbufs
  <2>3. \A b \in Structs : vstate[b] # "QUEUED" /\ Freed(QBufs)[b] # "QUEUED"
    BY <1>1 DEF Undisturbed, StreamInv, Freed
  <2> QED
    BY <2>2, <2>3 DEF QBufs
<1>3. \A u \in Threads : pc[u] \notin {"polling", "poll_woken", "wait_buf", "buf_woken"}
  <2>1. ~FreeDisturbs
    BY Zenon DEF Reqbufs
  <2> QED
    BY <1>1, <2>1, NobodyInDqbuf DEF FreeDisturbs, InDqbuf, Undisturbed, SleepInv
<1>4. InSession' = InSession
  BY <1>1 DEF InSession, sleepVars
<1>5. SessionInv' /\ SleepInv' /\ PoolInv'
  BY <1>1, <1>2, <1>3, <1>4
  DEF Undisturbed, SessionInv, SleepInv, InDqbuf, PoolInv, sleepVars, timerVars
<1>6. StreamInv'
  <2>1. Range(stream)' = {} /\ IsInjective(stream)'
    BY <1>1 DEF Range, IsInjective
  <2> QED
    BY <1>1, <1>2, <2>1 DEF StreamInv
<1>7. TimerInv'
  BY <1>1, ListFacts, KeptEmpty DEF TimerInv, timerVars
<1>8. MapInv'
  BY <1>2, NothingWaitsMap
<1> QED
  BY <1>1, <1>5, <1>6, <1>7, <1>8 DEF Undisturbed

(* QBUF: behind the others in stream and, if the device streams, in the    *)
(* timer's list.                                                           *)
LEMMA QbufStep ==
  ASSUME TypeOK, Undisturbed, NEW t \in Threads, NEW b \in Structs, Qbuf(t, b), ~disturbed'
  PROVE  Undisturbed'
<1> DEFINE D == Having("DONE")  Q == Having("QUEUED")
           q == Kept(stream, Q)
<1>1. /\ opens > 0 /\ holder = Nil /\ InSession /\ b \in QBufs
      /\ vstate[b] \in {"NEEDS_INIT", "IDLE"} /\ ~Busy(b) /\ (streaming => ~TornList)
      /\ vstate' = [vstate EXCEPT ![b] = IF streaming THEN "QUEUED" ELSE "PREPARED"]
      /\ stream' = Append(stream, b) /\ b \in mapped
      /\ UNCHANGED <<bufs, mapped, streaming, reading, readBuf, timerVars, sleepVars, opens>>
  BY DEF Qbuf, Locked, InUse, InSession
<1>2. /\ b \notin Range(stream) /\ b \notin Range(local)
      /\ stream \in Seq(Structs) /\ local \in Seq(Structs) /\ q \in Seq(Structs)
  <2>1. b \notin Range(stream)
    BY <1>1 DEF Undisturbed, StreamInv
  <2>2. b \notin Range(local)
    BY <1>1, ListFacts DEF Busy
  <2> QED
    BY <2>1, <2>2, ListTypes DEF TypeOK
<1>3. InSession' = InSession /\ QBufs' = QBufs
  BY <1>1 DEF InSession, QBufs, sleepVars
<1>4. fault' = FALSE
  <2>1. CASE streaming
    <3>1. Range(<<b>>) = {b}
      BY DEF Range
    <3> QED
      BY <1>1, <1>2, <2>1, <3>1 DEF Qbuf, EnterLocal
  <2>2. CASE ~streaming
    BY <2>2 DEF Qbuf, EnterLocal
  <2> QED
    BY <2>1, <2>2
<1>5. SessionInv' /\ PoolInv'
  BY <1>1, <1>3 DEF Undisturbed, SessionInv, PoolInv, sleepVars, timerVars, TypeOK, States
<1>6. SleepInv'
  BY <1>1, <1>3, NobodyInDqbuf DEF Undisturbed, SleepInv, InDqbuf, sleepVars
<1>11. MapInv'
  <2>1. Q' \subseteq Q \cup {b}
    BY <1>1 DEF Having, TypeOK
  <2> QED
    BY <1>1, <2>1 DEF Undisturbed, MapInv
<1>7. Range(stream') = Range(stream) \cup {b} /\ IsInjective(stream')
  BY <1>1, <1>2, RangeOfAppend, InjectiveAppend DEF Undisturbed, StreamInv
<1>8. /\ \A c \in Structs : vstate'[c] = "QUEUED" => streaming' /\ c \in QBufs'
      /\ Range(stream') = {c \in QBufs' : vstate'[c] \in {"PREPARED", "QUEUED", "DONE"}}
      /\ \A c \in Range(stream') : streaming' <=> vstate'[c] # "PREPARED"
  BY <1>1, <1>3, <1>7, ListTypes DEF Undisturbed, StreamInv, TypeOK, States
<1>9. CASE streaming
  <2>1. D' = D /\ Q' = Q \cup {b}
    BY <1>1, <1>9 DEF Having, TypeOK
  <2>2. /\ TwoParts(stream', D', Q')
        /\ Kept(stream', Q') = Append(q, b)
    <3>1. TwoParts(stream, D, Q) /\ b \notin D
      <4>1. TwoParts(stream, D, Q)
        BY <1>1, <1>9 DEF Undisturbed, StreamInv
      <4>2. b \notin D
        BY <1>1 DEF Having
      <4> QED
        BY <4>1, <4>2
    <3>2. stream \in Seq(Structs) /\ b \in Structs /\ b \notin Range(stream)
      BY <1>2
    <3> HIDE DEF D, Q
    <3>3. /\ TwoParts(Append(stream, b), D, Q \cup {b})
          /\ Kept(Append(stream, b), Q \cup {b}) = Append(Kept(stream, Q), b)
      BY <3>1, <3>2, TwoPartsAppend
    <3> QED
      BY <1>1, <2>1, <3>3
  <2>3. local' = Append(local, b)
    BY <1>2, <1>9, AppendIsConcat DEF Qbuf, EnterLocal
  <2>4. StreamInv'
    BY <1>7, <1>8, <2>2 DEF StreamInv
  <2>5. local' = IF tpc' \in {"unlink", "unlinking"} THEN <<tBuf'>> \o Kept(stream', Q')
                 ELSE Kept(stream', Q')
    <3>1. CASE tpc = "unlink"
      <4> DEFINE one == <<tBuf>>
      <4>1. local = one \o q /\ tBuf \in Structs
        BY <3>1, ListTypes DEF Undisturbed, TimerInv
      <4>2. one \in Seq(Structs)
        BY <4>1
      <4> HIDE DEF one, q
      <4>3. one \o Append(q, b) = Append(one \o q, b)
        BY <1>2, <4>2, AppendOfConcat
      <4>4. local' = one \o Kept(stream', Q')
        BY <2>2, <2>3, <4>1, <4>3, Zenon
      <4> QED
        BY <1>1, <3>1, <4>4 DEF one, timerVars
    <3>2. CASE tpc \notin {"unlink", "unlinking"}
      <4>1. local = q
        BY <3>2 DEF Undisturbed, TimerInv
      <4> HIDE DEF q
      <4> QED
        BY <1>1, <2>2, <2>3, <3>2, <4>1 DEF timerVars
    <3> QED
      BY <1>1, <1>9, <3>1, <3>2 DEF TornList
  <2>6. tpc' = "fill" => local' # << >> /\ tBuf' = Head(local')
    <3>1. ASSUME tpc = "fill" PROVE local' # << >> /\ Head(local') = Head(local)
      BY <1>2, <2>3, <3>1 DEF Undisturbed, TimerInv
    <3> QED
      BY <1>1, <3>1 DEF timerVars, Undisturbed, TimerInv
  <2>7. tpc' \in {"unlink", "unlinking", "wake"} => vstate'[tBuf'] \in {"DONE", "IDLE"}
    BY <1>1 DEF timerVars, Undisturbed, TimerInv, Busy, TypeOK
  <2>8. TimerInv'
    BY <1>1, <1>3, <2>5, <2>6, <2>7 DEF TimerInv, timerVars, Undisturbed
  <2> QED
    BY <1>4, <1>5, <1>6, <1>11, <2>4, <2>8 DEF Undisturbed
<1>10. CASE ~streaming
  <2>1. Q' = {} /\ q = << >> /\ local = << >> /\ tpc \in {"idle", "rearm"}
    BY <1>1, <1>10, ListFacts DEF Having, TypeOK
  <2>2. local' = << >>
    BY <1>10, <2>1 DEF Qbuf, EnterLocal
  <2>3. Kept(stream', Q') = << >>
    <3>1. stream' \in Seq(Structs)
      BY <1>1, <1>2
    <3>2. Kept(stream', {}) = << >>
      BY <3>1, KeptNone
    <3> QED
      BY <2>1, <3>2, Zenon
  <2>4. StreamInv'
    BY <1>1, <1>7, <1>8, <1>10 DEF StreamInv
  <2>5. TimerInv'
    BY <1>1, <2>1, <2>2, <2>3 DEF TimerInv, timerVars
  <2> QED
    BY <1>4, <1>5, <1>6, <1>11, <2>4, <2>5 DEF Undisturbed
<1> QED
  BY <1>9, <1>10

(* STREAMON: the whole stream waits, and is the timer's list.              *)
LEMMA StreamonFacts ==
  ASSUME TypeOK, Undisturbed, NEW t \in Threads, Streamon(t)
  PROVE  /\ opens > 0 /\ holder = Nil /\ InSession /\ ~streaming
         /\ Kept(stream, {b \in Structs : vstate[b] = "PREPARED"}) = stream
         /\ vstate' = [b \in Structs |-> IF b \in Range(stream) THEN "QUEUED" ELSE vstate[b]]
         /\ local = << >> /\ local' = stream /\ tpc \in {"idle", "rearm"} /\ ~fault'
<1>1. opens > 0 /\ holder = Nil /\ InSession /\ ~streaming
  BY DEF Streamon, Locked, InUse, InSession
<1>2. Kept(stream, {b \in Structs : vstate[b] = "PREPARED"}) = stream
  <2>1. \A b \in Range(stream) : vstate[b] = "PREPARED"
    BY <1>1 DEF Undisturbed, StreamInv
  <2>2. Range(stream) \subseteq {b \in Structs : vstate[b] = "PREPARED"}
    BY <2>1, ListTypes
  <2> QED
    BY <2>2, KeptAll DEF TypeOK
<1>3. local = << >> /\ tpc \in {"idle", "rearm"}
  BY <1>1, ListFacts
<1>4. vstate' = [b \in Structs |-> IF b \in Range(stream) THEN "QUEUED" ELSE vstate[b]]
  BY <1>2 DEF Streamon
<1>5. << >> \o stream = stream /\ Range(<< >>) = {}
  BY ConcatEmptySeq DEF TypeOK, Range
<1>6. local' = stream /\ ~fault'
  BY <1>2, <1>3, <1>5 DEF Streamon, EnterLocal, TornList
<1> QED
  BY <1>1, <1>2, <1>3, <1>4, <1>6

LEMMA StreamonStep ==
  ASSUME TypeOK, Undisturbed, NEW t \in Threads, Streamon(t), ~disturbed'
  PROVE  Undisturbed'
<1>1. /\ UNCHANGED <<bufs, stream, reading, readBuf, timerVars, sleepVars, opens>>
      /\ streaming' = TRUE
  BY DEF Streamon
<1>2. InSession' /\ QBufs' = QBufs /\ Range(stream') = Range(stream)
  BY <1>1, StreamonFacts DEF InSession, QBufs, sleepVars
<1>3. SessionInv' /\ PoolInv'
  <2>1. SessionInv'
    BY <1>1, <1>2, StreamonFacts DEF Undisturbed, SessionInv, sleepVars, timerVars
  <2>2. \A b \in QBufs : vstate'[b] # "FREE"
    BY StreamonFacts, ListTypes DEF Undisturbed, PoolInv
  <2> QED
    BY <1>1, <1>2, <2>1, <2>2 DEF Undisturbed, PoolInv
<1>4. SleepInv'
  BY <1>1, <1>2, StreamonFacts, NobodyInDqbuf DEF Undisturbed, SleepInv, InDqbuf, sleepVars
<1>5. Range(stream) = {b \in QBufs : vstate[b] \in {"PREPARED", "QUEUED",
"DONE"}} /\ IsInjective(stream)
  BY StreamonFacts DEF Undisturbed, StreamInv
<1>6. /\ \A c \in Structs : vstate'[c] = "QUEUED" => streaming' /\ c \in QBufs'
      /\ Range(stream') = {c \in QBufs' : vstate'[c] \in {"PREPARED", "QUEUED", "DONE"}}
      /\ \A c \in Range(stream') : streaming' <=> vstate'[c] # "PREPARED"
  BY <1>1, <1>2, <1>5, StreamonFacts, ListTypes DEF Undisturbed, StreamInv
<1>7. /\ Range(stream) \subseteq Having("QUEUED")'
      /\ Range(stream) \cap Having("DONE")' = {}
      /\ Having("DONE")' \cap Having("QUEUED")' = {}
  <2>1. \A b \in Range(stream) : b \in Structs /\ vstate'[b] = "QUEUED"
    BY ListTypes, StreamonFacts
  <2> QED
    BY <2>1 DEF Having
<1>8. Kept(stream, Having("QUEUED")') = stream /\ Kept(stream, Having("DONE")') = << >>
  BY <1>7, KeptAll, KeptNone DEF TypeOK
<1>9. TwoParts(stream', Having("DONE")', Having("QUEUED")')
  BY <1>1, <1>5, <1>7, <1>8, ConcatEmptySeq DEF TwoParts, TypeOK
<1>10. StreamInv'
  BY <1>1, <1>5, <1>6, <1>9 DEF StreamInv
<1>11. TimerInv'
  BY <1>1, <1>8, StreamonFacts DEF TimerInv, timerVars
<1>12. MapInv'
  <2>1. mapped' = mapped /\ Range(stream) \subseteq mapped
    BY DEF Streamon
  <2>2. Having("QUEUED")' \subseteq Range(stream)
    BY StreamonFacts DEF Having, Undisturbed, StreamInv
  <2> QED
    BY <2>1, <2>2 DEF MapInv
<1> QED
  BY <1>3, <1>4, <1>10, <1>11, <1>12, StreamonFacts DEF Undisturbed

LEMMA FirstTaken ==
  ASSUME NEW s \in Seq(Structs), s # << >>, NEW D, NEW Q, TwoParts(s, D, Q), Head(s) \in D
  PROVE  /\ TwoParts(Tail(s), D \ {Head(s)}, Q)
         /\ Kept(Tail(s), Q) = Kept(s, Q)
  BY TwoPartsTake

(* DQBUF: the first of the stream has its frame, and goes.                 *)
LEMMA TakeOutStep ==
  ASSUME TypeOK, Undisturbed, ~disturbed', NEW t \in Threads, NEW b, TakeOut(t, b),
         opens > 0, streaming, stream # << >>, b = Head(stream), vstate[b] # "QUEUED",
         \A u \in Threads \ {t} : ~InDqbuf(u)
  PROVE  /\ vstate[b] = "DONE" /\ b \in QBufs
         /\ vstate' = [vstate EXCEPT ![b] = "IDLE"] /\ stream' = Tail(stream)
         /\ TwoParts(stream, Having("DONE"), Having("QUEUED"))
         /\ Undisturbed'
<1> DEFINE D == Having("DONE")  Q == Having("QUEUED")
<1>1. /\ stream \in Seq(Structs) /\ b \in Structs /\ b \in Range(stream) /\ InSession
      /\ IsInjective(stream) /\ TwoParts(stream, D, Q)
      /\ Range(stream) = {c \in QBufs : vstate[c] \in {"PREPARED", "QUEUED", "DONE"}}
      /\ \A c \in Range(stream) : streaming <=> vstate[c] # "PREPARED"
  BY ListTypes DEF TypeOK, Undisturbed, StreamInv, InSession
<1>2. vstate[b] = "DONE" /\ b \in QBufs
  BY <1>1
<1>3. stream' = Tail(stream) /\ vstate' = [vstate EXCEPT ![b] = "IDLE"]
  BY <1>1, <1>2, KeptWithoutHead DEF TakeOut, Ready
<1>4. /\ UNCHANGED <<bufs, streaming, reading, readBuf, timerVars, opens, local, fault>>
      /\ holder' = Nil /\ pc' = [pc EXCEPT ![t] = "run"] /\ target' = [target EXCEPT ![t] = Nil]
  BY DEF TakeOut
<1>5. D' = D \ {b} /\ Q' = Q /\ b \in D
  BY <1>1, <1>2, <1>3 DEF Having, TypeOK
<1>6. /\ TwoParts(stream', D', Q')
      /\ Kept(stream', Q') = Kept(stream, Q)
  <2>1. /\ TwoParts(Tail(stream), D \ {b}, Q)
        /\ Kept(Tail(stream), Q) = Kept(stream, Q)
    BY <1>1, <1>5, FirstTaken
  <2> QED
    BY <1>3, <1>5, <2>1
<1>7. /\ IsInjective(stream') /\ Range(stream') = Range(stream) \ {b}
  BY <1>1, <1>3, TailOfInjective
<1>8. InSession' /\ QBufs' = QBufs
  BY <1>4 DEF InSession, QBufs
<1>9. SessionInv'
  <2>1. opens' = opens /\ pending' = pending /\ tpc' = tpc /\ \A u \in Threads : pc'[u] \in {pc[u],
  "run"}
    BY <1>4, TypeParts DEF timerVars, SleepType
  <2> QED
    BY <1>4, <1>8, <2>1 DEF Undisturbed, SessionInv
<1>10. SleepInv'
  BY <1>4, <1>8, TypeParts DEF Undisturbed, SleepInv, InDqbuf, SleepType
<1>11. PoolInv'
  BY <1>1, <1>3, <1>4, <1>8, ListTypes DEF Undisturbed, PoolInv, TypeOK
<1>12. StreamInv'
  <2>1. \A c \in Structs : vstate'[c] = "QUEUED" => streaming' /\ c \in QBufs'
    BY <1>3, <1>4, <1>8 DEF Undisturbed, StreamInv, TypeOK
  <2>2. Range(stream') = {c \in QBufs' : vstate'[c] \in {"PREPARED", "QUEUED", "DONE"}}
    BY <1>1, <1>3, <1>7, <1>8, ListTypes DEF TypeOK
  <2>3. \A c \in Range(stream') : streaming' <=> vstate'[c] # "PREPARED"
    BY <1>1, <1>3, <1>4, <1>7, ListTypes DEF TypeOK
  <2> QED
    BY <1>6, <1>7, <2>1, <2>2, <2>3 DEF StreamInv
<1>13. TimerInv'
  <2>1. tpc \in {"unlink", "unlinking", "wake"} => vstate'[tBuf] \in {"DONE", "IDLE"}
    BY <1>2, <1>3, ListTypes DEF Undisturbed, TimerInv, TypeOK
  <2> QED
    BY <1>4, <1>6, <1>8, <2>1 DEF Undisturbed, TimerInv, timerVars
<1>14. MapInv'
  BY <1>5, MapFrame DEF TakeOut, Undisturbed
<1> QED
  BY <1>1, <1>2, <1>3, <1>4, <1>9, <1>10, <1>11, <1>12, <1>13, <1>14 DEF Undisturbed

(* What only changes who sleeps.                                           *)
LEMMA SleepFrame ==
  ASSUME TypeOK, Undisturbed, UNCHANGED <<queueVars, timerVars, opens, local>>, ~fault',
         SleepInv', opens > 0, \A t \in Threads : pc'[t] # "closing"
  PROVE  Undisturbed'
<1>1. InSession /\ InSession'
  BY DEF InSession
<1>2. /\ PoolInv' /\ StreamInv' /\ MapInv' /\ QBufs' = QBufs
      /\ Kept(stream, Having("QUEUED"))' = Kept(stream, Having("QUEUED"))
  BY <1>1, ContentFrame DEF queueVars
<1>3. SessionInv'
  BY <1>1 DEF Undisturbed, SessionInv, queueVars, timerVars
<1>4. TimerInv'
  BY <1>2 DEF Undisturbed, TimerInv, queueVars, timerVars
<1> QED
  BY <1>2, <1>3, <1>4 DEF Undisturbed

LEMMA DqbufStep ==
  ASSUME TypeOK, Undisturbed, NEW t \in Threads, Dqbuf(t), ~disturbed'
  PROVE  Undisturbed'
<1>1. opens > 0 /\ holder = Nil /\ streaming
  BY DEF Dqbuf
<1>2. CASE stream # << >> /\ vstate[Head(stream)] # "QUEUED"
  <2>1. TakeOut(t, Head(stream))
    BY <1>2 DEF Dqbuf
  <2> QED
    BY <1>1, <1>2, <2>1, NobodyInDqbuf, TakeOutStep
<1>3. CASE ~(stream # << >> /\ vstate[Head(stream)] # "QUEUED")
  <2>1. UNCHANGED <<queueVars, timerVars, opens, local, fault>>
    BY <1>3 DEF Dqbuf
  <2>2. pc \in [Threads -> Wheres] /\ target \in [Threads -> {Nil} \cup Structs]
    BY TypeParts DEF SleepType
  <2>3. \A u \in Threads : pc[u] # "closing" /\ ~InDqbuf(u)
    BY <1>1, NobodyInDqbuf DEF Undisturbed, SessionInv
  <2>4. QBufs' = QBufs /\ stream' = stream /\ streaming' = streaming
    BY <2>1 DEF queueVars, QBufs
  <2>5. CASE stream = << >>
    <3>1. pc' = [pc EXCEPT ![t] = "wait_stream"] /\ UNCHANGED <<holder, target>>
      BY <1>3, <2>5 DEF Dqbuf
    <3>2. SleepInv'
      BY <2>2, <2>3, <2>4, <3>1 DEF Undisturbed, SleepInv, InDqbuf
    <3> QED
      BY <1>1, <2>1, <2>2, <2>3, <3>1, <3>2, SleepFrame DEF Undisturbed
  <2>6. CASE stream # << >>
    <3>1. pc' = [pc EXCEPT ![t] = "wait_buf"] /\ holder' = t
          /\ target' = [target EXCEPT ![t] = Head(stream)]
      BY <1>3, <2>6 DEF Dqbuf
    <3>2. Head(stream) \in QBufs
      BY <1>1, <2>6, ListTypes DEF Undisturbed, StreamInv, InSession
    <3>3. SleepInv'
      BY <1>1, <2>2, <2>3, <2>4, <2>6, <3>1, <3>2 DEF Undisturbed, SleepInv, InDqbuf
    <3> QED
      BY <1>1, <2>1, <2>2, <2>3, <3>1, <3>3, SleepFrame DEF Undisturbed
  <2> QED
    BY <2>5, <2>6
<1> QED
  BY <1>2, <1>3

(* A DQBUF that was woken: nobody else has vb_lock.                        *)
LEMMA WokenFacts ==
  ASSUME TypeOK, Undisturbed, NEW t \in Threads, pc[t] = "buf_woken"
  PROVE  /\ holder = t /\ streaming /\ stream # << >> /\ target[t] = Head(stream)
         /\ opens > 0 /\ \A u \in Threads : pc[u] # "closing"
         /\ \A u \in Threads \ {t} : ~InDqbuf(u)
<1>1. holder = t /\ streaming /\ stream # << >> /\ target[t] = Head(stream)
  BY DEF Undisturbed, SleepInv, InDqbuf
<1>2. \A u \in Threads \ {t} : ~InDqbuf(u)
  BY <1>1 DEF Undisturbed, SleepInv
<1>3. opens > 0
  BY OneOpen DEF Undisturbed, SessionInv
<1>4. \A u \in Threads : pc[u] # "closing"
  BY <1>3 DEF Undisturbed, SessionInv
<1> QED
  BY <1>1, <1>2, <1>3, <1>4

LEMMA DqbufWakesStep ==
  ASSUME TypeOK, Undisturbed, NEW t \in Threads, DqbufWakes(t), ~disturbed'
  PROVE  Undisturbed'
<1>1. pc[t] = "buf_woken"
  BY DEF DqbufWakes
<1>2. CASE vstate[target[t]] # "QUEUED"
  <2>1. TakeOut(t, target[t])
    BY <1>2 DEF DqbufWakes
  <2> QED
    BY <1>1, <1>2, <2>1, WokenFacts, TakeOutStep
<1>3. CASE vstate[target[t]] = "QUEUED"
  <2>1. /\ pc' = [pc EXCEPT ![t] = "wait_buf"]
        /\ UNCHANGED <<queueVars, timerVars, opens, local, holder, target, fault>>
    BY <1>3 DEF DqbufWakes
  <2>2. pc \in [Threads -> Wheres]
    BY TypeParts DEF SleepType
  <2>3. \A u \in Threads : pc'[u] = IF u = t THEN "wait_buf" ELSE pc[u]
    BY <2>1, <2>2
  <2>4. QBufs' = QBufs /\ stream' = stream /\ streaming' = streaming
    BY <2>1 DEF queueVars, QBufs
  <2>5. SleepInv'
    BY <1>1, <2>1, <2>3, <2>4 DEF Undisturbed, SleepInv, InDqbuf
  <2>6. \A u \in Threads : pc'[u] # "closing"
    BY <1>1, <2>3, WokenFacts
  <2> QED
    BY <1>1, <2>1, <2>5, <2>6, WokenFacts, SleepFrame DEF Undisturbed
<1> QED
  BY <1>2, <1>3

(* A mapping, and the sleeps of poll and of DQBUF on an empty stream.      *)
LEMMA MmapStep ==
  ASSUME TypeOK, Undisturbed, NEW t \in Threads, NEW b \in Structs, Mmap(t, b) \/ MmapFails(t, b)
  PROVE  Undisturbed'
<1>1. /\ mapped \subseteq mapped'
      /\ UNCHANGED <<bufs, vstate, stream, streaming, reading, readBuf, timerVars, sleepVars,
                     opens, local, fault>>
  BY DEF Mmap, MmapFails
<1>2. InSession' = InSession
  BY <1>1 DEF InSession, sleepVars
<1>3. /\ PoolInv' /\ StreamInv' /\ MapInv' /\ QBufs' = QBufs
      /\ Kept(stream, Having("QUEUED"))' = Kept(stream, Having("QUEUED"))
  BY <1>1, <1>2, ContentFrame
<1>4. SessionInv' /\ SleepInv'
  BY <1>1, <1>2, <1>3 DEF Undisturbed, SessionInv, SleepInv, InDqbuf, timerVars, sleepVars
<1>5. TimerInv'
  BY <1>1, <1>3 DEF Undisturbed, TimerInv, timerVars
<1> QED
  BY <1>1, <1>3, <1>4, <1>5 DEF Undisturbed

LEMMA PollStep ==
  ASSUME TypeOK, Undisturbed, NEW t \in Threads, ~disturbed',
         Poll(t) \/ PollRead(t) \/ PollStartsRead(t) \/ PollAgain(t) \/ PollTimeout(t)
  PROVE  UNCHANGED <<queueVars, timerVars, opens, local>> /\ Undisturbed'
<1>1. pc \in [Threads -> Wheres] /\ target \in [Threads -> {Nil} \cup Structs]
  BY TypeParts DEF SleepType
<1>2. ~PollRead(t) /\ ~PollStartsRead(t)
  BY DEF PollRead, PollStartsRead, Undisturbed, SessionInv
<1>3. opens > 0 /\ \A u \in Threads : pc[u] # "closing"
  <2>1. opens > 0 \/ pc[t] \in {"polling", "poll_woken"}
    BY <1>2 DEF Poll, PollAgain, PollTimeout, Locked, InUse
  <2> QED
    BY <2>1, OneOpen DEF Undisturbed, SessionInv
<1>4. UNCHANGED <<queueVars, timerVars, opens, local>>
  BY <1>2 DEF Poll, PollAgain, PollTimeout
<1>5. QBufs' = QBufs /\ stream' = stream /\ streaming' = streaming
  BY <1>4 DEF queueVars, QBufs
<1>6. CASE Poll(t)
  <2>1. Head(stream) \in QBufs
    BY <1>6, ListTypes DEF Poll, Locked, InUse, Undisturbed, StreamInv, InSession
  <2>2. /\ pc' = [pc EXCEPT ![t] = "polling"] /\ target' = [target EXCEPT ![t] = Head(stream)]
        /\ holder' = holder /\ fault' = fault
    BY <1>6 DEF Poll
  <2>3. SleepInv'
    BY <1>1, <1>5, <2>1, <2>2 DEF Undisturbed, SleepInv, InDqbuf
  <2> QED
    BY <1>1, <1>3, <1>4, <2>2, <2>3, SleepFrame DEF Undisturbed
<1>7. CASE PollAgain(t) \/ PollTimeout(t)
  <2>1. /\ pc[t] \in {"polling", "poll_woken"} /\ holder' = holder
        /\ pc' = [pc EXCEPT ![t] = "run"] \/ pc' = [pc EXCEPT ![t] = "polling"]
        /\ target' = [target EXCEPT ![t] = IF pc'[t] = "run" THEN Nil ELSE @]
        /\ fault' = (vstate[target[t]] = "FREE")
    BY <1>1, <1>7 DEF PollAgain, PollTimeout
  <2>2. target[t] \in QBufs /\ vstate[target[t]] # "FREE"
    BY <2>1 DEF Undisturbed, SleepInv, PoolInv
  <2>3. \A u \in Threads \ {t} : pc'[u] = pc[u] /\ target'[u] = target[u]
    BY <1>1, <2>1
  <2>4. pc'[t] = "run" \/ (pc'[t] = "polling" /\ target'[t] = target[t])
    BY <1>1, <2>1
  <2>5. SleepInv'
    BY <1>5, <2>1, <2>2, <2>3, <2>4 DEF Undisturbed, SleepInv, InDqbuf
  <2> QED
    BY <1>3, <1>4, <2>1, <2>2, <2>3, <2>4, <2>5, SleepFrame
<1> QED
  BY <1>2, <1>4, <1>6, <1>7

LEMMA DqbufEndStep ==
  ASSUME TypeOK, Undisturbed, NEW t \in Threads, DqbufStopped(t) \/ DqbufSignal(t)
  PROVE  Undisturbed'
<1>1. pc \in [Threads -> Wheres] /\ target \in [Threads -> {Nil} \cup Structs]
  BY TypeParts DEF SleepType
<1>2. /\ pc[t] \in {"wait_buf", "wait_stream"} /\ pc' = [pc EXCEPT ![t] = "run"]
      /\ target' = [target EXCEPT ![t] = Nil] \/ target' = target
      /\ holder' = IF pc[t] = "wait_buf" THEN Nil ELSE holder
      /\ UNCHANGED <<queueVars, timerVars, opens, local, fault>>
  BY DEF DqbufStopped, DqbufSignal
<1>3. opens > 0 /\ \A u \in Threads : pc[u] # "closing"
  BY <1>2, OneOpen DEF Undisturbed, SessionInv
<1>4. QBufs' = QBufs /\ stream' = stream /\ streaming' = streaming
  BY <1>2 DEF queueVars, QBufs
<1>5. \A u \in Threads \ {t} : pc'[u] = pc[u] /\ target'[u] = target[u]
  BY <1>1, <1>2
<1>6. \A u \in Threads \ {t} : InDqbuf(u) => holder' = u
  BY <1>2 DEF Undisturbed, SleepInv, InDqbuf
<1>7. pc'[t] = "run"
  BY <1>1, <1>2
<1>8. SleepInv'
  BY <1>4, <1>5, <1>6, <1>7 DEF Undisturbed, SleepInv, InDqbuf
<1> QED
  BY <1>2, <1>3, <1>5, <1>7, <1>8, SleepFrame DEF Undisturbed

(* The timer function.                                                     *)
LEMMA TimerStartStep ==
  ASSUME TypeOK, Undisturbed, TimerStart
  PROVE  Undisturbed'
<1>1. /\ tpc = "idle" /\ pending /\ ~pending'
      /\ UNCHANGED <<queueVars, sleepVars, opens, local>>
      /\ \/ local # << >> /\ tpc' = "fill" /\ tBuf' = Head(local)
         \/ tpc' = "rearm" /\ tBuf' = tBuf
      /\ fault' = (local # << >> /\ vstate[Head(local)] = "FREE")
  BY DEF TimerStart
<1>2. local # << >> => vstate[Head(local)] = "QUEUED" /\ Head(local) \in QBufs /\ streaming
  BY <1>1, ListFacts, ListTypes DEF Undisturbed, StreamInv
<1>3. InSession' = InSession
  BY <1>1 DEF InSession, sleepVars
<1>4. /\ PoolInv' /\ StreamInv' /\ MapInv' /\ QBufs' = QBufs
      /\ Kept(stream, Having("QUEUED"))' = Kept(stream, Having("QUEUED"))
  BY <1>1, <1>3, ContentFrame DEF queueVars
<1>5. ~fault'
  BY <1>1, <1>2
<1>6. SessionInv' /\ SleepInv'
  BY <1>1, <1>3, <1>4 DEF Undisturbed, SessionInv, SleepInv, InDqbuf, queueVars, sleepVars
<1>7. TimerInv'
  BY <1>1, <1>2, <1>4 DEF Undisturbed, TimerInv, queueVars
<1> QED
  BY <1>4, <1>5, <1>6, <1>7 DEF Undisturbed

(* The buffer that is filled is the first that waits.                      *)
LEMMA FillFacts ==
  ASSUME TypeOK, Undisturbed, tpc = "fill"
  PROVE  /\ tBuf \in Structs /\ tBuf \in QBufs /\ vstate[tBuf] = "QUEUED" /\ tBuf \in Range(stream)
         /\ streaming /\ InSession
         /\ Kept(stream, Having("QUEUED")) \in Seq(Structs)
         /\ Kept(stream, Having("QUEUED")) # << >> /\ tBuf = Head(Kept(stream, Having("QUEUED")))
         /\ TwoParts(stream, Having("DONE"), Having("QUEUED"))
<1>1. /\ local = Kept(stream, Having("QUEUED")) /\ local # << >> /\ tBuf = Head(local)
      /\ tBuf \in QBufs /\ streaming
  BY DEF Undisturbed, TimerInv
<1>2. InSession
  BY <1>1 DEF Undisturbed, SessionInv
<1>3. tBuf \in Structs /\ vstate[tBuf] = "QUEUED" /\ tBuf \in Range(stream)
  BY <1>1, ListTypes, ListFacts
<1>4. TwoParts(stream, Having("DONE"), Having("QUEUED"))
  BY <1>1, <1>2 DEF Undisturbed, StreamInv
<1> QED
  BY <1>1, <1>2, <1>3, <1>4, ListTypes

LEMMA FillMoves ==
  ASSUME TypeOK, Undisturbed, tpc = "fill", NEW D, D = Having("DONE"), NEW Q, Q = Having("QUEUED")
  PROVE  /\ TwoParts(stream, D \cup {tBuf}, Q \ {tBuf})
         /\ Kept(stream, D \cup {tBuf}) = Append(Kept(stream, D), tBuf)
         /\ Kept(stream, Q \ {tBuf}) = Tail(Kept(stream, Q))
<1>1. stream \in Seq(Structs)
  BY DEF TypeOK
<1>2. /\ Kept(stream, Q) # << >> /\ tBuf = Head(Kept(stream, Q)) /\ TwoParts(stream, D, Q)
      /\ tBuf \in Structs
  BY FillFacts
<1> QED
  <2>1. TwoPartsMoved(stream, D, Q, tBuf)
    BY <1>1, <1>2, TwoPartsMove
  <2> QED
    BY <2>1 DEF TwoPartsMoved

LEMMA TimerFillStep ==
  ASSUME TypeOK, Undisturbed, TimerFill
  PROVE  /\ vstate' = [vstate EXCEPT ![tBuf] = "DONE"]
         /\ fault' => FilledUnbacked'
         /\ ~fault' => Undisturbed'
<1> DEFINE D == Having("DONE")  Q == Having("QUEUED")  q == Kept(stream, Q)
<1>1. /\ tpc = "fill" /\ tpc' = "unlink" /\ fault' = (vstate[tBuf] = "FREE" \/ tBuf \notin backed)
      /\ UNCHANGED <<bufs, mapped, backed, stream, streaming, reading, readBuf, pending,
                     tBuf, sleepVars, opens, local>>
  BY DEF TimerFill
<1>2. vstate' = [vstate EXCEPT ![tBuf] = "DONE"] /\ (fault' => tBuf \notin backed)
  BY <1>1, FillFacts DEF TimerFill
<1>10. fault' => FilledUnbacked'
  <2>1. tBuf \in mapped
    BY <1>1, FillFacts DEF Undisturbed, MapInv, Having
  <2> QED
    BY <1>1, <1>2, <2>1 DEF FilledUnbacked
<1>11. MapInv'
  <2>1. Having("QUEUED")' \subseteq Having("QUEUED")
    BY <1>1, <1>2, FillFacts DEF Having, TypeOK
  <2> QED
    BY <1>1, <2>1, MapFrame DEF Undisturbed
<1>3. D' = D \cup {tBuf} /\ Q' = Q \ {tBuf}
  BY <1>1, <1>2, FillFacts DEF Having, TypeOK
<1>4. TwoParts(stream, D', Q') /\ Kept(stream, Q') = Tail(q)
  BY <1>1, <1>3, FillMoves
<1>5. InSession' /\ QBufs' = QBufs
  BY <1>1, FillFacts DEF InSession, QBufs, sleepVars
<1>6. SessionInv' /\ SleepInv'
  <2>1. opens > 0
    BY <1>1, OneOpen DEF Undisturbed, SessionInv
  <2> QED
    BY <1>1, <1>5, <2>1 DEF Undisturbed, SessionInv, SleepInv, InDqbuf, sleepVars
<1>7. PoolInv'
  BY <1>1, <1>2, <1>5, FillFacts, ListTypes DEF Undisturbed, PoolInv, TypeOK
<1>8. StreamInv'
  <2>1. \A c \in Structs : vstate'[c] = "QUEUED" => streaming' /\ c \in QBufs'
    BY <1>1, <1>2, <1>5, FillFacts DEF Undisturbed, StreamInv, TypeOK
  <2>2. IsInjective(stream) /\ Range(stream) = {c \in QBufs : vstate[c] \in {"PREPARED", "QUEUED",
  "DONE"}}
    BY <1>1, FillFacts DEF Undisturbed, StreamInv
  <2>3. Range(stream') = {c \in QBufs' : vstate'[c] \in {"PREPARED", "QUEUED", "DONE"}}
    BY <1>1, <1>2, <1>5, <2>2, FillFacts, ListTypes DEF TypeOK
  <2>4. \A c \in Range(stream') : streaming' <=> vstate'[c] # "PREPARED"
    <3>1. \A c \in Range(stream) : streaming <=> vstate[c] # "PREPARED"
      BY <1>1, FillFacts DEF Undisturbed, StreamInv
    <3> QED
      BY <1>1, <1>2, <3>1, FillFacts, ListTypes DEF TypeOK
  <2> QED
    BY <1>1, <1>4, <2>1, <2>2, <2>3, <2>4 DEF StreamInv
<1>9. TimerInv'
  <2>1. local' = <<tBuf>> \o Kept(stream, Q')
    <3>1. local' = q
      BY <1>1 DEF Undisturbed, TimerInv
    <3>2. q = <<tBuf>> \o Tail(q)
      <4>1. q \in Seq(Structs) /\ q # << >> /\ tBuf = Head(q)
        BY <1>1, FillFacts
      <4> HIDE DEF q
      <4> QED
        BY <4>1, HeadAndTail
    <3> QED
      BY <1>4, <3>1, <3>2
  <2>2. vstate'[tBuf] = "DONE"
    BY <1>1, <1>2, FillFacts DEF TypeOK
  <2> QED
    BY <1>1, <1>5, <2>1, <2>2, FillFacts DEF TimerInv
<1> QED
  BY <1>2, <1>6, <1>7, <1>8, <1>9, <1>10, <1>11 DEF Undisturbed

LEMMA TimerUnlinkStep ==
  ASSUME TypeOK, Undisturbed, TimerUnlink \/ TimerUnlinked
  PROVE  Undisturbed'
<1> DEFINE q == Kept(stream, Having("QUEUED"))
<1>1. /\ tpc \in {"unlink", "unlinking"} /\ tpc' \in {"unlinking", "wake"}
      /\ UNCHANGED <<queueVars, pending, tBuf, sleepVars, opens>>
  BY DEF TimerUnlink, TimerUnlinked
<1>2. /\ local = <<tBuf>> \o q /\ q \in Seq(Structs) /\ tBuf \in Structs /\ tBuf \in QBufs
      /\ vstate[tBuf] \in {"DONE", "IDLE"} /\ streaming
  BY <1>1, ListTypes DEF Undisturbed, TimerInv
<1>3. tBuf \notin Range(q)
  BY <1>2, ListFacts DEF Having
<1>4. local # << >> /\ Head(local) = tBuf /\ Tail(local) = q /\ local \in Seq(Structs)
  <2> HIDE DEF q
  <2>1. <<tBuf>> \o q # << >> /\ Head(<<tBuf>> \o q) = tBuf /\ Tail(<<tBuf>> \o q) = q
    BY <1>2, HeadOfConcat
  <2>2. local \in Seq(Structs)
    BY DEF TypeOK
  <2> QED
    BY <1>2, <2>1, <2>2, Zenon
<1>5. Kept(local, Structs \ {tBuf}) = q
  <2>1. Kept(local, Structs \ {tBuf}) = Kept(q, Structs \ {tBuf})
    <3> HIDE DEF q
    <3> QED
      BY <1>4, KeptHead
  <2>2. Range(q) \subseteq Structs \ {tBuf}
    BY <1>2, <1>3 DEF Range
  <2>3. Kept(q, Structs \ {tBuf}) = q
    <3> HIDE DEF q
    <3> QED
      BY <1>2, <2>2, KeptAll
  <2> QED
    BY <2>1, <2>3
<1>6. ~fault'
  BY <1>4, ListTypes DEF TimerUnlink, TimerUnlinked, Undisturbed
<1>7. InSession' = InSession
  BY <1>1 DEF InSession, sleepVars
<1>8. PoolInv' /\ StreamInv' /\ MapInv' /\ QBufs' = QBufs /\ q' = q
  BY <1>1, <1>7, ContentFrame DEF queueVars
<1>9. SessionInv' /\ SleepInv'
  <2>1. opens > 0
    BY <1>1, OneOpen DEF Undisturbed, SessionInv
  <2> QED
    BY <1>1, <1>7, <1>8, <2>1 DEF Undisturbed, SessionInv, SleepInv, InDqbuf, queueVars, sleepVars
<1>10. TimerInv'
  <2>1. CASE TimerUnlink
    BY <1>1, <1>2, <1>8, <2>1 DEF TimerUnlink, TimerInv, queueVars
  <2>2. CASE TimerUnlinked
    BY <1>1, <1>2, <1>5, <1>8, <2>2 DEF TimerUnlinked, TimerInv, queueVars
  <2> QED
    BY <2>1, <2>2
<1> QED
  BY <1>6, <1>8, <1>9, <1>10 DEF Undisturbed

LEMMA TimerEndStep ==
  ASSUME TypeOK, Undisturbed, TimerWake \/ TimerRearm
  PROVE  Undisturbed'
<1>1. /\ tpc \in {"wake", "rearm"} /\ tpc' \in {"rearm", "idle"}
      /\ UNCHANGED <<queueVars, holder, target, opens, local>>
  BY DEF TimerWake, TimerRearm, sleepVars
<1>2. \A u \in Threads : \/ pc'[u] = pc[u]
                         \/ pc[u] = "polling" /\ pc'[u] = "poll_woken"
                         \/ pc[u] = "wait_buf" /\ pc'[u] = "buf_woken"
  BY DEF TimerWake, TimerRearm, sleepVars, Woken
<1>3. opens = 1 /\ opens' = 1
  BY <1>1, OneOpen DEF Undisturbed, SessionInv
<1>4. InSession' /\ InSession
  BY <1>3 DEF InSession
<1>5. /\ PoolInv' /\ StreamInv' /\ MapInv' /\ QBufs' = QBufs
      /\ Kept(stream, Having("QUEUED"))' = Kept(stream, Having("QUEUED"))
  BY <1>1, <1>4, ContentFrame DEF queueVars
<1>6. ~fault'
  <2>1. tpc = "wake" => vstate[tBuf] # "FREE"
    BY DEF Undisturbed, TimerInv
  <2> QED
    BY <2>1 DEF TimerWake, TimerRearm, Undisturbed
<1>7. SessionInv'
  BY <1>1, <1>2, <1>3, <1>4 DEF Undisturbed, SessionInv, queueVars
<1>8. SleepInv'
  BY <1>1, <1>2, <1>5 DEF Undisturbed, SleepInv, InDqbuf, queueVars
<1>9. TimerInv'
  BY <1>1, <1>5 DEF Undisturbed, TimerInv
<1> QED
  BY <1>5, <1>6, <1>7, <1>8, <1>9 DEF Undisturbed

LEMMA StutterStep == ASSUME Undisturbed, UNCHANGED vars PROVE Undisturbed'
<1>1. InSession' = InSession
  BY DEF vars, sleepVars, InSession
<1>2. /\ PoolInv' /\ StreamInv' /\ MapInv' /\ QBufs' = QBufs
      /\ Kept(stream, Having("QUEUED"))' = Kept(stream, Having("QUEUED"))
  BY <1>1, ContentFrame DEF vars, queueVars
<1>3. SessionInv' /\ SleepInv' /\ TimerInv'
  BY <1>1, <1>2
  DEF vars, queueVars, sleepVars, timerVars, Undisturbed, SessionInv, SleepInv, InDqbuf, TimerInv
<1> QED
  BY <1>2, <1>3 DEF Undisturbed, vars

(* Once disturbed, always disturbed.                                       *)
LEMMA DisturbedStays == [Next]_vars /\ disturbed => disturbed'
<1> SUFFICES ASSUME [Next]_vars, disturbed PROVE disturbed'
  OBVIOUS
<1> USE Zenon
<1>1. ASSUME NEW t \in Threads, Process(t) PROVE disturbed'
  <2>1. CASE Open(t) \/ CloseTimer(t) \/ CloseQueue(t)
    BY <2>1 DEF Open, CloseTimer, CloseQueue
  <2>2. CASE \E b \in Structs : Mmap(t, b) \/ MmapFails(t, b) \/ Munmap(t, b) \/ Qbuf(t, b)
    BY <2>2 DEF Mmap, MmapFails, Munmap, Cancel, Qbuf
  <2>3. CASE Poll(t) \/ PollStartsRead(t) \/ PollRead(t) \/ PollAgain(t) \/ PollTimeout(t)
    BY <2>3 DEF Poll, PollStartsRead, PollRead, PollAgain, PollTimeout
  <2>4. CASE \E n \in 1 .. NBuf : Reqbufs(t, n)
    BY <2>4 DEF Reqbufs
  <2>7. CASE ReqbufsNoMemory(t)
    BY <2>7 DEF ReqbufsNoMemory
  <2>5. CASE Streamon(t) \/ Streamoff(t)
    BY <2>5 DEF Streamon, Streamoff, Cancel
  <2>6. CASE Dqbuf(t) \/ DqbufStopped(t) \/ DqbufWakes(t) \/ DqbufSignal(t)
    BY <2>6 DEF Dqbuf, DqbufStopped, DqbufWakes, DqbufSignal, TakeOut
  <2> QED
    BY <1>1, <2>1, <2>2, <2>3, <2>4, <2>5, <2>6, <2>7 DEF Process
<1>2. CASE Timer
  BY <1>2 DEF Timer, TimerStart, TimerFill, TimerUnlink, TimerUnlinked, TimerWake, TimerRearm
<1>3. CASE UNCHANGED vars
  BY <1>3 DEF vars
<1> QED
  BY <1>1, <1>2, <1>3 DEF Next

(* After a fault the kernel makes no step.                                 *)
LEMMA FaultStops == [Next]_vars /\ fault => UNCHANGED vars
<1> SUFFICES ASSUME [Next]_vars, fault PROVE UNCHANGED vars
  OBVIOUS
<1> USE Zenon
<1>1. ASSUME NEW t \in Threads, Process(t) PROVE FALSE
  <2>1. CASE Open(t) \/ CloseTimer(t) \/ CloseQueue(t)
    BY <2>1 DEF Open, CloseTimer, CloseQueue, InUse
  <2>2. CASE \E b \in Structs : Mmap(t, b) \/ MmapFails(t, b) \/ Munmap(t, b) \/ Qbuf(t, b)
    BY <2>2 DEF Mmap, MmapFails, Munmap, Qbuf, Locked, InUse
  <2>3. CASE Poll(t) \/ PollStartsRead(t) \/ PollRead(t) \/ PollAgain(t) \/ PollTimeout(t)
    BY <2>3 DEF Poll, PollStartsRead, PollRead, PollAgain, PollTimeout, Locked, InUse
  <2>4. CASE ReqbufsNoMemory(t) \/ \E n \in 1 .. NBuf : Reqbufs(t, n)
    BY <2>4 DEF Reqbufs, ReqbufsNoMemory, Locked, InUse
  <2>5. CASE Streamon(t) \/ Streamoff(t)
    BY <2>5 DEF Streamon, Streamoff, Locked, InUse
  <2>6. CASE Dqbuf(t) \/ DqbufStopped(t) \/ DqbufWakes(t) \/ DqbufSignal(t)
    BY <2>6 DEF Dqbuf, DqbufStopped, DqbufWakes, DqbufSignal
  <2> QED
    BY <1>1, <2>1, <2>2, <2>3, <2>4, <2>5, <2>6 DEF Process
<1>2. ~Timer
  BY DEF Timer, TimerStart, TimerFill, TimerUnlink, TimerUnlinked, TimerWake, TimerRearm
<1> QED
  BY <1>1, <1>2 DEF Next

LEMMA UndisturbedNext ==
  ASSUME TypeOK, Undisturbed, [Next]_vars, ~disturbed'
  PROVE  (fault' => FilledUnbacked') /\ (~fault' => Undisturbed')
<1>1. ASSUME NEW t \in Threads, Process(t) PROVE Undisturbed'
  <2>1. ~ReqbufsNoMemory(t)
    BY DEF ReqbufsNoMemory
  <2> QED
    BY <1>1, <2>1, OpenStep, CloseTimerStep, CloseQueueStep, MmapStep, MunmapStep, QbufStep,
       PollStep, ReqbufsStep, StreamonStep, StreamoffStep, DqbufStep, DqbufEndStep,
       DqbufWakesStep
    DEF Process
<1>2. CASE Timer
  <2>1. CASE TimerFill
    BY <2>1, TimerFillStep
  <2>2. CASE ~TimerFill
    <3>1. Undisturbed'
      BY <1>2, <2>2, TimerStartStep, TimerUnlinkStep, TimerEndStep DEF Timer
    <3> QED
      BY <3>1 DEF Undisturbed
  <2> QED
    BY <2>1, <2>2
<1>3. Undisturbed' => ~fault'
  BY DEF Undisturbed
<1> QED
  BY <1>1, <1>2, <1>3, StutterStep DEF Next

(* The invariant is inductive.                                             *)
THEOREM Invariant == Spec => []IInv
<1>1. Init => IInv
  BY TypeInit, UndisturbedInit DEF IInv, NoFault, Undisturbed
<1>2. ASSUME IInv, [Next]_vars PROVE IInv'
  <2>1. TypeOK'
    BY <1>2, TypeNext DEF IInv
  <2>2. CASE fault
    <3>1. UNCHANGED vars
      BY <1>2, <2>2, FaultStops
    <3>2. NoFault' /\ fault'
      BY <1>2, <2>2, <3>1
      DEF IInv, NoFault, FilledUnbacked, vars, queueVars, timerVars
    <3> QED
      BY <2>1, <3>2 DEF IInv
  <2>3. CASE ~fault
    <3>1. CASE disturbed'
      BY <2>1, <3>1 DEF IInv, NoFault
    <3>2. CASE ~disturbed'
      <4>1. TypeOK /\ Undisturbed
        BY <1>2, <2>3, <3>2, DisturbedStays DEF IInv
      <4>2. (fault' => FilledUnbacked') /\ (~fault' => Undisturbed')
        BY <1>2, <3>2, <4>1, UndisturbedNext
      <4> QED
        BY <2>1, <4>2 DEF IInv, NoFault
    <3> QED
      BY <3>1, <3>2
  <2> QED
    BY <2>2, <2>3
<1> QED
  BY <1>1, <1>2, PTL DEF Spec

-----------------------------------------------------------------------------
(* What follows.                                                           *)

(* As long as the timer function and the calls have not met on a buffer or *)
(* on the local queue, they touch no freed buffer, add no timer twice and  *)
(* tear no list.  One fault is left to them: the timer function writes     *)
(* where no memory is, because QBUF took a buffer whose mmap had failed.   *)
THEOREM NoFaultCorrect == Spec => []NoFault
<1>1. IInv => NoFault
  BY DEF IInv
<1> QED
  BY <1>1, Invariant, PTL

(* The timer's list is what the stream has waiting, in its order: the      *)
(* timer fills the buffer DQBUF sleeps on.                                 *)
THEOREM QueuesAgreeCorrect == Spec => []QueuesAgree
<1>1. ASSUME IInv, ~disturbed, ~fault PROVE QueuesAgree
  <2> DEFINE Q == Having("QUEUED")  q == Kept(stream, Q)
  <2>1. TypeOK /\ Undisturbed
    BY <1>1 DEF IInv
  <2>2. Queued(stream) = q /\ Queued(local) = Kept(local, Q)
    BY DEF Queued, Having
  <2>3. q \in Seq(Structs) /\ Range(q) \subseteq Q /\ Kept(q, Q) = q
    <3>1. q \in Seq(Structs) /\ Range(q) = Range(stream) \cap Q
      BY <2>1, ListTypes, ListFacts
    <3> HIDE DEF q
    <3> QED
      BY <3>1, KeptAll
  <2>4. Kept(local, Q) = q
    <3>1. CASE tpc \in {"unlink", "unlinking"}
      <4> DEFINE one == <<tBuf>>
      <4>1. local = one \o q /\ tBuf \in Structs /\ tBuf \notin Q
        BY <2>1, <3>1, ListTypes DEF Undisturbed, TimerInv, Having
      <4>2. one \in Seq(Structs) /\ Range(one) \cap Q = {}
        BY <4>1 DEF Range
      <4>3. Kept(one, Q) = << >>
        BY <4>2, KeptNone
      <4> HIDE DEF one, q
      <4>4. Kept(one \o q, Q) = Kept(one, Q) \o Kept(q, Q)
        <5>1. one \in Seq(Structs) /\ q \in Seq(Structs)
          BY <2>3, <4>2
        <5> HIDE DEF Q
        <5> QED
          BY <5>1, KeptConcat
      <4>5. << >> \o q = q
        BY <2>3, ConcatEmptySeq
      <4> QED
        BY <2>3, <4>1, <4>3, <4>4, <4>5, Zenon
    <3>2. CASE tpc \notin {"unlink", "unlinking"}
      <4>1. local = q
        BY <2>1, <3>2 DEF Undisturbed, TimerInv
      <4> QED
        BY <2>3, <4>1
    <3> QED
      BY <3>1, <3>2
  <2>5. \A b \in Range(local) : vstate[b] = "QUEUED" \/ (Busy(b) /\ tpc # "fill")
    BY <2>1, ListFacts DEF Busy
  <2>6. \A b \in QueuedNow : b \in Range(stream)
    BY <2>1, ListTypes DEF QueuedNow, Undisturbed, StreamInv, SessionInv
  <2> QED
    BY <2>2, <2>4, <2>5, <2>6 DEF QueuesAgree
<1>2. IInv => QueuesAgree
  BY <1>1 DEF QueuesAgree
<1> QED
  BY <1>2, Invariant, PTL

-----------------------------------------------------------------------------
(* Refinement: each step, while nothing has been disturbed, is a step of   *)
(* CaptureQueue or none.                                                   *)

Calm == TypeOK /\ Undisturbed /\ ~disturbed

LEMMA CalmFacts ==
  ASSUME Calm
  PROVE  /\ stream \in Seq(Structs) /\ bufs \in Seq(Structs) /\ Len(bufs) \in 0 .. NBuf
         /\ IsInjective(bufs) /\ vstate \in [Structs -> States]
         /\ \A i \in 1 .. Len(bufs) : /\ bufs[i] \in QBufs /\ bufs[i] \in Structs
                                      /\ IndexOf(bufs[i], bufs) = i
         /\ \A b \in QBufs : /\ b \in Structs /\ IndexOf(b, bufs) \in 1 .. Len(bufs)
                             /\ bufs[IndexOf(b, bufs)] = b
         /\ InSession => IsInjective(stream) /\ Range(stream) \subseteq QBufs
<1>1. /\ stream \in Seq(Structs) /\ bufs \in Seq(Structs) /\ Len(bufs) \in 0 .. NBuf
      /\ IsInjective(bufs) /\ vstate \in [Structs -> States]
  BY Constants, TypeParts DEF Calm, ListType, PoolType, Undisturbed, PoolInv
<1>2. \A i \in 1 .. Len(bufs) : /\ bufs[i] \in QBufs /\ bufs[i] \in Structs
                                /\ IndexOf(bufs[i], bufs) = i
  BY <1>1, IndexOfInjective DEF QBufs
<1>3. \A b \in QBufs : /\ b \in Structs /\ IndexOf(b, bufs) \in 1 .. Len(bufs)
                       /\ bufs[IndexOf(b, bufs)] = b
  BY <1>1, IndexOfFacts, ListTypes DEF Calm, QBufs
<1>4. InSession => IsInjective(stream) /\ Range(stream) \subseteq QBufs
  BY DEF Calm, Undisturbed, StreamInv
<1> QED
  BY <1>1, <1>2, <1>3, <1>4

(* A list the stream keeps nothing of is empty.                            *)
LEMMA InStateEmpty ==
  ASSUME NEW S, NEW s \in Seq(Structs), NEW v, NEW r, \A b \in Range(s) : v[b] \notin S
  PROVE  Indices(Kept(s, {b \in Structs : v[b] \in S}), r) = << >>
<1>1. Range(s) \cap {b \in Structs : v[b] \in S} = {}
  OBVIOUS
<1>2. Kept(s, {b \in Structs : v[b] \in S}) = << >>
  BY <1>1, KeptNone
<1> QED
  BY <1>2, IndicesEmpty

LEMMA CaptureInit == Init => Capture!Init
<1> SUFFICES ASSUME Init PROVE Capture!Init
  OBVIOUS
<1>1. Held = {}
  BY DEF Init, Held
<1>2. Waiting = << >> /\ Filled = << >>
  BY KeptEmpty, IndicesEmpty DEF Init, Waiting, Filled, InState
<1>3. streaming = FALSE /\ (disturbed \/ fault) = FALSE
  BY DEF Init
<1> QED
  BY <1>1, <1>2, <1>3 DEF Capture!Init

LEMMA CaptureFrame ==
  ASSUME UNCHANGED <<bufs, vstate, stream, streaming>>
  PROVE  UNCHANGED <<Held, Waiting, Filled, streaming>>
  BY DEF Held, Waiting, Filled, InState

(* Every buffer of the queue is held, waits or is filled.                  *)
LEMMA AllBuffers ==
  ASSUME Calm, InSession
  PROVE  Held \cup Range(Waiting) \cup Range(Filled) = 1 .. Len(bufs)
<1> DEFINE W == {b \in Structs : vstate[b] \in {"PREPARED", "QUEUED"}}
           F == {b \in Structs : vstate[b] \in {"DONE"}}
<1>1. \A S : Range(Indices(Kept(stream, S), bufs)) = {IndexOf(e, bufs) : e \in Range(stream) \cap S}
  <2> TAKE S
  <2>1. Kept(stream, S) \in Seq(Structs) /\ Range(Kept(stream, S)) = Range(stream) \cap S
    BY CalmFacts, KeptType, KeptRange
  <2> QED
    BY <2>1, IndicesRange
<1>2. /\ Range(Waiting) = {IndexOf(e, bufs) : e \in Range(stream) \cap W}
      /\ Range(Filled) = {IndexOf(e, bufs) : e \in Range(stream) \cap F}
  BY <1>1 DEF Waiting, Filled, InState
<1>3. ASSUME NEW i \in 1 .. Len(bufs) PROVE i \in Held \cup Range(Waiting) \cup Range(Filled)
  <2> DEFINE b == bufs[i]
  <2>1. b \in QBufs /\ b \in Structs /\ IndexOf(b, bufs) = i
    BY CalmFacts
  <2>2. vstate[b] \in {"NEEDS_INIT", "IDLE", "PREPARED", "QUEUED", "DONE"}
    BY <2>1, CalmFacts DEF Calm, Undisturbed, PoolInv, States
  <2>3. vstate[b] \in {"PREPARED", "QUEUED", "DONE"} => b \in Range(stream)
    BY <2>1 DEF Calm, Undisturbed, StreamInv
  <2>4. CASE vstate[b] \in {"NEEDS_INIT", "IDLE"}
    BY <2>4 DEF Held
  <2>5. CASE vstate[b] \in {"PREPARED", "QUEUED"}
    BY <1>2, <2>1, <2>3, <2>5
  <2>6. CASE vstate[b] = "DONE"
    BY <1>2, <2>1, <2>3, <2>6
  <2> QED
    BY <2>2, <2>4, <2>5, <2>6
<1>4. Range(Waiting) \subseteq 1 .. Len(bufs) /\ Range(Filled) \subseteq 1 .. Len(bufs)
  BY <1>2, CalmFacts
<1> QED
  BY <1>3, <1>4 DEF Held

(* OPEN and REQBUFS: a queue of new buffers.                               *)
LEMMA OpenIsReset ==
  ASSUME Calm, Calm', NEW t \in Threads, Open(t)
  PROVE  Held' = 1 .. 0 /\ Waiting' = << >> /\ Filled' = << >> /\ streaming' = FALSE
<1>1. bufs' = << >> /\ stream' = << >> /\ streaming' = FALSE
  BY DEF Open
<1> QED
  BY <1>1, KeptEmpty, IndicesEmpty DEF Held, Waiting, Filled, InState

LEMMA ReqbufsIsReset ==
  ASSUME Calm, Calm', NEW t \in Threads, NEW n \in 1 .. NBuf, Reqbufs(t, n)
  PROVE  Held' = 1 .. n /\ Waiting' = << >> /\ Filled' = << >> /\ streaming' = streaming
<1>1. stream' = << >> /\ streaming' = streaming
  BY DEF Reqbufs
<1>2. "NEEDS_INIT" \in States
  BY DEF States
<1>3. Len(bufs') = n /\ \A b \in Range(bufs') : vstate'[b] = "NEEDS_INIT"
  BY <1>2, AllocateFacts DEF Reqbufs, Calm
<1>4. Held' = 1 .. n
  BY <1>3 DEF Held, Range
<1> QED
  BY <1>1, <1>4, KeptEmpty, IndicesEmpty DEF Waiting, Filled, InState

(* STREAMOFF, munmap or close: all buffers are held again.                 *)
LEMMA ReleasedIsCancel ==
  ASSUME Calm, Calm', InSession, bufs' = bufs, stream' = << >>, vstate' = Released
  PROVE  /\ Held' = Held \cup Range(Waiting) \cup Range(Filled)
         /\ Waiting' = << >> /\ Filled' = << >>
<1>1. \A i \in 1 .. Len(bufs) : vstate'[bufs[i]] = "NEEDS_INIT"
  BY CalmFacts DEF Released
<1>2. Held' = 1 .. Len(bufs)
  BY <1>1 DEF Held
<1> QED
  BY <1>2, AllBuffers, KeptEmpty, IndicesEmpty DEF Waiting, Filled, InState

LEMMA CloseQueueIsResetOrCancel ==
  ASSUME Calm, Calm', NEW t \in Threads, CloseQueue(t)
  PROVE  /\ streaming' = FALSE
         /\ \/ Held' = 1 .. 0 /\ Waiting' = << >> /\ Filled' = << >>
            \/ /\ Held' = Held \cup Range(Waiting) \cup Range(Filled)
               /\ Waiting' = << >> /\ Filled' = << >>
            \/ UNCHANGED <<Held, Waiting, Filled, streaming>>
<1>1. InSession /\ ~reading
  BY CloseQueueStep DEF Calm, Undisturbed, SessionInv
<1>2. streaming' = FALSE /\ (stream' = stream \/ stream' = << >>)
  BY DEF CloseQueue
<1>3. CASE CanFree
  <2>1. vstate' = Freed(QBufs) /\ bufs' = << >>
    BY <1>1, <1>3 DEF CloseQueue
  <2>2. Held' = 1 .. 0
    BY <2>1 DEF Held
  <2>3. \A b \in Range(stream') : vstate'[b] = "FREE"
    BY <1>1, <1>2, <2>1, CalmFacts DEF Freed, Range
  <2>4. stream' \in Seq(Structs)
    BY DEF Calm, TypeOK
  <2>5. Waiting' = << >> /\ Filled' = << >>
    BY <2>3, <2>4, InStateEmpty DEF Waiting, Filled, InState
  <2> QED
    BY <1>2, <2>2, <2>5
<1>4. CASE ~CanFree /\ streaming
  <2>1. vstate' = Released /\ bufs' = bufs /\ stream' = << >>
    BY <1>1, <1>4 DEF CloseQueue
  <2> QED
    BY <1>1, <1>2, <2>1, ReleasedIsCancel
<1>5. CASE ~CanFree /\ ~streaming
  <2>1. UNCHANGED <<bufs, vstate, stream>>
    BY <1>1, <1>5 DEF CloseQueue
  <2>2. streaming' = streaming
    BY <1>2, <1>5, TypeParts DEF Calm, FlagType
  <2> QED
    BY <1>2, <2>1, <2>2, CaptureFrame
<1> QED
  BY <1>3, <1>4, <1>5

(* QBUF: behind the others that wait.                                      *)
LEMMA QbufIsQueue ==
  ASSUME Calm, Calm', NEW t \in Threads, NEW b \in Structs, Qbuf(t, b)
  PROVE  /\ IndexOf(b, bufs) \in 1 .. NBuf /\ IndexOf(b, bufs) \in Held
         /\ Held' = Held \ {IndexOf(b, bufs)} /\ Waiting' = Append(Waiting, IndexOf(b, bufs))
         /\ Filled' = Filled /\ streaming' = streaming
<1> DEFINE i == IndexOf(b, bufs)
           W == {c \in Structs : vstate[c] \in {"PREPARED", "QUEUED"}}
           F == {c \in Structs : vstate[c] \in {"DONE"}}
<1>1. /\ b \in QBufs /\ vstate[b] \in {"NEEDS_INIT", "IDLE"} /\ InSession
      /\ vstate' = [vstate EXCEPT ![b] = IF streaming THEN "QUEUED" ELSE "PREPARED"]
      /\ stream' = Append(stream, b) /\ bufs' = bufs /\ streaming' = streaming
  BY DEF Qbuf, Locked, InUse, InSession
<1>2. /\ i \in 1 .. Len(bufs) /\ bufs[i] = b /\ Len(bufs) \in 0 .. NBuf
      /\ \A j \in 1 .. Len(bufs) : bufs[j] = b => j = i
  BY <1>1, CalmFacts
<1>3. i \in 1 .. NBuf /\ i \in Held
  BY <1>1, <1>2, Constants DEF Held
<1>4. vstate'[b] \in {"PREPARED", "QUEUED"} /\ \A c \in Structs \ {b} : vstate'[c] = vstate[c]
  BY <1>1, CalmFacts
<1>5. Held' = Held \ {i}
  <2>1. \A j \in 1 .. Len(bufs) : bufs[j] \in Structs
    BY CalmFacts
  <2> QED
    BY <1>1, <1>2, <1>4, <2>1 DEF Held
<1>6. stream \in Seq(Structs) /\ b \notin Range(stream)
  BY <1>1, CalmFacts DEF Calm, Undisturbed, StreamInv
<1>7. \A c \in Range(stream) : vstate'[c] = vstate[c]
  BY <1>4, <1>6, ListTypes DEF Calm
<1>8. /\ Kept(stream, W') = Kept(stream, W) /\ Kept(stream, F') = Kept(stream, F)
  <2>1. \A c \in Range(stream) : (c \in W' <=> c \in W) /\ (c \in F' <=> c \in F)
    BY <1>7
  <2> HIDE DEF W, F
  <2> QED
    BY <1>6, <2>1, KeptAlike
<1>9. b \in W' /\ b \notin F'
  BY <1>4
<1>10. /\ Kept(Append(stream, b), W') = Append(Kept(stream, W), b)
       /\ Kept(Append(stream, b), F') = Kept(stream, F)
  <2> HIDE DEF W, F
  <2> QED
    BY <1>6, <1>8, <1>9, KeptAppend
<1>11. Waiting' = Append(Waiting, i)
  <2>1. Kept(stream, W) \in Seq(Structs)
    BY <1>6, KeptType
  <2>2. Waiting' = Indices(Append(Kept(stream, W), b), bufs)
    BY <1>1, <1>10 DEF Waiting, InState
  <2>3. Indices(Append(Kept(stream, W), b), bufs) = Append(Indices(Kept(stream, W), bufs), i)
    <3> HIDE DEF W
    <3> QED
      BY <2>1, IndicesAppend
  <2> QED
    BY <2>2, <2>3 DEF Waiting, InState
<1>12. Filled' = Filled
  BY <1>1, <1>10 DEF Filled, InState
<1> QED
  BY <1>1, <1>3, <1>5, <1>11, <1>12

(* STREAMON: what waits, waits.                                            *)
LEMMA StreamonIsSwitch ==
  ASSUME Calm, Calm', NEW t \in Threads, Streamon(t)
  PROVE  UNCHANGED <<Held, Waiting, Filled>> /\ streaming' = TRUE
<1> DEFINE W == {c \in Structs : vstate[c] \in {"PREPARED", "QUEUED"}}
           F == {c \in Structs : vstate[c] \in {"DONE"}}
<1>1. /\ streaming' = TRUE /\ stream' = stream /\ bufs' = bufs
  BY DEF Streamon
<1>2. /\ InSession /\ ~streaming
      /\ vstate' = [c \in Structs |-> IF c \in Range(stream) THEN "QUEUED" ELSE vstate[c]]
  BY StreamonFacts DEF Calm
<1>3. \A c \in Range(stream) : c \in Structs /\ vstate[c] = "PREPARED" /\ vstate'[c] = "QUEUED"
  BY <1>2, ListTypes DEF Calm, Undisturbed, StreamInv
<1>4. Kept(stream, W') = Kept(stream, W) /\ Kept(stream, F') = Kept(stream, F)
  <2>1. stream \in Seq(Structs)
    BY CalmFacts
  <2>2. \A c \in Range(stream) : (c \in W' <=> c \in W) /\ (c \in F' <=> c \in F)
    BY <1>3
  <2> HIDE DEF W, F
  <2> QED
    BY <2>1, <2>2, KeptAlike
<1>5. Held' = Held
  <2>1. \A j \in 1 .. Len(bufs) : bufs[j] \in Structs
    BY CalmFacts
  <2> QED
    BY <1>1, <1>2, <1>3, <2>1 DEF Held
<1> QED
  BY <1>1, <1>4, <1>5 DEF Waiting, Filled, InState

(* DQBUF that returns a frame: the first that is filled.                   *)
LEMMA TakeOutIsDequeue ==
  ASSUME Calm, Calm', NEW t \in Threads, NEW b, TakeOut(t, b),
         opens > 0, streaming, stream # << >>, b = Head(stream), vstate[b] # "QUEUED",
         \A u \in Threads \ {t} : ~InDqbuf(u)
  PROVE  /\ Filled # << >> /\ Held' = Held \cup {Head(Filled)} /\ Filled' = Tail(Filled)
         /\ Waiting' = Waiting /\ streaming' = streaming
<1> DEFINE i == IndexOf(b, bufs)
           W == {c \in Structs : vstate[c] \in {"PREPARED", "QUEUED"}}
           F == {c \in Structs : vstate[c] \in {"DONE"}}
<1>1. /\ vstate[b] = "DONE" /\ b \in QBufs
      /\ vstate' = [vstate EXCEPT ![b] = "IDLE"] /\ stream' = Tail(stream)
      /\ bufs' = bufs /\ streaming' = streaming
  BY TakeOutStep DEF Calm, TakeOut
<1>2. /\ i \in 1 .. Len(bufs) /\ bufs[i] = b /\ b \in Structs
      /\ \A j \in 1 .. Len(bufs) : bufs[j] \in Structs /\ (bufs[j] = b => j = i)
  BY <1>1, CalmFacts
<1>3. vstate'[b] = "IDLE" /\ \A c \in Structs \ {b} : vstate'[c] = vstate[c]
  BY <1>1, <1>2, CalmFacts
<1>4. Held' = Held \cup {i}
  BY <1>1, <1>2, <1>3 DEF Held
<1>5. stream \in Seq(Structs) /\ IsInjective(stream) /\ Tail(stream) \in Seq(Structs)
  BY CalmFacts, HeadTailProperties DEF InSession
<1>6. \A c \in Range(Tail(stream)) : c \in Structs \ {b}
  <2>1. b \notin Range(Tail(stream))
    BY <1>5, TailOfInjective
  <2> QED
    BY <1>5, <2>1 DEF Range
<1>7. /\ Kept(Tail(stream), W') = Kept(Tail(stream), W)
      /\ Kept(Tail(stream), F') = Kept(Tail(stream), F)
  <2>1. \A c \in Range(Tail(stream)) : (c \in W' <=> c \in W) /\ (c \in F' <=> c \in F)
    BY <1>3, <1>6
  <2>2. Tail(stream) \in Seq(Structs)
    BY <1>5
  <2> HIDE DEF W, F
  <2> QED
    BY <2>1, <2>2, KeptAlike
<1>8. b \notin W /\ b \in F
  BY <1>1, <1>2
<1>9. /\ Kept(stream, W) = Kept(Tail(stream), W)
      /\ Kept(stream, F) # << >> /\ Head(Kept(stream, F)) = b
      /\ Tail(Kept(stream, F)) = Kept(Tail(stream), F) /\ Kept(stream, F) \in Seq(Structs)
  <2> HIDE DEF W, F
  <2> QED
    BY <1>5, <1>8, KeptHead, KeptType
<1>10. Waiting' = Waiting
  BY <1>1, <1>7, <1>9 DEF Waiting, InState
<1>11. Filled # << >> /\ Head(Filled) = i /\ Filled' = Tail(Filled)
  <2> DEFINE f == Kept(stream, F)
  <2>1. Filled = Indices(f, bufs) /\ Filled' = Indices(Tail(f), bufs)
    BY <1>1, <1>7, <1>9 DEF Filled, InState
  <2>2. f \in Seq(Structs) /\ f # << >> /\ Head(f) = b
    BY <1>9
  <2> HIDE DEF f
  <2> QED
    BY <2>1, <2>2, IndicesTail
<1> QED
  BY <1>1, <1>4, <1>10, <1>11

(* The timer function fills the first that waits.                          *)
LEMMA TimerFillIsFill ==
  ASSUME Calm, Calm', TimerFill
  PROVE  /\ streaming /\ Waiting # << >>
         /\ Waiting' = Tail(Waiting) /\ Filled' = Append(Filled, Head(Waiting))
         /\ UNCHANGED <<Held, streaming>>
<1> DEFINE D == Having("DONE")  Q == Having("QUEUED")
           W == {c \in Structs : vstate[c] \in {"PREPARED", "QUEUED"}}
           F == {c \in Structs : vstate[c] \in {"DONE"}}
           q == Kept(stream, Q)  d == Kept(stream, D)
<1>1. /\ tpc = "fill" /\ stream' = stream /\ bufs' = bufs /\ streaming' = streaming
      /\ vstate' = [vstate EXCEPT ![tBuf] = "DONE"]
  BY TimerFillStep DEF Calm, TimerFill
<1>2. /\ tBuf \in Structs /\ tBuf \in QBufs /\ vstate[tBuf] = "QUEUED" /\ streaming /\ InSession
      /\ q \in Seq(Structs) /\ q # << >> /\ tBuf = Head(q) /\ TwoParts(stream, D, Q)
  BY <1>1, FillFacts DEF Calm
<1>3. vstate'[tBuf] = "DONE" /\ \A c \in Structs \ {tBuf} : vstate'[c] = vstate[c]
  BY <1>1, <1>2, CalmFacts
<1>4. \A c \in Range(stream) : c \in Structs /\ vstate[c] \in {"QUEUED", "DONE"}
  BY <1>2, ListTypes DEF Calm, Undisturbed, StreamInv
<1>5. Kept(stream, W) = q /\ Kept(stream, F) = d
  <2>1. stream \in Seq(Structs) /\ \A c \in Range(stream) : (c \in W <=> c \in Q) /\ (c \in F <=> c \in D)
    BY <1>4, CalmFacts DEF Having
  <2> HIDE DEF W, F, Q, D
  <2> QED
    BY <2>1, KeptAlike
<1>6. Kept(stream, W') = Kept(stream, Q \ {tBuf}) /\ Kept(stream, F') = Kept(stream, D \cup {tBuf})
  <2>1. stream \in Seq(Structs)
    BY CalmFacts
  <2>2. \A c \in Range(stream) : (c \in W' <=> c \in Q \ {tBuf}) /\ (c \in F' <=> c \in D \cup {tBuf})
    BY <1>2, <1>3, <1>4 DEF Having
  <2> HIDE DEF W, F, Q, D
  <2> QED
    BY <2>1, <2>2, KeptAlike
<1>7. Kept(stream, D \cup {tBuf}) = Append(d, tBuf) /\ Kept(stream, Q \ {tBuf}) = Tail(q)
  BY <1>1, FillMoves DEF Calm
<1>8. d \in Seq(Structs)
  BY CalmFacts, KeptType
<1>9. /\ Waiting = Indices(q, bufs) /\ Filled = Indices(d, bufs)
      /\ Waiting' = Indices(Tail(q), bufs) /\ Filled' = Indices(Append(d, tBuf), bufs)
  BY <1>1, <1>5, <1>6, <1>7 DEF Waiting, Filled, InState
<1>10. Held' = Held
  <2>1. \A j \in 1 .. Len(bufs) : bufs[j] \in Structs
    BY CalmFacts
  <2> QED
    BY <1>1, <1>2, <1>3, <2>1 DEF Held
<1> HIDE DEF q, d
<1>11. Waiting # << >> /\ Head(Waiting) = IndexOf(tBuf, bufs) /\ Waiting' = Tail(Waiting)
  BY <1>2, <1>9, IndicesTail
<1>12. Filled' = Append(Filled, Head(Waiting))
  BY <1>2, <1>8, <1>9, <1>11, IndicesAppend
<1> QED
  BY <1>1, <1>2, <1>10, <1>11, <1>12

(* What changes neither the buffers nor the stream is no step of it.       *)
LEMMA CaptureStutter ==
  ASSUME Calm, Calm', UNCHANGED <<bufs, vstate, stream, streaming>>
  PROVE  UNCHANGED Capture!cvars
<1>1. UNCHANGED <<Held, Waiting, Filled, streaming>>
  BY CaptureFrame
<1>2. (disturbed \/ fault)' = (disturbed \/ fault)
  BY DEF Calm, Undisturbed
<1> QED
  BY <1>1, <1>2 DEF Capture!cvars

LEMMA CaptureProcess ==
  ASSUME Calm, Calm', NEW t \in Threads, Process(t)
  PROVE  [Capture!Next]_(Capture!cvars)
<1>1. ~(disturbed \/ fault) /\ (disturbed \/ fault)' = (disturbed \/ fault)
  BY DEF Calm, Undisturbed
<1>2. 0 \in 0 .. NBuf /\ \A n \in 1 .. NBuf : n \in 0 .. NBuf
  BY Constants
<1>3. streaming \in BOOLEAN /\ streaming' \in BOOLEAN
  BY TypeParts DEF Calm, FlagType, TypeOK
<1>4. ASSUME UNCHANGED <<bufs, vstate, stream, streaming>> PROVE UNCHANGED Capture!cvars
  BY <1>4, CaptureStutter
<1>5. ASSUME Capture!Cancel PROVE Capture!Next
  BY <1>1, <1>5 DEF Capture!Next
<1>6. ASSUME NEW n \in 0 .. NBuf, Capture!Reset(n) PROVE Capture!Next
  BY <1>1, <1>6 DEF Capture!Next
<1>7. ASSUME NEW b, TakeOut(t, b), opens > 0, streaming, stream # << >>, b = Head(stream),
             vstate[b] # "QUEUED", \A u \in Threads \ {t} : ~InDqbuf(u)
      PROVE  Capture!Next
  <2>1. Capture!Dequeue
    BY <1>1, <1>7, TakeOutIsDequeue DEF Capture!Dequeue
  <2> QED
    BY <1>1, <2>1 DEF Capture!Next
<1>8. CASE Open(t)
  <2>1. Capture!Reset(0)
    BY <1>1, <1>8, OpenIsReset DEF Capture!Reset
  <2> QED
    BY <1>2, <1>6, <2>1
<1>9. CASE CloseTimer(t)
  BY <1>4, <1>9 DEF CloseTimer, queueVars
<1>10. CASE CloseQueue(t)
  <2>1. streaming' = FALSE
    BY <1>10, CloseQueueIsResetOrCancel
  <2>2. CASE Held' = 1 .. 0 /\ Waiting' = << >> /\ Filled' = << >>
    <3>1. Capture!Reset(0)
      BY <1>1, <2>1, <2>2 DEF Capture!Reset
    <3> QED
      BY <1>2, <1>6, <3>1
  <2>3. CASE /\ Held' = Held \cup Range(Waiting) \cup Range(Filled)
             /\ Waiting' = << >> /\ Filled' = << >>
    <3>1. Capture!Cancel
      BY <1>1, <2>1, <2>3 DEF Capture!Cancel, Capture!Range, Range
    <3> QED
      BY <1>5, <3>1
  <2>4. CASE UNCHANGED <<Held, Waiting, Filled, streaming>>
    BY <1>1, <2>4 DEF Capture!cvars
  <2> QED
    BY <1>10, <2>2, <2>3, <2>4, CloseQueueIsResetOrCancel
<1>11. ASSUME NEW b \in Structs, Mmap(t, b) \/ MmapFails(t, b) PROVE UNCHANGED Capture!cvars
  BY <1>4, <1>11 DEF Mmap, MmapFails
<1>12. ASSUME streaming, opens > 0, Cancel, bufs' = bufs PROVE Capture!Next
  <2>1. InSession /\ stream' = << >> /\ vstate' = Released /\ streaming' = FALSE
    BY <1>12 DEF Cancel, InSession
  <2>2. Capture!Cancel
    BY <1>1, <1>12, <2>1, ReleasedIsCancel DEF Capture!Cancel, Capture!Range, Range
  <2> QED
    BY <1>5, <2>2
<1>13. ASSUME NEW b \in Structs, Munmap(t, b) PROVE [Capture!Next]_(Capture!cvars)
  <2>1. CASE streaming
    BY <1>12, <1>13, <2>1 DEF Munmap, Locked, InUse
  <2>2. CASE ~streaming
    BY <1>4, <1>13, <2>2 DEF Munmap
  <2> QED
    BY <2>1, <2>2
<1>14. ASSUME NEW b \in Structs, Qbuf(t, b) PROVE Capture!Next
  <2>1. Capture!Queue(IndexOf(b, bufs)) /\ IndexOf(b, bufs) \in 1 .. NBuf
    BY <1>1, <1>14, QbufIsQueue DEF Capture!Queue
  <2> QED
    BY <1>1, <2>1 DEF Capture!Next
<1>15. CASE Poll(t) \/ PollStartsRead(t) \/ PollRead(t) \/ PollAgain(t) \/ PollTimeout(t)
  <2>1. UNCHANGED queueVars
    BY <1>15, PollStep DEF Calm
  <2> QED
    BY <1>4, <2>1 DEF queueVars
<1>16. ASSUME NEW n \in 1 .. NBuf, Reqbufs(t, n) PROVE Capture!Next
  <2>1. Capture!Reset(n)
    BY <1>1, <1>16, ReqbufsIsReset DEF Capture!Reset
  <2> QED
    BY <1>2, <1>6, <2>1
<1>22. CASE ReqbufsNoMemory(t)
  BY <1>22 DEF ReqbufsNoMemory, Calm
<1>17. CASE Streamon(t)
  <2>1. Capture!Switch
    BY <1>1, <1>17, StreamonIsSwitch DEF Capture!Switch
  <2> QED
    BY <1>1, <2>1 DEF Capture!Next
<1>18. CASE Streamoff(t)
  BY <1>12, <1>18 DEF Streamoff, Locked, InUse
<1>19. CASE Dqbuf(t)
  <2>1. CASE stream # << >> /\ vstate[Head(stream)] # "QUEUED"
    <3>1. \A u \in Threads \ {t} : ~InDqbuf(u)
      BY <1>19, NobodyInDqbuf DEF Dqbuf, Calm
    <3> QED
      BY <1>7, <1>19, <2>1, <3>1 DEF Dqbuf
  <2>2. CASE ~(stream # << >> /\ vstate[Head(stream)] # "QUEUED")
    BY <1>4, <1>19, <2>2 DEF Dqbuf, queueVars
  <2> QED
    BY <2>1, <2>2
<1>20. CASE DqbufWakes(t)
  <2>1. /\ pc[t] = "buf_woken" /\ opens > 0 /\ streaming /\ stream # << >>
        /\ target[t] = Head(stream) /\ \A u \in Threads \ {t} : ~InDqbuf(u)
    BY <1>20, WokenFacts DEF DqbufWakes, Calm
  <2>2. CASE vstate[target[t]] # "QUEUED"
    BY <1>7, <1>20, <2>1, <2>2 DEF DqbufWakes
  <2>3. CASE vstate[target[t]] = "QUEUED"
    BY <1>4, <1>20, <2>3 DEF DqbufWakes, queueVars
  <2> QED
    BY <2>2, <2>3
<1>21. CASE DqbufStopped(t) \/ DqbufSignal(t)
  BY <1>4, <1>21 DEF DqbufStopped, DqbufSignal, queueVars
<1> QED
  BY <1>8, <1>9, <1>10, <1>11, <1>13, <1>14, <1>15, <1>16, <1>17, <1>18, <1>19, <1>20, <1>21, <1>22
  DEF Process

LEMMA CaptureTimer ==
  ASSUME Calm, Calm', Timer
  PROVE  [Capture!Next]_(Capture!cvars)
<1>1. ~(disturbed \/ fault) /\ (disturbed \/ fault)' = (disturbed \/ fault)
  BY DEF Calm, Undisturbed
<1>2. CASE TimerFill
  <2>1. Capture!Fill
    BY <1>1, <1>2, TimerFillIsFill DEF Capture!Fill
  <2> QED
    BY <1>1, <2>1 DEF Capture!Next
<1>3. CASE ~TimerFill
  <2>1. UNCHANGED queueVars
    BY <1>3 DEF Timer, TimerStart, TimerUnlink, TimerUnlinked, TimerWake, TimerRearm
  <2> QED
    BY <2>1, CaptureStutter DEF queueVars
<1> QED
  BY <1>2, <1>3

LEMMA CaptureNext ==
  ASSUME IInv, IInv', [Next]_vars
  PROVE  [Capture!Next]_(Capture!cvars)
<1>1. CASE disturbed' \/ fault'
  <2>1. (disturbed \/ fault)' = TRUE
    BY <1>1
  <2> QED
    BY <2>1 DEF Capture!Next, Capture!Break
<1>2. CASE ~disturbed' /\ ~fault'
  <2>0. ~disturbed /\ ~fault
    BY <1>2, DisturbedStays, FaultStops DEF vars
  <2>1. Calm /\ Calm'
    BY <1>2, <2>0 DEF IInv, Calm
  <2>2. CASE UNCHANGED vars
    BY <2>1, <2>2, CaptureStutter DEF vars, queueVars
  <2> QED
    BY <2>1, <2>2, CaptureProcess, CaptureTimer DEF Next
<1> QED
  BY <1>1, <1>2

(* The virtual driver, with its timer function and any number of threads,  *)
(* fills the buffers in the order they were queued and only while it       *)
(* streams, and DQBUF hands them out in that order.                        *)
THEOREM Refinement == Spec => ImplementsCapture
<1>1. IInv /\ IInv' /\ [Next]_vars => [Capture!Next]_(Capture!cvars)
  BY CaptureNext
<1> QED
  BY <1>1, CaptureInit, Invariant, PTL DEF Spec, ImplementsCapture, Capture!Spec

=============================================================================
