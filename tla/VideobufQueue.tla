--------------------------- MODULE VideobufQueue ----------------------------
(***************************************************************************)
(* The virtual driver (src/myvivi/7th/myvivi.c) on the videobuf core it is *)
(* built on (src/video/videobuf-core.c, videobuf-vmalloc.c).               *)
(*                                                                         *)
(* Every videobuf call holds vb_lock from end to end, a blocking DQBUF     *)
(* even while it sleeps on a buffer: calls are atomic but for that sleep.  *)
(* The timer function takes neither vb_lock nor the queue's irqlock and    *)
(* runs on any CPU: its steps interleave with the calls.                   *)
(***************************************************************************)
EXTENDS Integers, Sequences, FiniteSets, Functions, Lists

CONSTANTS Threads,     \* threads of the application
          NBuf,        \* most buffers of a queue (VIDEO_MAX_FRAME)
          Pool,        \* videobuf_buffer structures kmalloc has to give
          MaxOpens,    \* files open at once
          Signals      \* sleeps may be interrupted

Structs == 1 .. Pool
Nil     == 0

ASSUME ConstantsAssumption ==
  /\ NBuf \in Nat \ {0, 1} /\ Pool \in Nat /\ NBuf <= Pool
  /\ MaxOpens \in Nat \ {0} /\ Signals \in BOOLEAN
  /\ Nil \notin Threads

VARIABLES
  opens,               \* open files
  pending,             \* myvivi_timer is on the timer wheel
  tpc, tBuf,           \* the timer function and its vb
  bufs,                \* q->bufs
  vstate,              \* state of each structure; "FREE" when it is not allocated
  mapped,              \* buffers whose map (and baddr) is set
  backed,              \* buffers whose mem->vmalloc is memory: neither NULL nor freed
  vma,                 \* buffers that really are in the application's memory
  stream,              \* q->stream
  streaming, reading, readBuf,
  local,               \* myvivi_vb_local_queue
  holder,              \* the thread that sleeps with vb_lock held
  pc, target,          \* where each thread sleeps, and on the "done" of which buffer
  fault,               \* BUG_ON, NULL, freed or poisoned memory, or a list in pieces
  disturbed            \* history: something below overlapped the timer function,
                       \* kzalloc failed, or the application opened twice, polled
                       \* before STREAMON or started a buffer it had unmapped

queueVars == <<bufs, vstate, mapped, backed, vma, stream, streaming, reading, readBuf>>
timerVars == <<pending, tpc, tBuf>>
sleepVars == <<holder, pc, target>>
vars      == <<queueVars, timerVars, sleepVars, opens, local, fault, disturbed>>

Init ==
  /\ opens = 0 /\ pending = FALSE /\ tpc = "idle" /\ tBuf = Nil
  /\ bufs = << >> /\ vstate = [b \in Structs |-> "FREE"] /\ mapped = {} /\ backed = {} /\ vma = {}
  /\ stream = << >> /\ streaming = FALSE /\ reading = FALSE /\ readBuf = Nil
  /\ local = << >>
  /\ holder = Nil /\ pc = [t \in Threads |-> "run"] /\ target = [t \in Threads |-> Nil]
  /\ fault = FALSE /\ disturbed = FALSE

InUse(t)  == ~fault /\ opens > 0 /\ pc[t] = "run"
Locked(t) == InUse(t) /\ holder = Nil            \* mutex_lock(&q->vb_lock)

QBufs == Range(bufs)

(* The timer function holds a reference to b.                              *)
Busy(b) == tpc \in {"fill", "unlink", "unlinking", "wake"} /\ tBuf = b

(* Another CPU is between the reads and the writes of its list_del: what   *)
(* an update of the local queue leaves behind is not a list.               *)
TornList == tpc = "unlinking"

-----------------------------------------------------------------------------
(* Parts of the videobuf calls.                                            *)

(* videobuf_queue_cancel: queued buffers leave the local queue and become  *)
(* ERROR, their sleepers are woken, then every buffer is released.         *)
QueuedNow == {b \in QBufs : vstate[b] = "QUEUED"}

(* Mutant: buf_release is not called. *)
ReleasedNot == [b \in Structs |-> IF b \in QueuedNow THEN "ERROR" ELSE vstate[b]]

Released == [b \in Structs |-> IF b \in QBufs THEN "NEEDS_INIT" ELSE vstate[b]]

(* wake_up on the "done" of the buffers of S.                              *)
Woken(S) == [t \in Threads |->
               IF target[t] \notin S THEN pc[t]
               ELSE CASE pc[t] = "polling"  -> "poll_woken"
                      [] pc[t] = "wait_buf" -> "buf_woken"
                      [] OTHER              -> pc[t]]

CancelDisturbs == \E b \in QBufs : Busy(b)

CancelFaults == TornList /\ QueuedNow # {}

Cancel ==
  /\ streaming' = FALSE /\ reading' = FALSE
  /\ vstate' = Released
  /\ local' = Kept(local, Structs \ QueuedNow)
  /\ stream' = << >>
  /\ pc' = Woken(QueuedNow)
  /\ disturbed' = (disturbed \/ CancelDisturbs)

(* __videobuf_mmap_free refuses while a buffer is mapped; the structures   *)
(* go back to kmalloc, whoever still has one.                              *)
CanFree == mapped \cap QBufs = {}

FreeDisturbs == \/ \E b \in QBufs : Busy(b)
                \/ \E t \in Threads : pc[t] \in {"polling", "poll_woken"} /\ target[t] \in QBufs

Freed(S) == [b \in Structs |-> IF b \in S THEN "FREE" ELSE vstate[b]]

(* n structures of those that are free, once the queue has given its own   *)
(* back, in state s; kzalloc clears them: no map and no memory yet.        *)
Allocate(n, s) ==
  /\ bufs' \in {new \in [1 .. n -> {b \in Structs : Freed(QBufs)[b] = "FREE"}] : IsInjective(new)}
  /\ vstate' = [b \in Structs |-> IF b \in Range(bufs') THEN s ELSE Freed(QBufs)[b]]
  /\ mapped' = mapped \ Range(bufs') /\ backed' = backed \ Range(bufs')

-----------------------------------------------------------------------------
(* File operations.                                                        *)

(* myvivi_open: the queue is set up anew, whoever uses it, and the timer   *)
(* is added, which must not be pending.                                    *)
Open(t) ==
  /\ ~fault /\ pc[t] = "run" /\ opens < MaxOpens
  /\ opens' = opens + 1
  /\ bufs' = << >> /\ stream' = << >> /\ streaming' = FALSE /\ reading' = FALSE
  /\ readBuf' = Nil /\ holder' = Nil
  /\ fault' = pending /\ pending' = TRUE
  /\ disturbed' = (disturbed \/ opens > 0 \/ \E u \in Threads : pc[u] = "closing")
  /\ UNCHANGED <<vstate, mapped, backed, vma, tpc, tBuf, local, pc, target>>

(* myvivi_close of the last file, or of one of two: del_timer does not     *)
(* wait for a timer function that runs.                                    *)
CloseTimer(t) ==
  /\ InUse(t) /\ vma = {}
  /\ opens = 1 => \A u \in Threads : pc[u] = "run"
  /\ opens' = opens - 1 /\ pending' = FALSE /\ pc' = [pc EXCEPT ![t] = "closing"]
  /\ disturbed' = (disturbed \/ tpc # "idle")
  /\ UNCHANGED <<queueVars, tpc, tBuf, local, holder, target, fault>>

(* ... then videobuf_stop and videobuf_mmap_free.                          *)
CloseQueue(t) ==
  /\ ~fault /\ pc[t] = "closing" /\ holder = Nil
  /\ streaming' = FALSE /\ reading' = FALSE
  /\ LET stops == streaming \/ reading
         frees == reading \/ CanFree IN
     /\ vstate' = IF frees THEN Freed(QBufs) ELSE IF stops THEN Released ELSE vstate
     /\ bufs' = IF frees THEN << >> ELSE bufs
     /\ readBuf' = IF reading THEN Nil ELSE readBuf
     /\ stream' = IF stops THEN << >> ELSE stream
     /\ local' = IF stops THEN Kept(local, Structs \ QueuedNow) ELSE local
     /\ pc' = [IF stops THEN Woken(QueuedNow) ELSE pc EXCEPT ![t] = "run"]
     /\ fault' = (stops /\ CancelFaults)
     /\ disturbed' = (disturbed \/ CancelDisturbs \/ (frees /\ FreeDisturbs))
  /\ UNCHANGED <<mapped, backed, vma, timerVars, opens, holder, target>>

(* videobuf_mmap_mapper; a buffer that is mapped is not mapped again.      *)
Mmap(t, b) ==
  /\ Locked(t) /\ b \in QBufs \ vma /\ ~reading
  /\ mapped' = mapped \cup {b} /\ backed' = backed \cup {b} /\ vma' = vma \cup {b}
  /\ UNCHANGED <<bufs, vstate, stream, streaming, reading, readBuf, timerVars, sleepVars,
                 opens, local, fault, disturbed>>

(* vmalloc_user finds no memory, or remap_vmalloc_range fails and the      *)
(* memory is freed: map and baddr stay in the buffer, and QBUF takes it.   *)
MmapFails(t, b) ==
  /\ Locked(t) /\ b \in QBufs \ vma /\ ~reading
  /\ mapped' = mapped \cup {b} /\ backed' = backed \ {b}
  /\ UNCHANGED <<bufs, vstate, vma, stream, streaming, reading, readBuf, timerVars, sleepVars,
                 opens, local, fault, disturbed>>

(* videobuf_vm_close: a stream is cancelled before the memory goes.  A     *)
(* buffer the queue no longer knows keeps its map and its memory.          *)
Munmap(t, b) ==
  /\ Locked(t) /\ b \in vma
  /\ mapped' = mapped \ ({b} \cap QBufs) /\ backed' = backed \ ({b} \cap QBufs)
  /\ vma' = vma \ {b}
  /\ \/ /\ streaming /\ Cancel
     \/ /\ ~streaming
        /\ UNCHANGED <<vstate, stream, streaming, reading, local, pc>>
        /\ disturbed' = (disturbed \/ Busy(b))
  /\ fault' = (streaming /\ CancelFaults)
  /\ UNCHANGED <<bufs, readBuf, timerVars, opens, holder, target>>

(* videobuf_poll_stream.  With a stream: sleep on the first buffer unless  *)
(* it is ready.                                                            *)
Ready(b) == vstate[b] \in {"DONE", "ERROR"}

Poll(t) ==
  /\ Locked(t) /\ streaming /\ stream # << >> /\ ~Ready(Head(stream))
  /\ pc' = [pc EXCEPT ![t] = "polling"] /\ target' = [target EXCEPT ![t] = Head(stream)]
  /\ UNCHANGED <<queueVars, timerVars, opens, local, holder, fault, disturbed>>

(* Without one: read mode starts, on buffers of its own, unless a mapped   *)
(* buffer is in the way.  buf_prepare gives them no memory (its iolock is  *)
(* compiled out).  Buffers still in the stream are freed with their links. *)
PollStartsRead(t) ==
  /\ ~fault /\ opens > 0 /\ holder = Nil /\ pc[t] \in {"run", "poll_woken"}
  /\ ~streaming /\ ~reading /\ CanFree
  /\ Allocate(NBuf, "QUEUED")
  /\ local' = local \o bufs' /\ stream' = Tail(stream \o bufs')
  /\ readBuf' = Head(stream \o bufs')
  /\ reading' = TRUE
  /\ pc' = [pc EXCEPT ![t] = "polling"]
  /\ target' = [target EXCEPT ![t] = IF pc[t] = "run" THEN readBuf' ELSE @]
  /\ fault' = (TornList \/ stream # << >>) /\ disturbed' = TRUE
  /\ UNCHANGED <<vma, streaming, timerVars, opens, holder>>

PollRead(t) ==
  /\ Locked(t) /\ ~streaming /\ reading /\ ~Ready(readBuf)
  /\ pc' = [pc EXCEPT ![t] = "polling"] /\ target' = [target EXCEPT ![t] = readBuf]
  /\ UNCHANGED <<queueVars, timerVars, opens, local, holder, fault, disturbed>>

(* A woken poll looks again.  If the buffer that is first now is not ready *)
(* it sleeps on, where it slept before.                                    *)
FirstNow == IF streaming THEN IF stream = << >> THEN Nil ELSE Head(stream) ELSE readBuf

PollAgain(t) ==
  /\ ~fault /\ holder = Nil /\ pc[t] = "poll_woken"
  /\ streaming \/ reading \/ ~CanFree
  /\ pc' = [pc EXCEPT ![t] = IF FirstNow = Nil \/ Ready(FirstNow) THEN "run" ELSE "polling"]
  /\ target' = [target EXCEPT ![t] = IF pc'[t] = "run" THEN Nil ELSE @]
  /\ fault' = (vstate[target[t]] = "FREE")
  /\ UNCHANGED <<queueVars, timerVars, opens, local, holder, disturbed>>

(* The time of poll is over, or a signal arrives.                          *)
PollTimeout(t) ==
  /\ ~fault /\ Signals /\ pc[t] = "polling"
  /\ pc' = [pc EXCEPT ![t] = "run"] /\ target' = [target EXCEPT ![t] = Nil]
  /\ fault' = (vstate[target[t]] = "FREE")
  /\ UNCHANGED <<queueVars, timerVars, opens, local, holder, disturbed>>

-----------------------------------------------------------------------------
(* Ioctls.                                                                 *)

Reqbufs(t, n) ==
  /\ Locked(t) /\ ~streaming /\ stream = << >> /\ CanFree
  /\ Allocate(n, "NEEDS_INIT")
  /\ disturbed' = (disturbed \/ FreeDisturbs)
  /\ UNCHANGED <<vma, stream, streaming, reading, readBuf, timerVars, sleepVars,
                 opens, local, fault>>

(* kzalloc fails: __videobuf_alloc writes through the NULL, before         *)
(* __videobuf_mmap_setup can make do with fewer buffers.                   *)
ReqbufsNoMemory(t) ==
  /\ Locked(t) /\ ~streaming /\ stream = << >> /\ CanFree
  /\ fault' = TRUE /\ disturbed' = TRUE
  /\ UNCHANGED <<queueVars, timerVars, sleepVars, opens, local>>

(* Mutant: list_add instead of list_add_tail. *)
EnterLocalFront(s) ==
  /\ local' = s \o local
  /\ fault' = (s # << >> /\ (TornList \/ Range(s) \cap Range(local) # {}))

(* buf_queue, under irqlock: into the local queue.  A buffer that is still *)
(* in it, or a list_del in progress, tears the list.                       *)
EnterLocal(s) ==
  /\ local' = local \o s
  /\ fault' = (s # << >> /\ (TornList \/ Range(s) \cap Range(local) # {}))

Qbuf(t, b) ==
  /\ Locked(t) /\ ~reading
  /\ b \in QBufs /\ b \in mapped /\ vstate[b] \in {"NEEDS_INIT", "IDLE"}
  /\ vstate' = [vstate EXCEPT ![b] = IF streaming THEN "QUEUED" ELSE "PREPARED"]
  /\ stream' = Append(stream, b)
  /\ EnterLocal(IF streaming THEN <<b>> ELSE << >>)
  /\ disturbed' = (disturbed \/ Busy(b) \/ (streaming /\ TornList))
  /\ UNCHANGED <<bufs, mapped, backed, vma, streaming, reading, readBuf, timerVars, sleepVars,
                 opens>>

Streamon(t) ==
  /\ Locked(t) /\ ~reading /\ ~streaming
  /\ streaming' = TRUE
  /\ LET prepared == Kept(stream, {b \in Structs : vstate[b] = "PREPARED"}) IN
       /\ vstate' = [b \in Structs |-> IF b \in Range(prepared) THEN "QUEUED" ELSE vstate[b]]
       /\ EnterLocal(prepared)
  /\ disturbed' = (disturbed \/ TornList \/ ~(Range(stream) \subseteq mapped))
  /\ UNCHANGED <<bufs, mapped, backed, vma, stream, reading, readBuf, timerVars, sleepVars,
                 opens>>

Streamoff(t) ==
  /\ Locked(t) /\ streaming
  /\ Cancel /\ fault' = CancelFaults
  /\ UNCHANGED <<bufs, mapped, backed, vma, readBuf, timerVars, opens, holder, target>>

(* Mutant: the buffer stays in the stream. *)
TakeOutKeep(t, b) ==
  /\ vstate' = [vstate EXCEPT ![b] = IF Ready(b) THEN "IDLE" ELSE @]
  /\ holder' = Nil
  /\ pc' = [pc EXCEPT ![t] = "run"] /\ target' = [target EXCEPT ![t] = Nil]
  /\ UNCHANGED <<bufs, mapped, backed, vma, stream, streaming, reading, readBuf, timerVars,
                 opens, local, fault, disturbed>>

(* videobuf_dqbuf on a buffer that is no longer queued.                    *)
TakeOut(t, b) ==
  /\ \/ /\ Ready(b)
        /\ vstate' = [vstate EXCEPT ![b] = "IDLE"] /\ stream' = Kept(stream, Structs \ {b})
     \/ /\ ~Ready(b)
        /\ UNCHANGED <<vstate, stream>>
  /\ holder' = Nil
  /\ pc' = [pc EXCEPT ![t] = "run"] /\ target' = [target EXCEPT ![t] = Nil]
  /\ UNCHANGED <<bufs, mapped, backed, vma, streaming, reading, readBuf, timerVars, opens,
                 local, fault, disturbed>>

(* The call, or the second look of one that slept on an empty stream.      *)
Dqbuf(t) ==
  /\ ~fault /\ opens > 0 /\ holder = Nil /\ pc[t] \in {"run", "wait_stream"}
  /\ streaming
  /\ \/ /\ stream # << >> /\ vstate[Head(stream)] # "QUEUED"
        /\ TakeOut(t, Head(stream))
     \/ /\ IF stream = << >>
           THEN /\ pc[t] = "run" /\ pc' = [pc EXCEPT ![t] = "wait_stream"]
                /\ UNCHANGED <<holder, target>>
           ELSE /\ vstate[Head(stream)] = "QUEUED"
                /\ pc' = [pc EXCEPT ![t] = "wait_buf"] /\ holder' = t
                /\ target' = [target EXCEPT ![t] = Head(stream)]
        /\ UNCHANGED <<queueVars, timerVars, opens, local, fault, disturbed>>

DqbufStopped(t) ==
  /\ ~fault /\ holder = Nil /\ pc[t] = "wait_stream" /\ ~streaming
  /\ pc' = [pc EXCEPT ![t] = "run"]
  /\ UNCHANGED <<queueVars, timerVars, opens, local, holder, target, fault, disturbed>>

(* wait_event_interruptible(vb->done), once a wake_up has made the thread  *)
(* run: on with the buffer it slept on, or back to sleep.                  *)
DqbufWakes(t) ==
  /\ ~fault /\ pc[t] = "buf_woken"
  /\ IF vstate[target[t]] # "QUEUED"
     THEN TakeOut(t, target[t])
     ELSE /\ pc' = [pc EXCEPT ![t] = "wait_buf"]
          /\ UNCHANGED <<queueVars, timerVars, opens, local, holder, target, fault, disturbed>>

DqbufSignal(t) ==
  /\ ~fault /\ Signals /\ pc[t] \in {"wait_buf", "wait_stream"}
  /\ pc' = [pc EXCEPT ![t] = "run"] /\ target' = [target EXCEPT ![t] = Nil]
  /\ holder' = IF pc[t] = "wait_buf" THEN Nil ELSE holder
  /\ UNCHANGED <<queueVars, timerVars, opens, local, fault, disturbed>>

Process(t) ==
  \/ Open(t) \/ CloseTimer(t) \/ CloseQueue(t)
  \/ \E b \in Structs : Mmap(t, b) \/ MmapFails(t, b) \/ Munmap(t, b) \/ Qbuf(t, b)
  \/ Poll(t) \/ PollStartsRead(t) \/ PollRead(t) \/ PollAgain(t) \/ PollTimeout(t)
  \/ \E n \in 1 .. NBuf : Reqbufs(t, n)
  \/ ReqbufsNoMemory(t) \/ Streamon(t) \/ Streamoff(t)
  \/ Dqbuf(t) \/ DqbufStopped(t) \/ DqbufWakes(t) \/ DqbufSignal(t)

-----------------------------------------------------------------------------
(* myvivi_timer_function.                                                  *)

(* waitqueue_active(&vb->done): a wake_up takes a DQBUF off the wait       *)
(* queue, a poll leaves it when the call ends.                             *)
Awaited(b) == \E t \in Threads :
                pc[t] \in {"polling", "poll_woken", "wait_buf"} /\ target[t] = b

(* The first buffer of the local queue, if somebody waits for it.          *)
TimerStart ==
  /\ ~fault /\ pending /\ tpc = "idle"
  /\ pending' = FALSE
  /\ IF local # << >> /\ Awaited(Head(local))
     THEN tpc' = "fill" /\ tBuf' = Head(local)
     ELSE tpc' = "rearm" /\ UNCHANGED tBuf
  /\ fault' = (local # << >> /\ vstate[Head(local)] = "FREE")
  /\ UNCHANGED <<queueVars, sleepVars, opens, local, disturbed>>

(* The picture is copied into the memory of the buffer: its state says so. *)
TimerFill ==
  /\ ~fault /\ tpc = "fill" /\ tpc' = "unlink"
  /\ fault' = (vstate[tBuf] = "FREE" \/ tBuf \notin backed)
  /\ vstate' = IF vstate[tBuf] = "FREE" THEN vstate ELSE [vstate EXCEPT ![tBuf] = "DONE"]
  /\ UNCHANGED <<bufs, mapped, backed, vma, stream, streaming, reading, readBuf, pending, tBuf,
                 sleepVars, opens, local, disturbed>>

(* list_del(&vb->queue), without the irqlock: read the neighbours, ...     *)
TimerUnlink ==
  /\ ~fault /\ tpc = "unlink" /\ tpc' = "unlinking"
  /\ fault' = (tBuf \notin Range(local))
  /\ UNCHANGED <<queueVars, pending, tBuf, sleepVars, opens, local, disturbed>>

(* Mutant: the buffer stays in the local queue. *)
TimerUnlinkedKeep ==
  /\ ~fault /\ tpc = "unlinking" /\ tpc' = "wake"
  /\ UNCHANGED <<queueVars, pending, tBuf, sleepVars, opens, local, fault, disturbed>>

(* ... and write their links.                                              *)
TimerUnlinked ==
  /\ ~fault /\ tpc = "unlinking" /\ tpc' = "wake"
  /\ local' = Kept(local, Structs \ {tBuf})
  /\ UNCHANGED <<queueVars, pending, tBuf, sleepVars, opens, fault, disturbed>>

(* Mutant: no wake_up. *)
TimerSilent ==
  /\ ~fault /\ tpc = "wake" /\ tpc' = "rearm" /\ tBuf' = Nil
  /\ UNCHANGED <<queueVars, pending, sleepVars, opens, local, fault, disturbed>>

TimerWake ==
  /\ ~fault /\ tpc = "wake" /\ tpc' = "rearm" /\ tBuf' = Nil
  /\ pc' = Woken({tBuf})
  /\ fault' = (vstate[tBuf] = "FREE")
  /\ UNCHANGED <<queueVars, pending, holder, target, opens, local, disturbed>>

(* Mutant: no mod_timer. *)
TimerOnce ==
  /\ ~fault /\ tpc = "rearm" /\ tpc' = "idle"
  /\ UNCHANGED <<queueVars, pending, tBuf, sleepVars, opens, local, fault, disturbed>>

(* mod_timer, even if del_timer has been called meanwhile.                 *)
TimerRearm ==
  /\ ~fault /\ tpc = "rearm" /\ tpc' = "idle"
  /\ pending' = TRUE
  /\ UNCHANGED <<queueVars, tBuf, sleepVars, opens, local, fault, disturbed>>

Timer == TimerStart \/ TimerFill \/ TimerUnlink \/ TimerUnlinked \/ TimerWake \/ TimerRearm

Next == Timer \/ \E t \in Threads : Process(t)

Spec == Init /\ [][Next]_vars

(* The timer fires, its function runs to its end, and a thread that was    *)
(* woken runs.                                                             *)
FairSpec == /\ Spec /\ WF_vars(Timer)
            /\ \A t \in Threads : WF_vars(PollAgain(t)) /\ WF_vars(DqbufWakes(t))

-----------------------------------------------------------------------------
(* Properties.                                                             *)

States == {"FREE", "NEEDS_INIT", "IDLE", "PREPARED", "QUEUED", "DONE"}

(* Type correctness of the queue, the timer and the sleeping threads.      *)
TypeOK ==
  /\ opens \in 0 .. MaxOpens /\ pending \in BOOLEAN
  /\ tpc \in {"idle", "fill", "unlink", "unlinking", "wake", "rearm"}
  /\ tBuf \in {Nil} \cup Structs
  /\ bufs \in Seq(Structs) /\ Len(bufs) <= NBuf /\ vstate \in [Structs -> States]
  /\ mapped \subseteq Structs /\ backed \subseteq Structs /\ vma \subseteq Structs
  /\ stream \in Seq(Structs) /\ local \in Seq(Structs)
  /\ streaming \in BOOLEAN /\ reading \in BOOLEAN /\ readBuf \in {Nil} \cup Structs
  /\ holder \in {Nil} \cup Threads
  /\ pc \in [Threads -> {"run", "closing", "polling", "poll_woken", "wait_stream", "wait_buf",
                          "buf_woken"}]
  /\ target \in [Threads -> {Nil} \cup Structs]
  /\ fault \in BOOLEAN /\ disturbed \in BOOLEAN

(* Nothing below is promised once the timer function and a call have met   *)
(* on a buffer or a list, or the application has left the usual sequence:  *)
(* the model goes on from there to the faults of the code.                 *)

(* The local queue of the timer holds exactly the buffers of the stream    *)
(* that wait for data, in the same order, and the one the timer is about   *)
(* to unlink: the buffer DQBUF sleeps on, the first of the stream, is the  *)
(* one the timer looks at, so that the two never wait for each other.      *)
Queued(s) == Kept(s, {b \in Structs : vstate[b] = "QUEUED"})

QueuesAgree ==
  (~disturbed /\ ~fault) =>
    /\ Queued(local) = Queued(stream)
    /\ \A b \in Range(local) : vstate[b] = "QUEUED" \/ (Busy(b) /\ tpc # "fill")
    /\ \A b \in QueuedNow : b \in Range(stream)

(* The kernel touches no freed buffer, and never adds a timer or a buffer  *)
(* twice.  Only one thing goes wrong without an overlap: the picture is    *)
(* written where no memory is, when QBUF has taken a buffer whose mmap had *)
(* failed and left its map and baddr set (videobuf-vmalloc.c:325-328).     *)
FilledUnbacked == tpc = "unlink" /\ tBuf \in mapped \ backed

NoFault == fault /\ ~disturbed => FilledUnbacked

(* A thread that sleeps in DQBUF, with vb_lock held, is woken and comes    *)
(* back: the timer function calls wake_up once the buffer has its frame.   *)
InDqbuf(t) == pc[t] \in {"wait_buf", "buf_woken"}

DqbufReturns == \A t \in Threads : InDqbuf(t) ~> (~InDqbuf(t) \/ disturbed \/ fault)

(* A thread that sleeps in poll on the buffer the timer looks at is told   *)
(* of its frame.                                                           *)
PollReturns ==
  \A t \in Threads :
    (pc[t] = "polling" /\ local # << >> /\ target[t] = Head(local))
      ~> (pc[t] # "polling" \/ disturbed \/ fault)

(* The comment in the timer function: a frame every 1/30 s.  So as long as *)
(* a thread polls and buffers are queued, frames are made.                 *)
FramesKeepComing ==
  (streaming /\ local # << >> /\ \E t \in Threads : pc[t] = "polling") ~>
    \/ tpc = "unlink" \/ ~streaming \/ local = << >> \/ disturbed \/ fault
    \/ \A t \in Threads : pc[t] # "polling"

=============================================================================
