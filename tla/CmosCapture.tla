---------------------------- MODULE CmosCapture -----------------------------
(***************************************************************************)
(* The CMOS capture driver (src/ov7740/cmos_ov7740_drv.c): formats, four   *)
(* frame buffers of contiguous pages, the preview channel of the camera    *)
(* interface, read(), and what remains of all that between two bindings of *)
(* the driver.                                                             *)
(*                                                                         *)
(* The driver has no lock and checks no order of calls.  An ioctl is one   *)
(* step (that two REQBUFS meet while one sleeps in the page allocator is   *)
(* left out); read() sleeps, and copies buffer after buffer while          *)
(* interrupts and the ioctls of other threads go on.                       *)
(***************************************************************************)
EXTENDS Integers, FiniteSets, FiniteSetsExt

CONSTANTS Threads,      \* threads of the application
          Formats,      \* [w, h, bytes]: what S_FMT may ask for; bytes per pixel
          Blocks,       \* page blocks of the allocator, numbered from 1
          Signals,      \* a sleep in read() may be interrupted
          Orderly       \* the calls keep the order the driver survives, and
                        \* one REQBUFS fails at a time

ASSUME FormatsAssumption ==
  Formats \subseteq [w : Nat, h : Nat, bytes : {2, 4}]

ASSUME BlocksAssumption == Blocks \subseteq Nat \ {0} /\ IsFiniteSet(Blocks)

Nil      == 0
Bufs     == 1 .. 4
MaxOrder == 11
Free     == MaxOrder    \* the order of a block nobody has
SrcW     == 640
SrcH     == 480

VARIABLES
  present,              \* "yes", "unmapped" in the middle of remove, or "no"
  open,                 \* somebody has the device open
  target, buf_size, bytesperline,
  img,                  \* img_buff[].virt_base
  pages,                \* order of each block that is allocated
  addr,                 \* CIPRCLRSA1..4: where the camera writes
  sc,                   \* ratios of the pre-scaler
  ctrl,                 \* the main ratios in CIPRSCCTRL, or-ed, by target
  burst,                \* CIPRCTRL
  enabled,              \* CIIMGCPT
  ev_cam,
  pc, want, nextCopy,   \* read(): where it is, how much it copies, from where
  ready,                \* history: REQBUFS succeeded after the last S_FMT
  filled,               \* history: the camera has finished a frame since then
  dangling,             \* history: img_buff may name pages that were freed
  misused,              \* history: calls in an order the driver does not survive
  fault

fmtVars  == <<target, buf_size, bytesperline>>
memVars  == <<img, pages, addr>>
regVars  == <<sc, ctrl, burst, enabled>>
readVars == <<pc, want, nextCopy>>
vars     == <<present, open, fmtVars, memVars, regVars, ev_cam, readVars,
              ready, filled, dangling, misused, fault>>

Init ==
  /\ present = "yes" /\ open = FALSE
  /\ target = [w |-> 0, h |-> 0] /\ buf_size = 0 /\ bytesperline = 0
  /\ img = [i \in Bufs |-> Nil]
  /\ pages = [b \in Blocks |-> Free] /\ addr = [i \in Bufs |-> Nil]
  /\ sc = [h |-> 0, v |-> 0] /\ ctrl = {}
  /\ burst = [main |-> 0, rest |-> 0] /\ enabled = FALSE
  /\ ev_cam = FALSE
  /\ pc = [t \in Threads |-> "run"] /\ want = [t \in Threads |-> 0]
  /\ nextCopy = [t \in Threads |-> 1]
  /\ ready = FALSE /\ filled = FALSE /\ dangling = FALSE /\ misused = FALSE /\ fault = "none"

Running(t) == fault = "none" /\ present = "yes" /\ open /\ pc[t] = "run"
Reading    == \E t \in Threads : pc[t] # "run"

(* A call the driver does not survive if c.                                *)
Misuse(c) == misused' = (misused \/ c) /\ (Orderly => ~c)

(* get_order.  What the allocator cannot give has order MaxOrder.          *)
Holds(k, size) == size <= 4096 * 2^k

Order(size) ==
  IF size = 0 \/ ~Holds(MaxOrder - 1, size) THEN MaxOrder
  ELSE CHOOSE k \in 0 .. MaxOrder - 1 :
         Holds(k, size) /\ \A j \in 0 .. k - 1 : ~Holds(j, size)

-----------------------------------------------------------------------------
(* Files.                                                                  *)
OpenFile ==
  /\ fault = "none" /\ present = "yes" /\ ~open /\ open' = TRUE
  /\ UNCHANGED <<present, fmtVars, memVars, regVars, ev_cam, readVars,
                 ready, filled, dangling, misused, fault>>

(* close stops nothing.                                                    *)
CloseFile ==
  /\ fault = "none" /\ present = "yes" /\ open /\ ~Reading
  /\ open' = FALSE /\ Misuse(enabled)
  /\ UNCHANGED <<present, fmtVars, memVars, regVars, ev_cam, readVars,
                 ready, filled, dangling, fault>>

-----------------------------------------------------------------------------
(* Ioctls.                                                                 *)
SFmt(t, f) ==
  /\ Running(t)
  /\ target' = [w |-> f.w, h |-> f.h]
  /\ bytesperline' = f.w * f.bytes /\ buf_size' = f.h * f.w * f.bytes
  /\ ready' = FALSE
  /\ Misuse(enabled \/ Reading)
  /\ UNCHANGED <<present, open, memVars, regVars, ev_cam, readVars, filled, dangling, fault>>

(* The blocks the allocator gives, one after the other.                    *)
Available == {b \in Blocks : pages[b] = Free}
Any(S)    == CHOOSE b \in S : TRUE

Block(i) ==
  LET a == Any(Available)
      b == Any(Available \ {a})
      c == Any(Available \ {a, b})
      d == Any(Available \ {a, b, c})
  IN  CASE i = 1 -> a [] i = 2 -> b [] i = 3 -> c [] i = 4 -> d

(* Mutant: pages for half a frame. *)
ReqbufsHalf(t) ==
  /\ Running(t)
  /\ Order(buf_size) < MaxOrder /\ Cardinality(Available) >= 4
  /\ img' = [i \in Bufs |-> Block(i)]
  /\ pages' = [b \in Blocks |->
                 IF \E i \in Bufs : b = Block(i) THEN Order(buf_size \div 2) ELSE pages[b]]
  /\ addr' = img'
  /\ ready' = TRUE /\ filled' = FALSE /\ dangling' = FALSE
  /\ UNCHANGED <<present, open, fmtVars, regVars, ev_cam, readVars, misused, fault>>

(* Four buffers; those of an earlier REQBUFS are forgotten, not freed.     *)
Reqbufs(t) ==
  /\ Running(t)
  /\ Order(buf_size) < MaxOrder /\ Cardinality(Available) >= 4
  /\ img' = [i \in Bufs |-> Block(i)]
  /\ pages' = [b \in Blocks |-> IF \E i \in Bufs : b = Block(i) THEN Order(buf_size) ELSE pages[b]]
  /\ addr' = img'
  /\ ready' = TRUE /\ filled' = FALSE /\ dangling' = FALSE
  /\ UNCHANGED <<present, open, fmtVars, regVars, ev_cam, readVars, misused, fault>>

(* Mutant: each address goes to its register at once. *)
ReqbufsFailsLate(t, n) ==
  /\ Running(t)
  /\ n <= Cardinality(Available) /\ (n > 0 => Order(buf_size) < MaxOrder)
  /\ Orderly => ~dangling
  /\ img' = [i \in Bufs |-> IF i <= n THEN Block(i) ELSE IF i = n + 1 THEN Nil ELSE img[i]]
  /\ addr' = [i \in Bufs |-> IF i <= n THEN Block(i) ELSE addr[i]]
  /\ ready' = FALSE /\ dangling' = TRUE
  /\ UNCHANGED <<present, open, fmtVars, pages, regVars, ev_cam, readVars, filled, misused,
                 fault>>

(* Allocation n + 1 fails: the pages go back, virt_base keeps their        *)
(* addresses.                                                              *)
ReqbufsFails(t, n) ==
  /\ Running(t)
  /\ n <= Cardinality(Available) /\ (n > 0 => Order(buf_size) < MaxOrder)
  /\ Orderly => ~dangling
  /\ img' = [i \in Bufs |-> IF i <= n THEN Block(i) ELSE IF i = n + 1 THEN Nil ELSE img[i]]
  /\ ready' = FALSE /\ dangling' = TRUE
  /\ UNCHANGED <<present, open, fmtVars, pages, addr, regVars, ev_cam, readVars, filled, misused,
                 fault>>

(* Mutant: a line of 12 words (modulo 16) falls in the case above. *)
BurstNoTwelve(bytes) ==
  LET words == bytes \div 4 IN
  CASE words % 16 = 0 -> [main |-> 16, rest |-> 16]
    [] words % 16 = 4 -> [main |-> 16, rest |-> 4]
    [] words % 16 \in {8, 12} -> [main |-> 16, rest |-> 8]
    [] words % 4 # 0  -> [main |-> 4, rest |-> words % 4]

(* CalculateBurstSize.                                                     *)
BurstOf(bytes) ==
  LET words == bytes \div 4 IN
  CASE words % 16 = 0 -> [main |-> 16, rest |-> 16]
    [] words % 16 = 4 -> [main |-> 16, rest |-> 4]
    [] words % 16 = 8 -> [main |-> 16, rest |-> 8]
    [] words % 16 = 12 -> [main |-> 8, rest |-> 4]
    [] words % 4 # 0  -> [main |-> 4, rest |-> words % 4]

Ratios == {1, 2, 4, 8, 16, 32}

(* Mutant: > instead of >=. *)
ScaleStrict(src, tar, old) ==
  IF src >= 64 * tar THEN old ELSE Max({1} \cup {r \in Ratios : src > r * tar})

(* Mutant: the case of 32 is missing. *)
ScaleNo32(src, tar, old) ==
  IF src >= 32 * tar THEN old ELSE Max({1} \cup {r \in Ratios : src >= r * tar})

(* camif_get_scaler_factor: below 1/64 the ratio stays what it was.  The   *)
(* shift is its exponent.                                                  *)
Scale(src, tar, old) ==
  IF src >= 64 * tar THEN old ELSE Max({1} \cup {r \in Ratios : src >= r * tar})

MainRatio(src, tar, ratio) == (src * 256) \div (tar * ratio)

(* STREAMON divides by the ratios, which are zero if no target so far gave *)
(* one, and by the target.  It adds its main ratios to the bits CIPRSCCTRL *)
(* has from the streams before.                                            *)
Streamon(t) ==
  LET h == Scale(SrcW, target.w, sc.h)
      v == Scale(SrcH, target.h, sc.v)
      zero == 0 \in {h, v, target.w, target.h}
  IN
  /\ Running(t)
  /\ Misuse(~ready)
  /\ burst' = BurstOf(bytesperline) /\ sc' = [h |-> h, v |-> v]
  /\ \/ /\ zero
        /\ fault' = "divide" /\ UNCHANGED <<ctrl, enabled>>
     \/ /\ ~zero
        /\ ctrl' = ctrl \cup {[w |-> target.w, h |-> target.h,
                               mainH |-> MainRatio(SrcW, target.w, h),
                               mainV |-> MainRatio(SrcH, target.h, v)]}
        /\ enabled' = TRUE /\ UNCHANGED fault
  /\ UNCHANGED <<present, open, fmtVars, memVars, ev_cam, readVars, ready, filled,
                 dangling>>

Streamoff(t) ==
  /\ Running(t) /\ enabled /\ enabled' = FALSE
  /\ UNCHANGED <<present, open, fmtVars, memVars, sc, ctrl, burst, ev_cam, readVars,
                 ready, filled, dangling, misused, fault>>

Ioctl(t) == \/ \E f \in Formats : SFmt(t, f)
            \/ Reqbufs(t) \/ \E n \in 0 .. 3 : ReqbufsFails(t, n)
            \/ Streamon(t) \/ Streamoff(t)

-----------------------------------------------------------------------------
(* Mutant: the flag is not set. *)
FrameEndSilent ==
  /\ fault = "none" /\ enabled /\ present # "no"
  /\ IF present = "unmapped" THEN fault' = "irq" /\ UNCHANGED filled
     ELSE filled' = TRUE /\ UNCHANGED fault
  /\ UNCHANGED <<present, open, fmtVars, memVars, regVars, ev_cam, readVars, ready, dangling,
                 misused>>

(* The interrupt of the preview channel at the end of a frame.             *)
FrameEnd ==
  /\ fault = "none" /\ enabled /\ present # "no"
  /\ IF present = "unmapped" THEN fault' = "irq" /\ UNCHANGED <<ev_cam, filled>>
     ELSE ev_cam' = TRUE /\ filled' = TRUE /\ UNCHANGED fault
  /\ UNCHANGED <<present, open, fmtVars, memVars, regVars, readVars, ready, dangling, misused>>

(* read() of a whole frame.                                                *)
ReadCall(t) ==
  /\ Running(t)
  /\ pc' = [pc EXCEPT ![t] = "wait"] /\ want' = [want EXCEPT ![t] = buf_size]
  /\ nextCopy' = [nextCopy EXCEPT ![t] = 1]
  /\ Misuse(~ready)
  /\ UNCHANGED <<present, open, fmtVars, memVars, regVars, ev_cam, ready, filled, dangling, fault>>

(* Nobody looks at why the wait ended: for a frame, or for a signal.       *)
WaitEnds(t) ==
  /\ fault = "none" /\ pc[t] = "wait" /\ pc' = [pc EXCEPT ![t] = "copy"]
  /\ UNCHANGED <<present, open, fmtVars, memVars, regVars, ev_cam, want, nextCopy,
                 ready, filled, dangling, misused, fault>>

ReadWakes(t)       == ev_cam /\ WaitEnds(t)
ReadInterrupted(t) == Signals /\ WaitEnds(t)

(* Every buffer goes to the same place of the application's memory.        *)
Reachable(b, size) == b # Nil /\ pages[b] # Free /\ Holds(pages[b], size)

(* Mutant: i <= 4. *)
ReadCopyFive(t) ==
  /\ fault = "none" /\ pc[t] = "copy"
  /\ fault' = IF want[t] = 0 \/ Reachable(img[nextCopy[t]], want[t]) THEN "none" ELSE "copy"
  /\ IF nextCopy[t] <= 4
     THEN nextCopy' = [nextCopy EXCEPT ![t] = @ + 1] /\ UNCHANGED pc
     ELSE pc' = [pc EXCEPT ![t] = "clear"] /\ UNCHANGED nextCopy
  /\ UNCHANGED <<present, open, fmtVars, memVars, regVars, ev_cam, want,
                 ready, filled, dangling, misused>>

ReadCopy(t) ==
  /\ fault = "none" /\ pc[t] = "copy"
  /\ fault' = IF want[t] = 0 \/ Reachable(img[nextCopy[t]], want[t]) THEN "none" ELSE "copy"
  /\ IF nextCopy[t] < 4
     THEN nextCopy' = [nextCopy EXCEPT ![t] = @ + 1] /\ UNCHANGED pc
     ELSE pc' = [pc EXCEPT ![t] = "clear"] /\ UNCHANGED nextCopy
  /\ UNCHANGED <<present, open, fmtVars, memVars, regVars, ev_cam, want,
                 ready, filled, dangling, misused>>

(* The application's memory takes no more: the flag stays set.             *)
ReadFails(t) ==
  /\ fault = "none" /\ pc[t] = "copy"
  /\ pc' = [pc EXCEPT ![t] = "run"] /\ want' = [want EXCEPT ![t] = 0]
  /\ nextCopy' = [nextCopy EXCEPT ![t] = 1]
  /\ UNCHANGED <<present, open, fmtVars, memVars, regVars, ev_cam, ready, filled, dangling, misused,
                 fault>>

ReadReturns(t) ==
  /\ fault = "none" /\ pc[t] = "clear"
  /\ ev_cam' = FALSE
  /\ pc' = [pc EXCEPT ![t] = "run"] /\ want' = [want EXCEPT ![t] = 0]
  /\ nextCopy' = [nextCopy EXCEPT ![t] = 1]
  /\ UNCHANGED <<present, open, fmtVars, memVars, regVars, ready, filled, dangling, misused, fault>>

Read(t) == \/ ReadCall(t) \/ ReadWakes(t) \/ ReadInterrupted(t)
           \/ ReadCopy(t) \/ ReadFails(t) \/ ReadReturns(t)

-----------------------------------------------------------------------------
(* remove unmaps the registers, then frees the interrupts; unregistering   *)
(* the device frees the pages, with the order of the format of today.      *)
RemoveUnmaps ==
  /\ fault = "none" /\ present = "yes" /\ ~open
  /\ present' = "unmapped"
  /\ UNCHANGED <<open, fmtVars, memVars, regVars, ev_cam, readVars,
                 ready, filled, dangling, misused, fault>>

Freed == {img[i] : i \in Bufs} \ {Nil}

WrongFree == \/ \E b \in Freed : pages[b] = Free \/ pages[b] # Order(buf_size)
             \/ \E i, j \in Bufs : i # j /\ img[i] = img[j] /\ img[i] # Nil

RemoveFrees ==
  /\ fault = "none" /\ present = "unmapped" /\ present' = "no"
  /\ pages' = [b \in Blocks |-> IF b \in Freed THEN Free ELSE pages[b]]
  /\ fault' = IF WrongFree THEN "free" ELSE "none"
  /\ ready' = FALSE
  /\ Misuse(~ready /\ ~dangling /\ Freed # {})
  /\ UNCHANGED <<open, fmtVars, img, addr, regVars, ev_cam, readVars, filled, dangling>>

(* The driver is bound again: the camera interface is reset, the static    *)
(* variables are what they were.                                           *)
Probe ==
  /\ fault = "none" /\ present = "no" /\ present' = "yes"
  /\ enabled' = FALSE /\ ctrl' = {} /\ dangling' = (dangling \/ Freed # {})
  /\ UNCHANGED <<open, fmtVars, memVars, sc, burst, ev_cam, readVars,
                 ready, filled, misused, fault>>

Next == \/ OpenFile \/ CloseFile \/ FrameEnd
        \/ RemoveUnmaps \/ RemoveFrees \/ Probe
        \/ \E t \in Threads : Ioctl(t) \/ Read(t)

Spec == Init /\ [][Next]_vars

(* The camera goes on, and a thread that can run does.                     *)
FairSpec == /\ Spec /\ WF_vars(FrameEnd)
            /\ \A t \in Threads : WF_vars(ReadWakes(t) \/ ReadCopy(t) \/ ReadReturns(t))

-----------------------------------------------------------------------------
(* Type correctness of the driver's variables, the registers, the page     *)
(* allocator and the readers.                                              *)
TypeOK ==
  /\ present \in {"yes", "unmapped", "no"} /\ open \in BOOLEAN
  /\ target \in [w : Nat, h : Nat] /\ buf_size \in Nat /\ bytesperline \in Nat
  /\ img \in [Bufs -> {Nil} \cup Blocks] /\ addr \in [Bufs -> {Nil} \cup Blocks]
  /\ pages \in [Blocks -> 0 .. MaxOrder]
  /\ sc \in [h : Ratios \cup {0}, v : Ratios \cup {0}]
  /\ ctrl \subseteq [w : Nat, h : Nat, mainH : Nat, mainV : Nat]
  /\ burst \in [main : {0, 4, 8, 16}, rest : 0 .. 16]
  /\ enabled \in BOOLEAN /\ ev_cam \in BOOLEAN
  /\ pc \in [Threads -> {"run", "wait", "copy", "clear"}]
  /\ want \in [Threads -> Nat] /\ nextCopy \in [Threads -> Bufs]
  /\ ready \in BOOLEAN /\ filled \in BOOLEAN /\ dangling \in BOOLEAN /\ misused \in BOOLEAN
  /\ fault \in {"none", "divide", "free", "irq", "copy"}

(* Until a REQBUFS has failed or the driver was unbound, img_buff is four  *)
(* different blocks the driver has, or none; after S_FMT and REQBUFS they  *)
(* have the order release will free them with.                             *)
OwnPages ==
  (present # "no" /\ ~dangling) => \A i \in Bufs :
    img[i] # Nil => /\ pages[img[i]] # Free
                    /\ ready => pages[img[i]] = Order(buf_size)
                    /\ \A j \in Bufs \ {i} : img[j] # img[i]

(* While the camera runs, its four address registers point to blocks that  *)
(* are allocated and hold a frame of the format it was set to, whatever    *)
(* REQBUFS did meanwhile.                                                  *)
DmaInside ==
  (enabled /\ ~misused) => \A i \in Bufs : Reachable(addr[i], buf_size)

(* What goes wrong in memory or in the registers has one of the known      *)
(* causes: the calls came in an order the driver does not survive, a       *)
(* REQBUFS failed, the driver is bound for a second time, or the format is *)
(* smaller than a 64th of the sensor's.                                    *)
Tiny(s)    == SrcW >= 64 * s.w \/ SrcH >= 64 * s.h
TinyTarget == Tiny(target)

NoFault == /\ fault \in {"free", "irq", "copy"} => misused \/ dangling
           /\ fault = "divide" => TinyTarget

(* STREAMON only adds bits to CIPRSCCTRL.  Whatever streams there were     *)
(* since the reset, the main ratios stay in the nine bits they have there, *)
(* as long as none of the streams had a tiny target.                       *)
ScalerFits == \A s \in ctrl : Tiny(s) \/ (s.mainH < 512 /\ s.mainV < 512)

(* A line is a number of main bursts and one remaining burst.              *)
BurstCovers ==
  (enabled /\ ~misused) =>
    /\ burst.rest \in 1 .. burst.main
    /\ (bytesperline \div 4 - burst.rest) % burst.main = 0

(* While the camera runs and somebody waits for a frame, somebody gets     *)
(* one, also if the flag is cleared right after it was set.                *)
ReadersProgress ==
  (\E t \in Threads : pc[t] = "wait")
    ~> ((\E t \in Threads : pc[t] = "copy") \/ ~enabled \/ fault # "none")

(* The comment on read: the application reads the data of the camera.  So  *)
(* read copies buffers the camera has filled.                              *)
ReadsFilledBuffers ==
  \A t \in Threads : (pc[t] = "copy" /\ ~misused) => filled

=============================================================================
