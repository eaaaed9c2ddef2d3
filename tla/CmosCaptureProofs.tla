-------------------------- MODULE CmosCaptureProofs --------------------------
(***************************************************************************)
(* Theorems about the CMOS capture driver: where the camera writes, what   *)
(* is behind every fault, and the two pieces of arithmetic the registers   *)
(* are computed with, for formats of every size.                           *)
(***************************************************************************)
EXTENDS CmosCapture, FiniteSetTheorems, TLAPS

-----------------------------------------------------------------------------
(* Arithmetic.                                                             *)

(* A line of any length is a number of main bursts and one remaining.      *)
LEMMA BurstLaw ==
  ASSUME NEW bytes \in Nat
  PROVE  /\ BurstOf(bytes) \in [main : {0, 4, 8, 16}, rest : 0 .. 16]
         /\ BurstOf(bytes).rest \in 1 .. BurstOf(bytes).main
         /\ (bytes \div 4 - BurstOf(bytes).rest) % BurstOf(bytes).main = 0
<1> DEFINE words == bytes \div 4
<1>0. words \in Nat
  OBVIOUS
<1> HIDE DEF words
<1>1. CASE words % 16 = 0
  BY <1>0, <1>1 DEF BurstOf, words
<1>2. CASE words % 16 = 4
  BY <1>0, <1>2 DEF BurstOf, words
<1>3. CASE words % 16 = 8
  BY <1>0, <1>3 DEF BurstOf, words
<1>4. CASE words % 16 = 12
  BY <1>0, <1>4 DEF BurstOf, words
<1>5. CASE words % 4 # 0
  BY <1>0, <1>5 DEF BurstOf, words
<1> QED
  BY <1>0, <1>1, <1>2, <1>3, <1>4, <1>5

(* The ratio of a target that is not too small is the largest that fits.   *)
LEMMA ScaleLaw ==
  ASSUME NEW src \in Nat, NEW tar \in Nat, NEW old, src < 64 * tar
  PROVE  /\ Scale(src, tar, old) \in Ratios
         /\ src < 2 * Scale(src, tar, old) * tar
<1> DEFINE S == {1} \cup {r \in Ratios : src >= r * tar}
<1>1. PICK m \in S : \A r \in S : m >= r
  BY DEF Ratios
<1>2. Max(S) \in S /\ \A r \in S : Max(S) >= r
  BY <1>1 DEF Max
<1>3. Scale(src, tar, old) = Max(S)
  BY DEF Scale
<1>4. Max(S) \in Ratios
  BY <1>2 DEF Ratios
<1>5. src < 2 * Max(S) * tar
  <2> DEFINE m2 == Max(S)
  <2>1. m2 \in Ratios /\ \A r \in Ratios : src >= r * tar => m2 >= r
    BY <1>2, <1>4
  <2> SUFFICES src < 2 * m2 * tar
    OBVIOUS
  <2> HIDE DEF m2
  <2>2. m2 = 32 \/ src < 2 * m2 * tar
    <3>1. \A r \in Ratios : m2 < r => src < r * tar
      BY <2>1 DEF Ratios
    <3>2. CASE m2 = 1
      BY <3>1, <3>2 DEF Ratios
    <3>3. CASE m2 = 2
      BY <3>1, <3>3 DEF Ratios
    <3>4. CASE m2 = 4
      BY <3>1, <3>4 DEF Ratios
    <3>5. CASE m2 = 8
      BY <3>1, <3>5 DEF Ratios
    <3>6. CASE m2 = 16
      BY <3>1, <3>6 DEF Ratios
    <3> QED
      BY <2>1, <3>2, <3>3, <3>4, <3>5, <3>6 DEF Ratios
  <2>3. CASE m2 = 32
    BY <2>3
  <2> QED
    BY <2>2, <2>3
<1> QED
  BY <1>3, <1>4, <1>5

LEMMA ScaleType ==
  ASSUME NEW src \in Nat, NEW tar \in Nat, NEW old \in Ratios \cup {0}
  PROVE  Scale(src, tar, old) \in Ratios \cup {0}
<1>1. CASE src >= 64 * tar
  BY <1>1 DEF Scale
<1>2. CASE src < 64 * tar
  BY <1>2, ScaleLaw
<1> QED
  BY <1>1, <1>2

LEMMA DivBound ==
  ASSUME NEW a \in Nat, NEW b \in Nat \ {0}
  PROVE  /\ a \div b \in Nat
         /\ a < 512 * b => a \div b < 512
  OBVIOUS

(* The main ratio then fits nine bits.                                     *)
LEMMA MainLaw ==
  ASSUME NEW src \in Nat, NEW tar \in Nat \ {0}, NEW ratio \in Ratios
  PROVE  /\ MainRatio(src, tar, ratio) \in Nat
         /\ src < 2 * ratio * tar => MainRatio(src, tar, ratio) < 512
<1>1. tar * ratio \in Nat \ {0}
  BY DEF Ratios
<1>2. src < 2 * ratio * tar => src * 256 < 512 * (tar * ratio)
  BY DEF Ratios
<1> QED
  BY <1>1, <1>2, DivBound DEF MainRatio

LEMMA OrderLaw ==
  ASSUME NEW size \in Nat
  PROVE  /\ Order(size) \in 0 .. MaxOrder
         /\ Order(size) < MaxOrder => Holds(Order(size), size)
<1>1. CASE size = 0 \/ ~Holds(MaxOrder - 1, size)
  BY <1>1 DEF Order, MaxOrder
<1>2. CASE ~(size = 0 \/ ~Holds(MaxOrder - 1, size))
  <2> DEFINE P(k) == Holds(k, size) /\ \A j \in 0 .. k - 1 : ~Holds(j, size)
  <2>1. Holds(10, size)
    BY <1>2 DEF MaxOrder
  <2>2. \E k \in 0 .. 10 : P(k)
    BY <2>1
  <2>3. Order(size) = CHOOSE k \in 0 .. 10 : P(k)
    BY <1>2 DEF Order, MaxOrder
  <2> QED
    BY <2>2, <2>3 DEF MaxOrder
<1> QED
  BY <1>1, <1>2

(* Taking one element away.                                                *)
LEMMA TakeOne ==
  ASSUME NEW S, IsFiniteSet(S), Cardinality(S) >= 1
  PROVE  /\ Any(S) \in S
         /\ IsFiniteSet(S \ {Any(S)}) /\ Cardinality(S \ {Any(S)}) = Cardinality(S) - 1
<1>1. Cardinality(S) \in Nat /\ S # {}
  BY FS_CardinalityType, FS_EmptySet
<1>2. Any(S) \in S
  BY <1>1 DEF Any
<1> QED
  BY <1>2, FS_RemoveElement

(* The first n <= 4 blocks the allocator gives are free and differ, if n   *)
(* are free at all.                                                        *)
LEMMA BlockLaw ==
  ASSUME NEW n \in 0 .. 4, n <= Cardinality(Available)
  PROVE  /\ \A i \in 1 .. n : Block(i) \in Available
         /\ \A i, j \in 1 .. n : i # j => Block(i) # Block(j)
<1> DEFINE a == Any(Available)
           b == Any(Available \ {a})
           c == Any(Available \ {a, b})
           d == Any(Available \ {a, b, c})
           C == Cardinality(Available)
<1>0. IsFiniteSet(Available) /\ C \in Nat
  BY BlocksAssumption, FS_Subset, FS_CardinalityType DEF Available
<1>1. C >= 1 => /\ a \in Available
                /\ IsFiniteSet(Available \ {a}) /\ Cardinality(Available \ {a}) = C - 1
  BY <1>0, TakeOne
<1>2. C >= 2 => /\ b \in Available \ {a}
                /\ IsFiniteSet(Available \ {a, b}) /\ Cardinality(Available \ {a, b}) = C - 2
  <2>1. Available \ {a, b} = (Available \ {a}) \ {b}
    OBVIOUS
  <2> HIDE DEF a, C
  <2> QED
    BY <1>0, <1>1, <2>1, TakeOne
<1>3. C >= 3 => /\ c \in Available \ {a, b}
                /\ IsFiniteSet(Available \ {a, b, c})
                /\ Cardinality(Available \ {a, b, c}) = C - 3
  <2>1. Available \ {a, b, c} = (Available \ {a, b}) \ {c}
    OBVIOUS
  <2> HIDE DEF a, b, C
  <2> QED
    BY <1>0, <1>2, <2>1, TakeOne
<1>4. C >= 4 => d \in Available \ {a, b, c}
  <2> HIDE DEF a, b, c, C
  <2> QED
    BY <1>0, <1>3, TakeOne
<1>5. Block(1) = a /\ Block(2) = b /\ Block(3) = c /\ Block(4) = d
  BY DEF Block
<1>6. n <= C
  OBVIOUS
<1> HIDE DEF a, b, c, d, C
<1> QED
  BY <1>0, <1>1, <1>2, <1>3, <1>4, <1>5, <1>6

-----------------------------------------------------------------------------
(* Type correctness.                                                       *)

FileType == present \in {"yes", "unmapped", "no"} /\ open \in BOOLEAN
FmtType  == target \in [w : Nat, h : Nat] /\ buf_size \in Nat /\ bytesperline \in Nat
MemType  == /\ img \in [Bufs -> {Nil} \cup Blocks] /\ addr \in [Bufs -> {Nil} \cup Blocks]
            /\ pages \in [Blocks -> 0 .. MaxOrder]
RegType  == /\ sc \in [h : Ratios \cup {0}, v : Ratios \cup {0}]
            /\ ctrl \subseteq [w : Nat, h : Nat, mainH : Nat, mainV : Nat]
            /\ burst \in [main : {0, 4, 8, 16}, rest : 0 .. 16]
            /\ enabled \in BOOLEAN /\ ev_cam \in BOOLEAN
ReadType == /\ pc \in [Threads -> {"run", "wait", "copy", "clear"}]
            /\ want \in [Threads -> Nat] /\ nextCopy \in [Threads -> Bufs]
HistType == /\ ready \in BOOLEAN /\ filled \in BOOLEAN /\ dangling \in BOOLEAN
            /\ misused \in BOOLEAN
            /\ fault \in {"none", "divide", "free", "irq", "copy"}

LEMMA TypeParts == TypeOK <=> FileType /\ FmtType /\ MemType /\ RegType /\ ReadType /\ HistType
  BY DEF TypeOK, FileType, FmtType, MemType, RegType, ReadType, HistType

LEMMA TypePartsNext ==
  FileType' /\ FmtType' /\ MemType' /\ RegType' /\ ReadType' /\ HistType' => TypeOK'
  BY DEF TypeOK, FileType, FmtType, MemType, RegType, ReadType, HistType

(* What STREAMON writes.                                                   *)
LEMMA StreamonRegisters ==
  ASSUME FmtType, RegType, NEW t \in Threads, Streamon(t)
  PROVE  /\ RegType' /\ fault' \in {fault, "divide"}
         /\ fault' = "divide" => TinyTarget
         /\ ScalerFits => ScalerFits'
         /\ burst' = BurstOf(bytesperline)
<1> DEFINE h == Scale(SrcW, target.w, sc.h)
           v == Scale(SrcH, target.h, sc.v)
<1>1. SrcW \in Nat /\ SrcH \in Nat /\ target.w \in Nat /\ target.h \in Nat
  BY DEF FmtType, SrcW, SrcH
<1>2. h \in Ratios \cup {0} /\ v \in Ratios \cup {0}
  BY <1>1, ScaleType DEF RegType
<1>3. ~TinyTarget => /\ h \in Ratios /\ v \in Ratios
                     /\ target.w \in Nat \ {0} /\ target.h \in Nat \ {0}
                     /\ SrcW < 2 * h * target.w /\ SrcH < 2 * v * target.h
  <2> SUFFICES ASSUME ~TinyTarget
               PROVE  /\ h \in Ratios /\ v \in Ratios
                      /\ target.w \in Nat \ {0} /\ target.h \in Nat \ {0}
                      /\ SrcW < 2 * h * target.w /\ SrcH < 2 * v * target.h
    OBVIOUS
  <2>1. SrcW < 64 * target.w /\ SrcH < 64 * target.h
    BY <1>1 DEF TinyTarget, Tiny
  <2>2. target.w \in Nat \ {0} /\ target.h \in Nat \ {0}
    BY <1>1, <2>1 DEF SrcW, SrcH
  <2> QED
    BY <1>1, <2>1, <2>2, ScaleLaw
<1>4. /\ burst' = BurstOf(bytesperline) /\ burst' \in [main : {0, 4, 8, 16}, rest : 0 .. 16]
      /\ sc' = [h |-> h, v |-> v] /\ sc' \in [h : Ratios \cup {0}, v : Ratios \cup {0}]
  <2>1. burst' = BurstOf(bytesperline) /\ burst' \in [main : {0, 4, 8, 16}, rest : 0 .. 16]
    BY BurstLaw DEF Streamon, FmtType
  <2>2. sc' = [h |-> h, v |-> v]
    BY DEF Streamon
  <2> HIDE DEF h, v
  <2> QED
    BY <1>2, <2>1, <2>2
<1>5. CASE 0 \in {h, v, target.w, target.h}
  <2>1. TinyTarget
    BY <1>3, <1>5 DEF Ratios
  <2>2. fault' = "divide" /\ UNCHANGED <<ctrl, enabled, ev_cam>>
    BY <1>5 DEF Streamon
  <2> HIDE DEF h, v
  <2> QED
    BY <1>4, <2>1, <2>2 DEF RegType, ScalerFits, Tiny
<1>6. CASE 0 \notin {h, v, target.w, target.h}
  <2> DEFINE mh == MainRatio(SrcW, target.w, h)
             mv == MainRatio(SrcH, target.h, v)
             s  == [w |-> target.w, h |-> target.h, mainH |-> mh, mainV |-> mv]
  <2>1. /\ fault' = fault /\ ctrl' = ctrl \cup {s}
        /\ enabled' = TRUE /\ ev_cam' = ev_cam
    BY <1>6 DEF Streamon
  <2>2. mh \in Nat /\ mv \in Nat
    <3>1. h \in Ratios /\ v \in Ratios /\ target.w \in Nat \ {0} /\ target.h \in Nat \ {0}
      BY <1>1, <1>2, <1>6
    <3> HIDE DEF h, v
    <3>2. mh \in Nat
      BY <1>1, <3>1, MainLaw
    <3>3. mv \in Nat
      BY <1>1, <3>1, MainLaw
    <3> QED
      BY <3>2, <3>3
  <2>3. ~TinyTarget => mh < 512 /\ mv < 512
    <3> SUFFICES ASSUME ~TinyTarget PROVE mh < 512 /\ mv < 512
      OBVIOUS
    <3> HIDE DEF h, v
    <3>1. mh < 512
      BY <1>1, <1>3, MainLaw
    <3>2. mv < 512
      BY <1>1, <1>3, MainLaw
    <3> QED
      BY <3>1, <3>2
  <2>4. fault # "divide"
    BY DEF Streamon, Running
  <2> HIDE DEF h, v, mh, mv
  <2>5. s \in [w : Nat, h : Nat, mainH : Nat, mainV : Nat]
    BY <1>1, <2>2
  <2>6. Tiny(s) \/ (s.mainH < 512 /\ s.mainV < 512)
    BY <2>3 DEF TinyTarget, Tiny
  <2> HIDE DEF s
  <2>7. ScalerFits => ScalerFits'
    BY <2>1, <2>6 DEF ScalerFits, Tiny
  <2> QED
    BY <1>4, <2>1, <2>4, <2>5, <2>7 DEF RegType
<1> QED
  BY <1>5, <1>6

LEMMA IoctlTypes ==
  ASSUME TypeOK, NEW t \in Threads, Ioctl(t)
  PROVE  TypeOK'
<1> USE DEF Running, Misuse
<1>0. FileType /\ FmtType /\ MemType /\ RegType /\ ReadType /\ HistType
  BY TypeParts
<1>1. ASSUME NEW f \in Formats, SFmt(t, f) PROVE TypeOK'
  <2>1. FmtType'
    <3>1. f \in [w : Nat, h : Nat, bytes : {2, 4}]
      BY FormatsAssumption
    <3>2. f.w * f.bytes \in Nat /\ f.h * f.w * f.bytes \in Nat
      BY <3>1
    <3> QED
      BY <1>1, <3>1, <3>2 DEF SFmt, FmtType
  <2>2. FileType' /\ MemType' /\ RegType' /\ ReadType' /\ HistType'
    BY <1>0, <1>1 DEF SFmt, FileType, MemType, RegType, ReadType, HistType, memVars, regVars, readVars
  <2> QED
    BY <2>1, <2>2, TypePartsNext
<1>2. CASE Reqbufs(t)
  <2>1. MemType'
    <3>1. \A i \in Bufs : Block(i) \in Blocks
      BY <1>2, BlockLaw DEF Reqbufs, Available, Bufs
    <3>2. Order(buf_size) \in 0 .. MaxOrder
      BY <1>0, OrderLaw DEF FmtType
    <3> QED
      BY <1>0, <1>2, <3>1, <3>2 DEF Reqbufs, MemType
  <2>2. FileType' /\ FmtType' /\ RegType' /\ ReadType' /\ HistType'
    BY <1>0, <1>2 DEF Reqbufs, FileType, FmtType, RegType, ReadType, HistType, fmtVars, regVars, readVars
  <2> QED
    BY <2>1, <2>2, TypePartsNext
<1>3. ASSUME NEW n \in 0 .. 3, ReqbufsFails(t, n) PROVE TypeOK'
  <2>1. MemType'
    <3>1. \A i \in Bufs : i <= n => Block(i) \in Blocks
      BY <1>3, BlockLaw DEF ReqbufsFails, Available, Bufs
    <3> QED
      BY <1>0, <1>3, <3>1 DEF ReqbufsFails, MemType
  <2>2. FileType' /\ FmtType' /\ RegType' /\ ReadType' /\ HistType'
    BY <1>0, <1>3 DEF ReqbufsFails, FileType, FmtType, RegType, ReadType, HistType, fmtVars, regVars, readVars
  <2> QED
    BY <2>1, <2>2, TypePartsNext
<1>4. CASE Streamon(t)
  <2>1. RegType' /\ fault' \in {fault, "divide"}
    BY <1>0, <1>4, StreamonRegisters DEF Streamon
  <2>2. FileType' /\ FmtType' /\ MemType' /\ ReadType' /\ HistType'
    BY <1>0, <1>4, <2>1 DEF Streamon, FileType, FmtType, MemType, ReadType, HistType, fmtVars, memVars, readVars
  <2> QED
    BY <2>1, <2>2, TypePartsNext
<1>5. CASE Streamoff(t)
  <2>1. RegType'
    BY <1>0, <1>5 DEF Streamoff, RegType
  <2>2. FileType' /\ FmtType' /\ MemType' /\ ReadType' /\ HistType'
    BY <1>0, <1>5 DEF Streamoff, FileType, FmtType, MemType, ReadType, HistType, fmtVars, memVars, readVars
  <2> QED
    BY <2>1, <2>2, TypePartsNext
<1> QED
  BY <1>1, <1>2, <1>3, <1>4, <1>5 DEF Ioctl

LEMMA OtherTypes ==
  ASSUME TypeOK,
         \/ OpenFile \/ CloseFile \/ FrameEnd \/ RemoveUnmaps \/ RemoveFrees \/ Probe
         \/ \E t \in Threads : Read(t)
  PROVE  TypeOK'
<1> USE DEF Running, Misuse, fmtVars, memVars, regVars, readVars
<1>0. FileType /\ FmtType /\ MemType /\ RegType /\ ReadType /\ HistType
  BY TypeParts
<1>1. CASE OpenFile \/ CloseFile \/ FrameEnd \/ RemoveUnmaps \/ Probe
  <2> USE DEF OpenFile, CloseFile, FrameEnd, RemoveUnmaps, Probe
  <2>1. FmtType' /\ MemType' /\ ReadType'
    BY <1>0, <1>1 DEF FmtType, MemType, ReadType
  <2>2. FileType'
    BY <1>0, <1>1 DEF FileType
  <2>3. RegType'
    BY <1>0, <1>1 DEF RegType
  <2>4. HistType'
    <3>1. CASE OpenFile \/ RemoveUnmaps \/ CloseFile
      BY <1>0, <3>1 DEF HistType
    <3>2. CASE FrameEnd \/ Probe
      BY <1>0, <3>2 DEF HistType
    <3> QED
      BY <1>1, <3>1, <3>2
  <2> QED
    BY <2>1, <2>2, <2>3, <2>4, TypePartsNext
<1>2. CASE RemoveFrees
  <2>1. MemType'
    BY <1>0, <1>2 DEF RemoveFrees, MemType, Free, MaxOrder
  <2>2. FileType' /\ HistType'
    BY <1>0, <1>2 DEF RemoveFrees, FileType, HistType
  <2>3. FmtType' /\ RegType' /\ ReadType'
    BY <1>0, <1>2 DEF RemoveFrees, FmtType, RegType, ReadType
  <2> QED
    BY <2>1, <2>2, <2>3, TypePartsNext
<1>3. ASSUME NEW t \in Threads, Read(t) PROVE TypeOK'
  <2>1. CASE ReadCall(t)
    <3>1. ReadType'
      BY <1>0, <2>1 DEF ReadCall, FmtType, ReadType, Bufs
    <3>2. HistType'
      BY <1>0, <2>1 DEF ReadCall, HistType
    <3>3. FileType' /\ FmtType' /\ MemType' /\ RegType'
      BY <1>0, <2>1 DEF ReadCall, FileType, FmtType, MemType, RegType
    <3> QED
      BY <3>1, <3>2, <3>3, TypePartsNext
  <2>2. CASE ReadWakes(t) \/ ReadInterrupted(t)
    <3>1. ReadType' /\ HistType'
      BY <1>0, <2>2 DEF ReadWakes, ReadInterrupted, WaitEnds, ReadType, HistType, Bufs
    <3>2. FileType' /\ FmtType' /\ MemType' /\ RegType'
      BY <1>0, <2>2 DEF ReadWakes, ReadInterrupted, WaitEnds, FileType, FmtType, MemType, RegType
    <3> QED
      BY <3>1, <3>2, TypePartsNext
  <2>3. CASE ReadCopy(t)
    <3>0. HistType'
      <4>1. fault' \in {"none", "copy"}
        BY <2>3 DEF ReadCopy
      <4> QED
        BY <1>0, <2>3, <4>1 DEF ReadCopy, HistType
    <3>1. ReadType'
      <4>1. CASE nextCopy[t] < 4
        BY <1>0, <2>3, <4>1 DEF ReadCopy, ReadType, Bufs
      <4>2. CASE ~(nextCopy[t] < 4)
        BY <1>0, <2>3, <4>2 DEF ReadCopy, ReadType, Bufs
      <4> QED
        BY <4>1, <4>2
    <3>2. FileType' /\ FmtType' /\ MemType' /\ RegType'
      BY <1>0, <2>3 DEF ReadCopy, FileType, FmtType, MemType, RegType
    <3> QED
      BY <3>0, <3>1, <3>2, TypePartsNext
  <2>4. CASE ReadReturns(t)
    <3>1. ReadType' /\ HistType'
      BY <1>0, <2>4 DEF ReadReturns, ReadType, HistType, Bufs
    <3>2. FileType' /\ FmtType' /\ MemType' /\ RegType'
      BY <1>0, <2>4 DEF ReadReturns, FileType, FmtType, MemType, RegType
    <3> QED
      BY <3>1, <3>2, TypePartsNext
  <2>5. CASE ReadFails(t)
    <3>1. ReadType' /\ HistType'
      BY <1>0, <2>5 DEF ReadFails, ReadType, HistType, Bufs
    <3>2. FileType' /\ FmtType' /\ MemType' /\ RegType'
      BY <1>0, <2>5 DEF ReadFails, FileType, FmtType, MemType, RegType
    <3> QED
      BY <3>1, <3>2, TypePartsNext
  <2> QED
    BY <1>3, <2>1, <2>2, <2>3, <2>4, <2>5 DEF Read
<1> QED
  BY <1>1, <1>2, <1>3

LEMMA InitTypes == Init => TypeOK
<1> SUFFICES ASSUME Init PROVE TypeOK
  OBVIOUS
<1>1. FileType /\ FmtType /\ HistType
  BY DEF Init, FileType, FmtType, HistType
<1>2. MemType /\ ReadType
  <2>1. MemType
    BY DEF Init, MemType, Free, MaxOrder
  <2>2. ReadType
    BY DEF Init, ReadType, Bufs
  <2> QED
    BY <2>1, <2>2
<1>3. RegType
  <2>1. /\ sc \in [h : Ratios \cup {0}, v : Ratios \cup {0}]
        /\ ctrl \subseteq [w : Nat, h : Nat, mainH : Nat, mainV : Nat]
    BY DEF Init
  <2>2. burst \in [main : {0, 4, 8, 16}, rest : 0 .. 16]
    BY DEF Init
  <2> QED
    BY <2>1, <2>2 DEF Init, RegType
<1> QED
  BY <1>1, <1>2, <1>3, TypeParts

LEMMA StepTypes == TypeOK /\ [Next]_vars => TypeOK'
<1> SUFFICES ASSUME TypeOK, [Next]_vars PROVE TypeOK'
  OBVIOUS
<1>1. CASE UNCHANGED vars
  BY <1>1 DEF vars, fmtVars, memVars, regVars, readVars, TypeOK
<1> QED
  BY <1>1, IoctlTypes, OtherTypes DEF Next

(* The driver's variables keep their types, for any formats and any memory. *)
THEOREM TypeCorrect == Spec => []TypeOK
  BY InitTypes, StepTypes, PTL DEF Spec

-----------------------------------------------------------------------------
(* Memory.                                                                 *)

(* The camera runs only for an open file of a bound driver, and so does a  *)
(* read, unless the calls were misused.                                    *)
SessionInv ==
  /\ open => present = "yes"
  /\ (enabled /\ ~misused) => open
  /\ \A t \in Threads : pc[t] # "run" => open

(* While a REQBUFS stands, the camera and read() are at the same four      *)
(* blocks, which hold a frame of the format.                               *)
ReadyInv ==
  ready => \A i \in Bufs : addr[i] = img[i] /\ Reachable(addr[i], buf_size)

(* A read goes on with the format it started with.                         *)
ReadInv ==
  ~misused => \A t \in Threads :
    pc[t] # "run" => want[t] = buf_size /\ (ready \/ dangling)

MInv == /\ SessionInv /\ ReadyInv /\ ReadInv
        /\ OwnPages /\ DmaInside /\ NoFault

LEMMA InitMInv == Init => MInv
  BY DEF Init, MInv, SessionInv, ReadyInv, ReadInv, OwnPages, DmaInside, NoFault

(* Memory and formats as they were.                                        *)
LEMMA SameMemory ==
  ASSUME UNCHANGED <<memVars, buf_size>>
  PROVE  /\ \A b, size : Reachable(b, size)' <=> Reachable(b, size)
         /\ Order(buf_size)' = Order(buf_size)
  BY DEF memVars, Reachable

LEMMA SFmtKeeps ==
  ASSUME TypeOK, MInv, NEW t \in Threads, NEW f \in Formats, SFmt(t, f)
  PROVE  MInv'
<1> USE DEF MInv, SFmt, Running, Misuse, memVars, readVars, regVars
<1>1. SessionInv' /\ ReadyInv'
  BY DEF SessionInv, ReadyInv
<1>2. ReadInv'
  BY DEF ReadInv, Reading
<1>3. OwnPages'
  BY DEF OwnPages
<1>4. DmaInside'
  BY DEF DmaInside
<1>5. NoFault'
  BY DEF NoFault
<1> QED
  BY <1>1, <1>2, <1>3, <1>4, <1>5

LEMMA ReqbufsKeeps ==
  ASSUME TypeOK, MInv, NEW t \in Threads, Reqbufs(t)
  PROVE  MInv'
<1> USE DEF MInv, Running
<1>1. /\ \A i \in Bufs : Block(i) \in Available
      /\ \A i, j \in Bufs : i # j => Block(i) # Block(j)
  BY BlockLaw DEF Reqbufs, Bufs
<1>2. buf_size \in Nat /\ Order(buf_size) # Free /\ Holds(Order(buf_size), buf_size)
  BY OrderLaw DEF Reqbufs, TypeOK, Free
<1>3. \A i \in Bufs : /\ img'[i] = Block(i) /\ addr'[i] = Block(i)
                      /\ Block(i) \in Blocks /\ Block(i) # Nil
                      /\ pages'[Block(i)] = Order(buf_size)
  BY <1>1, BlocksAssumption DEF Reqbufs, Available, Nil
<1>4. buf_size' = buf_size /\ UNCHANGED <<present, open, enabled, misused, pc, want, target, fault>>
  BY DEF Reqbufs, fmtVars, regVars, readVars
<1>5. \A i \in Bufs : addr'[i] = img'[i] /\ Reachable(addr[i], buf_size)'
  BY <1>2, <1>3, <1>4 DEF Reachable
<1>6. SessionInv'
  BY <1>4 DEF SessionInv
<1>7. ReadyInv' /\ DmaInside'
  BY <1>5 DEF ReadyInv, DmaInside
<1>8. ReadInv'
  BY <1>4 DEF ReadInv, Reqbufs
<1>9. OwnPages'
  BY <1>1, <1>2, <1>3, <1>4 DEF OwnPages
<1>10. NoFault'
  BY <1>4 DEF NoFault, Reqbufs
<1> QED
  BY <1>6, <1>7, <1>8, <1>9, <1>10

LEMMA ReqbufsFailsKeeps ==
  ASSUME TypeOK, MInv, NEW t \in Threads, NEW n \in 0 .. 3, ReqbufsFails(t, n)
  PROVE  MInv'
<1> USE DEF MInv, Running, ReqbufsFails, fmtVars, regVars, readVars
<1>1. SessionInv' /\ ReadyInv'
  BY DEF SessionInv, ReadyInv
<1>2. ReadInv'
  BY DEF ReadInv
<1>3. OwnPages'
  BY DEF OwnPages
<1>4. DmaInside'
  BY DEF DmaInside, Reachable
<1>5. NoFault'
  BY DEF NoFault
<1> QED
  BY <1>1, <1>2, <1>3, <1>4, <1>5

LEMMA StreamonKeeps ==
  ASSUME TypeOK, MInv, NEW t \in Threads, Streamon(t)
  PROVE  MInv'
<1>0. /\ UNCHANGED <<present, open, target, buf_size, img, pages, addr, pc, want, ready, dangling>>
      /\ fault = "none" /\ open /\ misused' = (misused \/ ~ready)
  BY DEF Streamon, Running, Misuse, fmtVars, memVars, readVars
<1>1. fault' \in {"none", "divide"} /\ (fault' = "divide" => TinyTarget)
  BY <1>0, StreamonRegisters, TypeParts
<1>2. SessionInv' /\ ReadyInv' /\ ReadInv'
  BY <1>0 DEF MInv, SessionInv, ReadyInv, ReadInv, Reachable
<1>3. OwnPages'
  BY <1>0 DEF MInv, OwnPages
<1>4. DmaInside'
  BY <1>0 DEF MInv, ReadyInv, DmaInside, Reachable
<1>5. NoFault'
  BY <1>0, <1>1 DEF NoFault, TinyTarget, Tiny
<1> QED
  BY <1>2, <1>3, <1>4, <1>5 DEF MInv

(* Steps that touch neither memory nor formats, nor start anything.        *)
LEMMA QuietKeeps ==
  ASSUME MInv,
         UNCHANGED <<target, buf_size, img, pages, addr, pc, want, ready, dangling, misused>>,
         enabled' => enabled, fault' = fault,
         \/ UNCHANGED <<present, open>>
         \/ present = "yes" /\ present' = present /\ open'
         \/ present' = "unmapped" /\ present = "yes" /\ ~open /\ ~open'
  PROVE  MInv'
<1>1. SessionInv'
  BY DEF MInv, SessionInv
<1>2. ReadyInv' /\ ReadInv' /\ DmaInside'
  BY DEF MInv, ReadyInv, ReadInv, DmaInside, Reachable
<1>3. OwnPages'
  BY DEF MInv, OwnPages
<1>4. NoFault'
  BY DEF MInv, NoFault, TinyTarget
<1> QED
  BY <1>1, <1>2, <1>3, <1>4 DEF MInv

LEMMA CloseKeeps ==
  ASSUME MInv, CloseFile
  PROVE  MInv'
<1> USE DEF CloseFile, Misuse, MInv, fmtVars, memVars, regVars, readVars
<1>1. SessionInv'
  BY DEF SessionInv, Reading
<1>2. ReadyInv' /\ ReadInv' /\ DmaInside'
  BY DEF ReadyInv, ReadInv, DmaInside, Reachable
<1>3. OwnPages'
  BY DEF OwnPages
<1>4. NoFault'
  BY DEF NoFault, TinyTarget, Tiny
<1> QED
  BY <1>1, <1>2, <1>3, <1>4

LEMMA FrameEndKeeps ==
  ASSUME TypeOK, MInv, FrameEnd
  PROVE  MInv'
<1>1. CASE present = "unmapped"
  <2>1. enabled /\ misused
    BY <1>1 DEF FrameEnd, MInv, SessionInv
  <2>2. SessionInv' /\ ReadyInv' /\ ReadInv' /\ DmaInside'
    BY <1>1, <2>1 DEF FrameEnd, MInv, SessionInv, ReadyInv, ReadInv, DmaInside, Reachable, fmtVars, memVars, regVars, readVars
  <2>3. OwnPages' /\ NoFault'
    BY <1>1, <2>1 DEF FrameEnd, MInv, OwnPages, NoFault, TinyTarget, Tiny, fmtVars, memVars
  <2> QED
    BY <2>2, <2>3 DEF MInv
<1>2. CASE present # "unmapped"
  BY <1>2, QuietKeeps DEF FrameEnd, fmtVars, memVars, regVars, readVars
<1> QED
  BY <1>1, <1>2

LEMMA ReadKeeps ==
  ASSUME TypeOK, MInv, NEW t \in Threads, Read(t)
  PROVE  MInv'
<1>0. /\ UNCHANGED <<present, open, target, buf_size, img, pages, addr, enabled, ready, dangling>>
      /\ fault = "none" /\ fault' \in {"none", "copy"}
      /\ (misused => misused') /\ (fault' = "copy" => ReadCopy(t))
  <2> USE DEF fmtVars, memVars, regVars
  <2>1. CASE ReadCall(t)
    BY <2>1 DEF ReadCall, Running, Misuse
  <2>2. CASE ReadWakes(t) \/ ReadInterrupted(t)
    BY <2>2 DEF ReadWakes, ReadInterrupted, WaitEnds
  <2>3. CASE ReadCopy(t)
    <3>1. fault' \in {"none", "copy"}
      BY <2>3 DEF ReadCopy
    <3> QED
      BY <2>3, <3>1 DEF ReadCopy
  <2>4. CASE ReadReturns(t)
    BY <2>4 DEF ReadReturns
  <2>5. CASE ReadFails(t)
    BY <2>5 DEF ReadFails
  <2> QED
    BY <2>1, <2>2, <2>3, <2>4, <2>5 DEF Read
<1>1. /\ \A u \in Threads \ {t} : pc'[u] = pc[u] /\ want'[u] = want[u]
      /\ pc'[t] # "run" => /\ open
                           /\ \/ pc[t] # "run" /\ want'[t] = want[t]
                              \/ want'[t] = buf_size /\ (misused' \/ ready)
  <2>1. pc \in [Threads -> {"run", "wait", "copy", "clear"}] /\ want \in [Threads -> Nat]
    BY DEF TypeOK
  <2>2. CASE ReadCall(t)
    BY <2>1, <2>2 DEF ReadCall, Running, Misuse
  <2>3. CASE ReadWakes(t) \/ ReadInterrupted(t)
    BY <2>1, <2>3 DEF ReadWakes, ReadInterrupted, WaitEnds, MInv, SessionInv
  <2>4. CASE ReadCopy(t)
    BY <2>1, <2>4 DEF ReadCopy, MInv, SessionInv
  <2>5. CASE ReadReturns(t)
    BY <2>1, <2>5 DEF ReadReturns
  <2>6. CASE ReadFails(t)
    BY <2>1, <2>6 DEF ReadFails
  <2> QED
    BY <2>2, <2>3, <2>4, <2>5, <2>6 DEF Read
<1>2. SessionInv' /\ ReadyInv'
  BY <1>0, <1>1 DEF MInv, SessionInv, ReadyInv, Reachable
<1>3. ReadInv'
  BY <1>0, <1>1 DEF MInv, ReadInv
<1>4. OwnPages' /\ DmaInside'
  BY <1>0 DEF MInv, OwnPages, DmaInside, Reachable
<1>5. NoFault'
  <2>1. ASSUME fault' = "copy", ~misused, ~dangling PROVE FALSE
    <3>1. want[t] = buf_size /\ ready
      BY <1>0, <2>1 DEF MInv, ReadInv, ReadCopy
    <3>2. nextCopy[t] \in Bufs
      BY DEF TypeOK
    <3>3. Reachable(img[nextCopy[t]], want[t])
      BY <3>1, <3>2 DEF MInv, ReadyInv
    <3> QED
      BY <1>0, <2>1, <3>3 DEF ReadCopy
  <2> QED
    BY <1>0, <2>1 DEF NoFault
<1> QED
  BY <1>2, <1>3, <1>4, <1>5 DEF MInv

LEMMA RemoveFreesKeeps ==
  ASSUME TypeOK, MInv, RemoveFrees
  PROVE  MInv'
<1> USE DEF MInv
<1>1. ~open /\ (enabled => misused) /\ \A t \in Threads : pc[t] = "run"
  BY DEF RemoveFrees, SessionInv
<1>2. /\ UNCHANGED <<open, target, buf_size, img, addr, enabled, pc, want, dangling>>
      /\ present' = "no" /\ ~ready' /\ (misused => misused')
  BY DEF RemoveFrees, Misuse, fmtVars, regVars, readVars
<1>3. SessionInv' /\ ReadyInv' /\ ReadInv' /\ OwnPages' /\ DmaInside'
  BY <1>1, <1>2 DEF SessionInv, ReadyInv, ReadInv, OwnPages, DmaInside
<1>4. ASSUME ~misused', ~dangling PROVE ~WrongFree
  <2>1. ready \/ Freed = {}
    BY <1>4 DEF RemoveFrees, Misuse
  <2>2. CASE Freed = {}
    BY <2>2 DEF WrongFree, Freed
  <2>3. CASE ready
    <3>1. \A i \in Bufs : img[i] # Nil =>
             /\ pages[img[i]] # Free /\ pages[img[i]] = Order(buf_size)
             /\ \A j \in Bufs \ {i} : img[j] # img[i]
      BY <1>4, <2>3 DEF OwnPages, RemoveFrees
    <3> QED
      BY <3>1 DEF WrongFree, Freed
  <2> QED
    BY <2>1, <2>2, <2>3
<1>5. NoFault'
  BY <1>2, <1>4 DEF NoFault, RemoveFrees
<1> QED
  BY <1>3, <1>5

LEMMA ProbeKeeps ==
  ASSUME TypeOK, MInv, Probe
  PROVE  MInv'
<1> USE DEF MInv, Probe, fmtVars, memVars, readVars
<1>1. SessionInv' /\ ReadyInv' /\ ReadInv' /\ DmaInside'
  BY DEF SessionInv, ReadyInv, ReadInv, DmaInside, Reachable
<1>2. OwnPages'
  BY DEF OwnPages, Freed
<1>3. NoFault'
  BY DEF NoFault, TinyTarget, Tiny
<1> QED
  BY <1>1, <1>2, <1>3

LEMMA StepMInv == TypeOK /\ MInv /\ [Next]_vars => MInv'
<1> SUFFICES ASSUME TypeOK, MInv, [Next]_vars PROVE MInv'
  OBVIOUS
<1> USE DEF fmtVars, memVars, regVars, readVars
<1>1. CASE UNCHANGED vars
  BY <1>1, QuietKeeps DEF vars
<1>2. CASE OpenFile
  BY <1>2, QuietKeeps DEF OpenFile
<1>3. CASE RemoveUnmaps
  BY <1>3, QuietKeeps DEF RemoveUnmaps
<1>4. ASSUME NEW t \in Threads, Ioctl(t) PROVE MInv'
  <2>1. CASE Streamoff(t)
    BY <2>1, QuietKeeps DEF Streamoff
  <2> QED
    BY <1>4, <2>1, SFmtKeeps, ReqbufsKeeps, ReqbufsFailsKeeps, StreamonKeeps DEF Ioctl
<1> QED
  BY <1>1, <1>2, <1>3, <1>4, CloseKeeps, FrameEndKeeps, ReadKeeps, RemoveFreesKeeps, ProbeKeeps
     DEF Next

(* While the camera runs it writes into blocks that are allocated and hold *)
(* a frame, for any formats and any page allocator.                        *)
THEOREM DmaSafe == Spec => []DmaInside
<1>1. MInv => DmaInside
  BY DEF MInv
<1> QED
  BY <1>1, InitTypes, InitMInv, StepTypes, StepMInv, PTL DEF Spec

(* The buffers the driver frees are the ones it allocated, with their      *)
(* order, until a REQBUFS has failed or the driver was unbound.            *)
THEOREM PagesOwned == Spec => []OwnPages
<1>1. MInv => OwnPages
  BY DEF MInv
<1> QED
  BY <1>1, InitTypes, InitMInv, StepTypes, StepMInv, PTL DEF Spec

(* Every fault has one of the known causes.                                *)
THEOREM FaultsExplained == Spec => []NoFault
<1>1. MInv => NoFault
  BY DEF MInv
<1> QED
  BY <1>1, InitTypes, InitMInv, StepTypes, StepMInv, PTL DEF Spec

-----------------------------------------------------------------------------
(* Registers.                                                              *)

(* What else there is leaves these registers alone; and if the camera runs *)
(* after it without misuse, it ran before, with the same format.           *)
SameRegisters == ctrl' \subseteq ctrl /\ burst' = burst
SameStream    == (enabled' /\ ~misused') =>
                    enabled /\ ~misused /\ UNCHANGED <<target, bytesperline>>

LEMMA OtherRegisters ==
  ASSUME Next, ~\E t \in Threads : Streamon(t)
  PROVE  SameRegisters /\ SameStream
<1> USE DEF fmtVars, memVars, regVars, readVars, Misuse, SameRegisters, SameStream
<1>1. CASE OpenFile \/ FrameEnd \/ RemoveUnmaps
  BY <1>1 DEF OpenFile, FrameEnd, RemoveUnmaps
<1>2. CASE CloseFile
  BY <1>2 DEF CloseFile
<1>3. CASE RemoveFrees
  BY <1>3 DEF RemoveFrees
<1>4. CASE Probe
  BY <1>4 DEF Probe
<1>5. ASSUME NEW t \in Threads, Ioctl(t) PROVE SameRegisters /\ SameStream
  <2>1. ASSUME NEW f \in Formats, SFmt(t, f) PROVE SameRegisters /\ SameStream
    BY <2>1 DEF SFmt
  <2>2. CASE Reqbufs(t)
    BY <2>2 DEF Reqbufs
  <2>3. ASSUME NEW n \in 0 .. 3, ReqbufsFails(t, n) PROVE SameRegisters /\ SameStream
    BY <2>3 DEF ReqbufsFails
  <2>4. CASE Streamoff(t)
    BY <2>4 DEF Streamoff
  <2> QED
    BY <1>5, <2>1, <2>2, <2>3, <2>4 DEF Ioctl
<1>6. ASSUME NEW t \in Threads, Read(t) PROVE SameRegisters /\ SameStream
  <2>1. CASE ReadCall(t)
    BY <2>1 DEF ReadCall
  <2>2. CASE ReadWakes(t) \/ ReadInterrupted(t)
    BY <2>2 DEF ReadWakes, ReadInterrupted, WaitEnds
  <2>3. CASE ReadCopy(t)
    BY <2>3 DEF ReadCopy
  <2>4. CASE ReadReturns(t)
    BY <2>4 DEF ReadReturns
  <2>5. CASE ReadFails(t)
    BY <2>5 DEF ReadFails
  <2> QED
    BY <1>6, <2>1, <2>2, <2>3, <2>4, <2>5 DEF Read
<1> QED
  BY <1>1, <1>2, <1>3, <1>4, <1>5, <1>6 DEF Next

RegInv == ScalerFits /\ BurstCovers

LEMMA StepRegInv == TypeOK /\ RegInv /\ [Next]_vars => RegInv'
<1> SUFFICES ASSUME TypeOK, RegInv, [Next]_vars PROVE RegInv'
  OBVIOUS
<1>1. CASE UNCHANGED vars
  BY <1>1 DEF vars, fmtVars, regVars, RegInv, ScalerFits, BurstCovers, Tiny
<1>2. CASE Next /\ ~\E t \in Threads : Streamon(t)
  <2>1. ScalerFits'
    BY <1>2, OtherRegisters DEF SameRegisters, RegInv, ScalerFits, Tiny
  <2>2. BurstCovers'
    BY <1>2, OtherRegisters DEF SameRegisters, SameStream, RegInv, BurstCovers
  <2> QED
    BY <2>1, <2>2 DEF RegInv
<1>3. ASSUME NEW t \in Threads, Streamon(t) PROVE RegInv'
  <2>0. /\ target' = target /\ bytesperline' = bytesperline /\ bytesperline \in Nat
        /\ burst' = BurstOf(bytesperline)
        /\ ScalerFits'
    BY <1>3, StreamonRegisters, TypeParts DEF Streamon, fmtVars, FmtType, RegInv
  <2>1. ScalerFits'
    BY <2>0
  <2>2. BurstCovers'
    BY <2>0, BurstLaw DEF BurstCovers
  <2> QED
    BY <2>1, <2>2 DEF RegInv
<1> QED
  BY <1>1, <1>2, <1>3

LEMMA InitRegInv == Init => RegInv
  BY DEF Init, RegInv, ScalerFits, BurstCovers

(* What any number of streams or-ed into CIPRSCCTRL stays in the nine bits *)
(* of the main ratios, for every target above a 64th of the sensor's.      *)
THEOREM ScalerCorrect == Spec => []ScalerFits
<1>1. RegInv => ScalerFits
  BY DEF RegInv
<1> QED
  BY <1>1, InitTypes, InitRegInv, StepTypes, StepRegInv, PTL DEF Spec

(* The two burst lengths add up to a line, for lines of every length.      *)
THEOREM BurstCorrect == Spec => []BurstCovers
<1>1. RegInv => BurstCovers
  BY DEF RegInv
<1> QED
  BY <1>1, InitTypes, InitRegInv, StepTypes, StepRegInv, PTL DEF Spec
=============================================================================
