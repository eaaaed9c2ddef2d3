---------------------------- MODULE I2cBusProofs ----------------------------
(***************************************************************************)
(* Theorems about I2cBus, for every set of transfers.                      *)
(***************************************************************************)
EXTENDS I2cBus, TLAPS

-----------------------------------------------------------------------------
(* Lemmas about the sequence of buffer indices and about messages.         *)

(* Moving index n after 0 .. n-1 gives 0 .. n.                             *)
LEMMA InOrderAppend ==
  ASSUME NEW n \in Nat
  PROVE  Append(InOrder(n), n) = InOrder(n + 1)
<1>1. InOrder(n) \in Seq(Int) /\ Len(InOrder(n)) = n
  BY DEF InOrder
<1>2. InOrder(n + 1) \in Seq(Int) /\ Len(InOrder(n + 1)) = n + 1
  BY DEF InOrder
<1>3. Append(InOrder(n), n) \in Seq(Int) /\ Len(Append(InOrder(n), n)) = n + 1
  BY <1>1
<1>4. ASSUME NEW i \in 1 .. n + 1
      PROVE  Append(InOrder(n), n)[i] = InOrder(n + 1)[i]
  BY <1>1 DEF InOrder
<1> QED
  BY <1>2, <1>3, <1>4

LEMMA InOrderZero == InOrder(0) = << >>
  BY DEF InOrder

(* What the assumption on the transfers says of one of them.               *)
LEMMA Bounds == MaxMsgs \in Nat
  BY TransfersAssumption

LEMMA TransferType ==
  ASSUME NEW t \in Transfers
  PROVE  t \in Seq(Message) /\ Len(t) \in Nat /\ 1 <= Len(t) /\ Len(t) <= MaxMsgs
<1>1. t \in Seq(Message) /\ Len(t) \in 1 .. MaxMsgs
  BY TransfersAssumption
<1> QED
  BY <1>1, Bounds

(* The message under the cursor is a message of the call.                  *)
LEMMA MessageType ==
  ASSUME NEW t \in Transfers, NEW k \in Nat, k < Len(t)
  PROVE  t[k + 1].rd \in BOOLEAN /\ t[k + 1].len \in Nat
<1>1. k + 1 \in 1 .. Len(t)
  BY TransferType
<1>2. t[k + 1] \in Message
  BY <1>1, TransferType
<1> QED
  BY <1>2 DEF Message

-----------------------------------------------------------------------------
(* Type correctness of the driver, the controller and the history.         *)
THEOREM TypeCorrect == Spec => []TypeOK
<1>1. Init => TypeOK
  <2> SUFFICES ASSUME Init PROVE TypeOK
    OBVIOUS
  <2>1. moved \in [MsgIndex -> Seq(Nat)]
    BY DEF Init
  <2>2. msn_num \in 0 .. MaxMsgs /\ cur_msg \in MsgIndex /\ cur_ptr \in Nat
    BY Bounds DEF Init, MsgIndex
  <2> QED
    BY <2>1, <2>2 DEF Init, TypeOK, States
<1>2. TypeOK /\ [Next]_vars => TypeOK'
  <2> SUFFICES ASSUME TypeOK, [Next]_vars PROVE TypeOK'
    OBVIOUS
  <2>1. CASE Call
    <3>1. PICK t \in Transfers : SetMsgs(t)
      BY <2>1 DEF Call
    <3>2. UNCHANGED <<ret, msn_num, cur_msg, cur_ptr, state, err, bus, ack, clocked, moved, nacked>>
      BY <3>1 DEF SetMsgs, hwVars
    <3>3. pc' = "set_num" /\ msgs' \in Transfers /\ msgAt' = 0 /\ late' = FALSE
      BY <3>1 DEF SetMsgs
    <3> QED
      BY <3>2, <3>3 DEF TypeOK, Setup
  <2>2. CASE Process
    <3>1. CASE SetNum
      BY <3>1, TransferType, Bounds DEF SetNum, TypeOK, Setup, States, MsgIndex, hwVars, history
    <3>2. CASE SetCurMsg
      BY <3>2, Bounds DEF SetCurMsg, TypeOK, Setup, States, MsgIndex, hwVars, history
    <3>2a. CASE SetCurPtr
      BY <3>2a DEF SetCurPtr, TypeOK, Setup, States, hwVars, history
    <3>2b. CASE SetErr
      BY <3>2b DEF SetErr, TypeOK, Setup, States, hwVars, history
    <3>2c. CASE StartState
      BY <3>2c DEF StartState, TypeOK, Setup, States, hwVars, history
    <3>3. CASE StartHw
      <4>1. moved' \in [MsgIndex -> Seq(Nat)]
        BY <3>3 DEF StartHw
      <4>2. UNCHANGED <<msgs, msgAt, msn_num, cur_msg, cur_ptr, state, err, ack, late>>
        BY <3>3 DEF StartHw, xferVars
      <4> QED
        BY <3>3, <4>1, <4>2 DEF StartHw, TypeOK, Setup
    <3>4. CASE Return \/ Timeout
      BY <3>4 DEF Return, Timeout, TypeOK, Setup, States, MsgIndex, xferVars, hwVars, history
    <3> QED
      BY <2>2, <3>1, <3>2, <3>2a, <3>2b, <3>2c, <3>3, <3>4 DEF Process
  <2>3. CASE Irq
    <3> DEFINE DriverOK == /\ msgAt \in Nat /\ cur_msg \in MsgIndex /\ cur_ptr \in Nat
                           /\ state \in States /\ err \in {"OK", "ENODEV"}
               ControllerOK == /\ bus \in {"quiet", "addr", "byte"}
                               /\ ack \in BOOLEAN /\ clocked \in Nat
               HistoryOK == moved \in [MsgIndex -> Seq(Nat)] /\ nacked \in BOOLEAN
    <3>1. DriverOK /\ ControllerOK /\ HistoryOK
      BY DEF TypeOK
    <3>2. ASSUME NEW p \in Nat, Move(p) PROVE moved' \in [MsgIndex -> Seq(Nat)]
      BY <3>1, <3>2 DEF Move
    <3>3. ASSUME NEW p \in Nat, EndOfMessage(p) PROVE DriverOK' /\ ControllerOK'
      <4>1. CASE StartNextMsg
        <5>1. cur_msg + 1 \in MsgIndex
          BY <3>1, <4>1, Bounds DEF StartNextMsg, MsgIndex
        <5> QED
          BY <3>1, <4>1, <5>1 DEF StartNextMsg, States
      <4>2. CASE Stop("OK") /\ cur_ptr' = p /\ UNCHANGED <<msgAt, cur_msg>>
        BY <3>1, <4>2 DEF Stop, States
      <4> QED
        BY <3>3, <4>1, <4>2 DEF EndOfMessage
    <3>4. ASSUME Refused PROVE DriverOK' /\ ControllerOK' /\ HistoryOK'
      BY <3>1, <3>4 DEF Refused, Stop, States
    <3>5. ASSUME NEW m, WriteNext(m) PROVE DriverOK' /\ ControllerOK' /\ HistoryOK'
      <4>1. CASE /\ Move(cur_ptr) /\ cur_ptr' = cur_ptr + 1
                 /\ state' = "WRITE" /\ bus' = "byte" /\ ack' = TRUE /\ clocked' = clocked + 1
                 /\ UNCHANGED <<msgAt, cur_msg, err, nacked>>
        <5>1. DriverOK'
          BY <3>1, <4>1 DEF States
        <5>2. ControllerOK'
          BY <3>1, <4>1
        <5>3. HistoryOK'
          BY <3>1, <3>2, <4>1
        <5> QED
          BY <5>1, <5>2, <5>3
      <4>2. CASE EndOfMessage(cur_ptr) /\ UNCHANGED <<moved, nacked>>
        BY <3>1, <3>3, <4>2
      <4> QED
        BY <3>5, <4>1, <4>2 DEF WriteNext
    <3>6. ASSUME NEW m, NEW p \in Nat, ReadNext(m, p) PROVE DriverOK' /\ ControllerOK'
      <4>1. CASE EndOfMessage(p)
        BY <3>3, <4>1
      <4>2. CASE /\ state' = "READ" /\ bus' = "byte" /\ ack' = ~IsLastData(m, p)
                 /\ clocked' = clocked + 1 /\ cur_ptr' = p
                 /\ UNCHANGED <<msgAt, cur_msg, err>>
        <5>1. DriverOK'
          BY <3>1, <4>2 DEF States
        <5>2. ack' \in BOOLEAN
          BY <4>2 DEF IsLastData
        <5>3. bus' \in {"quiet", "addr", "byte"} /\ clocked' \in Nat
          BY <3>1, <4>2
        <5> QED
          BY <5>1, <5>2, <5>3
      <4> QED
        BY <3>6, <4>1, <4>2 DEF ReadNext
    <3>7. ASSUME NEW m, NEW nack, IrqStart(m, nack)
          PROVE  DriverOK' /\ ControllerOK' /\ HistoryOK'
      <4>1. CASE Stop("OK") /\ UNCHANGED <<msgAt, cur_msg, cur_ptr, moved, nacked>>
        BY <3>1, <4>1 DEF Stop, States
      <4>2. CASE ReadNext(m, cur_ptr) /\ UNCHANGED <<moved, nacked>>
        BY <3>1, <3>6, <4>2
      <4> QED
        BY <3>4, <3>5, <3>7, <4>1, <4>2 DEF IrqStart
    <3>8. ASSUME NEW m, NEW nack, IrqWrite(m, nack)
          PROVE  DriverOK' /\ ControllerOK' /\ HistoryOK'
      BY <3>4, <3>5, <3>8 DEF IrqWrite
    <3>9. ASSUME NEW m, IrqRead(m) PROVE DriverOK' /\ ControllerOK' /\ HistoryOK'
      BY <3>1, <3>2, <3>6, <3>9 DEF IrqRead
    <3>10. ASSUME IrqIgnored PROVE DriverOK' /\ ControllerOK' /\ HistoryOK'
      BY <3>1, <3>10 DEF IrqIgnored
    <3>11. DriverOK' /\ ControllerOK' /\ HistoryOK'
      BY <2>3, <3>7, <3>8, <3>9, <3>10 DEF Irq
    <3>12. UNCHANGED <<pc, ret, msgs, msn_num>> /\ late' \in BOOLEAN
      BY <2>3 DEF Irq, TypeOK
    <3> QED
      BY <3>11, <3>12 DEF TypeOK
  <2>4. CASE UNCHANGED vars
    BY <2>4 DEF vars, xferVars, hwVars, history, TypeOK
  <2> QED
    BY <2>1, <2>2, <2>3, <2>4 DEF Next
<1> QED
  BY <1>1, <1>2, PTL DEF Spec

-----------------------------------------------------------------------------
(* The interrupt handler keeps the cursor, the controller and the history  *)
(* in step: one lemma per way it moves the cursor.                         *)

(* At the end of message p = len of the message under the cursor.          *)
LEMMA EndOfMessageStep ==
  ASSUME TypeOK, CursorInv, ~nacked,
         NEW p \in Nat, p = msgs[cur_msg + 1].len,
         \A k \in MsgIndex : k < cur_msg => moved'[k] = InOrder(msgs[k + 1].len),
         moved'[cur_msg] = InOrder(p),
         \A k \in MsgIndex : k > cur_msg => moved'[k] = InOrder(0),
         EndOfMessage(p), UNCHANGED <<msgs, msn_num, nacked>>
  PROVE  WalkInv'
<1> USE DEF TypeOK, MsgIndex
<1>0. cur_msg + 1 <= MaxMsgs /\ cur_msg \in Nat /\ Len(msgs) \in Nat
  BY TransferType, Bounds DEF CursorInv
<1>1. CASE ~IsLastMsg /\ StartNextMsg
  <2>1. cur_msg' = cur_msg + 1 /\ msgAt' = msgAt + 1 /\ cur_ptr' = 0
    BY <1>1 DEF StartNextMsg
  <2>2. cur_msg' < Len(msgs)
    BY <1>0, <1>1, <2>1 DEF IsLastMsg, CursorInv
  <2>3. msgs[cur_msg' + 1].len \in Nat
    BY <1>0, <2>1, <2>2, MessageType
  <2>4. CursorInv'
    BY <1>0, <2>1, <2>2, <2>3 DEF CursorInv
  <2>5. MovedInv'
    <3>1. ASSUME NEW k \in MsgIndex, k < cur_msg'
          PROVE  moved'[k] = InOrder(msgs[k + 1].len)
      <4>1. CASE k < cur_msg
        BY <4>1
      <4>2. CASE k = cur_msg
        BY <4>2
      <4> QED
        BY <1>0, <2>1, <3>1, <4>1, <4>2
    <3>2. cur_msg' \in MsgIndex /\ cur_msg' > cur_msg
      BY <1>0, <2>1, Bounds
    <3>3. moved'[cur_msg'] = InOrder(cur_ptr')
      BY <2>1, <3>2
    <3>4. ASSUME NEW k \in MsgIndex, k > cur_msg' PROVE moved'[k] = InOrder(0)
      BY <1>0, <2>1, <3>4
    <3> QED
      BY <3>1, <3>3, <3>4 DEF MovedInv
  <2>6. ControllerInv'
    BY <1>1 DEF StartNextMsg, ControllerInv
  <2> QED
    BY <2>4, <2>5, <2>6 DEF WalkInv
<1>2. CASE IsLastMsg /\ Stop("OK") /\ cur_ptr' = p /\ UNCHANGED <<msgAt, cur_msg>>
  <2>1. CursorInv'
    BY <1>2 DEF CursorInv
  <2>2. MovedInv'
    BY <1>2 DEF MovedInv
  <2>3. ControllerInv'
    BY <1>2 DEF Stop, ControllerInv, IsLastMsg
  <2> QED
    BY <2>1, <2>2, <2>3 DEF WalkInv
<1> QED
  BY <1>1, <1>2 DEF EndOfMessage

(* STATE_WRITE, reached with the address or the last byte acknowledged.    *)
LEMMA WriteStep ==
  ASSUME TypeOK, CursorInv, MovedInv, ~nacked, pc = "wait",
         WriteNext(msgs[cur_msg + 1]), UNCHANGED <<msgs, msn_num>>
  PROVE  WalkInv'
<1> DEFINE len == msgs[cur_msg + 1].len
<1>1. len \in Nat
  BY MessageType DEF CursorInv, TypeOK, MsgIndex
<1>2. cur_ptr \in Nat /\ cur_ptr <= len /\ cur_msg \in MsgIndex
  BY DEF TypeOK, CursorInv
<1>3. CASE cur_ptr >= len
  <2>1. EndOfMessage(cur_ptr) /\ UNCHANGED <<moved, nacked>>
    BY <1>3 DEF WriteNext, IsEndData
  <2>2. cur_ptr = len
    BY <1>1, <1>2, <1>3
  <2> HIDE DEF len
  <2> QED
    BY <1>2, <2>1, <2>2, EndOfMessageStep DEF MovedInv, len
<1>4. CASE ~(cur_ptr >= len)
  <2>1. /\ Move(cur_ptr) /\ cur_ptr' = cur_ptr + 1
        /\ state' = "WRITE" /\ bus' = "byte"
        /\ UNCHANGED <<msgAt, cur_msg, nacked>>
    BY <1>4 DEF WriteNext, IsEndData
  <2>2. CursorInv'
    BY <1>1, <1>2, <1>4, <2>1 DEF CursorInv
  <2>3. moved' = [moved EXCEPT ![cur_msg] = InOrder(cur_ptr + 1)]
    BY <1>2, <2>1, InOrderAppend DEF Move, MovedInv, TypeOK
  <2>4. MovedInv'
    BY <1>2, <2>1, <2>3 DEF MovedInv, TypeOK, MsgIndex
  <2>5. ControllerInv'
    BY <2>1 DEF ControllerInv
  <2> QED
    BY <2>2, <2>4, <2>5 DEF WalkInv
<1> QED
  BY <1>3, <1>4

(* Label next_read with cur_ptr = p: bytes 0 .. p-1 have been stored.      *)
LEMMA ReadStep ==
  ASSUME TypeOK, CursorInv, ~nacked, msgs[cur_msg + 1].rd,
         NEW p \in Nat, p <= msgs[cur_msg + 1].len, clocked = p,
         \A k \in MsgIndex : k < cur_msg => moved'[k] = InOrder(msgs[k + 1].len),
         moved'[cur_msg] = InOrder(p),
         \A k \in MsgIndex : k > cur_msg => moved'[k] = InOrder(0),
         ReadNext(msgs[cur_msg + 1], p), UNCHANGED <<msgs, msn_num, nacked>>
  PROVE  WalkInv'
<1> DEFINE len == msgs[cur_msg + 1].len
<1>1. len \in Nat
  BY MessageType DEF CursorInv, TypeOK, MsgIndex
<1>2. CASE p >= len
  <2>1. EndOfMessage(p) /\ p = len
    BY <1>1, <1>2 DEF ReadNext, IsEndData
  <2> QED
    BY <2>1, EndOfMessageStep
<1>3. CASE ~(p >= len)
  <2>1. /\ state' = "READ" /\ bus' = "byte"
        /\ clocked' = clocked + 1 /\ cur_ptr' = p
        /\ UNCHANGED <<msgAt, cur_msg>>
    BY <1>3 DEF ReadNext, IsEndData
  <2>2. ack' = ~(p = len - 1)
    BY <1>3 DEF ReadNext, IsEndData, IsLastData
  <2>3. CursorInv'
    BY <2>1 DEF CursorInv
  <2>4. MovedInv'
    BY <2>1 DEF MovedInv
  <2>5. ack' <=> cur_ptr' < len - 1
    <3>1. ~(p = len - 1) <=> cur_ptr' < len - 1
      BY <1>1, <1>3, <2>1
    <3> HIDE DEF len
    <3> QED
      BY <2>2, <3>1, Zenon
  <2>6. cur_ptr' < len /\ clocked' = cur_ptr' + 1
    BY <1>1, <1>3, <2>1
  <2>7. ControllerInv'
    BY <2>1, <2>5, <2>6 DEF ControllerInv
  <2> QED
    BY <2>3, <2>4, <2>7 DEF WalkInv
<1> QED
  BY <1>2, <1>3

(* A refused address or byte stops the walk with an error.                 *)
LEMMA RefusedStep ==
  ASSUME TypeOK, CursorInv, MovedInv, Refused, UNCHANGED <<msgs, msn_num>>
  PROVE  WalkInv'
BY DEF Refused, Stop, WalkInv, CursorInv, MovedInv, ControllerInv

(* One interrupt of an undisturbed call.                                   *)
LEMMA IrqStep ==
  ASSUME TypeOK, WalkInv, pc = "wait", Irq
  PROVE  WalkInv'
<1> DEFINE m == msgs[cur_msg + 1]
<1>0. CursorInv /\ MovedInv /\ ControllerInv
  BY DEF WalkInv
<1>1. CurrentMessages = {m}
  BY <1>0 DEF CurrentMessages, CursorInv
<1>2. UNCHANGED <<msgs, msn_num>>
  BY DEF Irq
<1>3. m.len \in Nat /\ m.rd \in BOOLEAN /\ cur_msg \in MsgIndex /\ cur_ptr \in Nat
  BY <1>0, MessageType DEF CursorInv, TypeOK, MsgIndex
<1>4. ASSUME NEW nack \in BOOLEAN, IrqStart(m, nack) PROVE WalkInv'
  <2>1. state = "START" /\ cur_ptr = 0 /\ clocked = 0 /\ ~nacked
    BY <1>0, <1>4 DEF IrqStart, ControllerInv
  <2>2. CASE Refused
    BY <1>0, <1>2, <2>2, RefusedStep
  <2>3. CASE /\ IsLastMsg /\ IsEndData(m, cur_ptr) /\ Stop("OK")
             /\ UNCHANGED <<msgAt, cur_msg, cur_ptr, moved, nacked>>
    <3>1. cur_ptr = m.len
      BY <1>0, <1>3, <2>3 DEF IsEndData, CursorInv
    <3>2. EndOfMessage(cur_ptr)
      BY <2>3 DEF EndOfMessage
    <3> QED
      BY <1>0, <1>2, <1>3, <2>1, <2>3, <3>1, <3>2, EndOfMessageStep DEF MovedInv
  <2>4. CASE m.rd /\ ReadNext(m, cur_ptr) /\ UNCHANGED <<moved, nacked>>
    BY <1>0, <1>2, <1>3, <2>1, <2>4, ReadStep DEF MovedInv, CursorInv
  <2>5. CASE WriteNext(m)
    BY <1>0, <1>2, <2>1, <2>5, WriteStep
  <2> QED
    BY <1>4, <2>2, <2>3, <2>4, <2>5 DEF IrqStart
<1>5. ASSUME NEW nack \in BOOLEAN, IrqWrite(m, nack) PROVE WalkInv'
  <2>1. ~nacked
    BY <1>0, <1>5 DEF IrqWrite, ControllerInv
  <2>2. CASE Refused
    BY <1>0, <1>2, <2>2, RefusedStep
  <2>3. CASE WriteNext(m)
    BY <1>0, <1>2, <2>1, <2>3, WriteStep
  <2> QED
    BY <1>5, <2>2, <2>3 DEF IrqWrite
<1>6. ASSUME IrqRead(m) PROVE WalkInv'
  <2>1. m.rd /\ ~nacked /\ clocked = cur_ptr + 1 /\ cur_ptr + 1 <= m.len
    BY <1>0, <1>3, <1>6 DEF IrqRead, ControllerInv
  <2>2. moved' = [moved EXCEPT ![cur_msg] = InOrder(cur_ptr + 1)]
    BY <1>0, <1>3, <1>6, InOrderAppend DEF IrqRead, Move, MovedInv, TypeOK
  <2>3. /\ \A k \in MsgIndex : k < cur_msg => moved'[k] = InOrder(msgs[k + 1].len)
        /\ moved'[cur_msg] = InOrder(cur_ptr + 1)
        /\ \A k \in MsgIndex : k > cur_msg => moved'[k] = InOrder(0)
    BY <1>0, <1>3, <2>2 DEF MovedInv, TypeOK, MsgIndex
  <2>4. ReadNext(m, cur_ptr + 1) /\ UNCHANGED nacked
    BY <1>6 DEF IrqRead
  <2>5. cur_ptr + 1 \in Nat
    BY <1>3
  <2> QED
    BY <1>0, <1>2, <2>1, <2>3, <2>4, <2>5, ReadStep
<1>7. ASSUME IrqIgnored PROVE FALSE
  BY <1>0, <1>7 DEF IrqIgnored, Irq, ControllerInv
<1> QED
  BY <1>1, <1>4, <1>5, <1>6, <1>7 DEF Irq

-----------------------------------------------------------------------------
(* Once a call has returned without a timeout the handler does nothing     *)
(* before the next one sets the state.                                     *)
LEMMA ReturnedStep ==
  ASSUME TypeOK, ReturnedInv, [Next]_vars
  PROVE  ReturnedInv'
<1>1. CASE Call
  BY <1>1 DEF Call, SetMsgs, ReturnedInv
<1>2. CASE Process
  BY <1>2 DEF Process, SetNum, SetCurMsg, SetCurPtr, SetErr, StartState, StartHw, Return, Timeout,
              ReturnedInv, xferVars
<1>3. CASE Irq
  <2>1. UNCHANGED <<pc, ret>>
    BY <1>3 DEF Irq
  <2>2. CASE state \in {"IDLE", "STOP"}
    <3>1. IrqIgnored
      BY <1>3, <2>2 DEF Irq, IrqStart, IrqWrite, IrqRead
    <3> QED
      BY <2>1, <2>2, <3>1 DEF IrqIgnored, ReturnedInv
  <2> QED
    BY <2>1, <2>2 DEF ReturnedInv
<1>4. CASE UNCHANGED vars
  BY <1>4 DEF vars, xferVars, ReturnedInv
<1> QED
  BY <1>1, <1>2, <1>3, <1>4 DEF Next

(* The inductive invariant.  It says nothing of a call that is set up while *)
(* the interrupt of an abandoned operation comes.                          *)
THEOREM Invariance == Spec => [](TypeOK /\ UndisturbedInv)
<1> DEFINE Undisturbed ==
             /\ pc \in Setup => SetupInv
             /\ pc = "wait" \/ (pc = "idle" /\ ret = "ETIMEDOUT") => WalkInv
             /\ (pc = "idle" /\ ret = "OK") => AllMoved /\ ~nacked
<1>1. Init => UndisturbedInv
  BY DEF Init, UndisturbedInv, ReturnedInv, Setup
<1>2. TypeOK /\ UndisturbedInv /\ [Next]_vars => UndisturbedInv'
  <2> SUFFICES ASSUME TypeOK, UndisturbedInv, [Next]_vars, ~late' PROVE Undisturbed'
    BY ReturnedStep DEF UndisturbedInv
  <2>1. CASE Call
    BY <2>1 DEF Call, SetMsgs, SetupInv, Setup
  <2>2. CASE SetNum
    BY <2>2 DEF SetNum, UndisturbedInv, SetupInv, Setup, hwVars, history
  <2>3. CASE SetCurMsg
    BY <2>3 DEF SetCurMsg, UndisturbedInv, SetupInv, Setup, hwVars, history
  <2>4. CASE SetCurPtr
    BY <2>4 DEF SetCurPtr, UndisturbedInv, SetupInv, Setup, hwVars, history
  <2>5. CASE SetErr
    BY <2>5 DEF SetErr, UndisturbedInv, SetupInv, Setup, hwVars, history
  <2>6. CASE StartState
    BY <2>6 DEF StartState, UndisturbedInv, SetupInv, Setup, hwVars, history
  <2>7. CASE StartHw
    <3>1. SetupInv /\ pc = "set_hw"
      BY <2>7 DEF StartHw, UndisturbedInv, Setup
    <3>2. /\ msn_num = Len(msgs) /\ msgAt = 0 /\ cur_msg = 0 /\ cur_ptr = 0
          /\ state = "START"
      BY <3>1 DEF SetupInv
    <3>3. Len(msgs) \in Nat /\ 0 < Len(msgs) /\ msgs[0 + 1].len \in Nat
      <4>1. msgs \in Transfers
        BY DEF TypeOK
      <4>2. Len(msgs) \in Nat /\ 0 < Len(msgs)
        BY <4>1, TransferType
      <4> QED
        BY <4>1, <4>2, MessageType
    <3>4. CursorInv'
      BY <2>7, <3>2, <3>3 DEF StartHw, xferVars, CursorInv
    <3>5. MovedInv'
      BY <2>7, <3>2, Bounds, InOrderZero DEF StartHw, xferVars, MovedInv, MsgIndex
    <3>6. ControllerInv'
      BY <2>7, <3>2 DEF StartHw, xferVars, ControllerInv
    <3> QED
      BY <2>7, <3>4, <3>5, <3>6 DEF StartHw, WalkInv, Setup
  <2>8. CASE Return
    <3>1. SUFFICES ASSUME err = "OK"
                   PROVE  AllMoved /\ ~nacked
      BY <2>8, <3>1 DEF Return, Setup, AllMoved, xferVars, hwVars, history, TypeOK
    <3>2. CursorInv /\ MovedInv /\ ControllerInv /\ state = "STOP"
      BY <2>8 DEF Return, UndisturbedInv, WalkInv, history
    <3>3. /\ ~nacked
          /\ cur_msg = Len(msgs) - 1 /\ cur_ptr = msgs[cur_msg + 1].len
      BY <3>1, <3>2 DEF ControllerInv, CursorInv
    <3>4. ASSUME NEW i \in 1 .. Len(msgs)
          PROVE  moved[i - 1] = InOrder(msgs[i].len)
      <4>1. Len(msgs) \in Nat /\ Len(msgs) <= MaxMsgs
        BY TransferType DEF TypeOK
      <4>2. i - 1 \in MsgIndex /\ (i - 1) + 1 = i
        BY <4>1, Bounds DEF MsgIndex
      <4>3. CASE i - 1 < cur_msg
        BY <3>2, <4>2, <4>3 DEF MovedInv
      <4>4. CASE i - 1 = cur_msg
        BY <3>2, <3>3, <4>2, <4>4 DEF MovedInv
      <4> QED
        BY <3>3, <4>1, <4>3, <4>4
    <3> QED
      BY <3>3, <3>4 DEF AllMoved
  <2>9. CASE Timeout
    <3>1. WalkInv /\ pc' = "idle" /\ ret' = "ETIMEDOUT"
      BY <2>9 DEF Timeout, UndisturbedInv, history
    <3>2. WalkInv'
      BY <2>9, <3>1 DEF Timeout, WalkInv, CursorInv, MovedInv, ControllerInv, xferVars, hwVars,
                       history
    <3> QED
      BY <3>1, <3>2 DEF Setup
  <2>10. CASE Irq
    <3>1. UNCHANGED <<pc, ret>> /\ pc = "wait" /\ ~late
      BY <2>10 DEF Irq
    <3>2. WalkInv'
      BY <2>10, <3>1, IrqStep DEF UndisturbedInv
    <3> QED
      BY <3>1, <3>2 DEF Setup
  <2>11. CASE UNCHANGED vars
    BY <2>11
    DEF vars, xferVars, hwVars, history, UndisturbedInv, SetupInv, WalkInv, CursorInv,
        MovedInv, ControllerInv, AllMoved
  <2> QED
    BY <2>1, <2>2, <2>3, <2>4, <2>5, <2>6, <2>7, <2>8, <2>9, <2>10, <2>11 DEF Next, Process
<1> QED
  BY <1>1, <1>2, TypeCorrect, PTL DEF Spec

(* s3c2440_i2c_xfer returns 0 only after moving every byte of every        *)
(* message once and in order, and never after a refused address or byte.   *)
THEOREM SuccessTheorem == Spec => []SuccessMeansAllMoved
<1>1. TypeOK /\ UndisturbedInv => SuccessMeansAllMoved
  BY DEF UndisturbedInv, SuccessMeansAllMoved
<1> QED
  BY <1>1, Invariance, PTL

(* Whenever an interrupt is due that stores to buf[cur_ptr]: for a call    *)
(* that waits the index is inside the buffer and the byte the one the      *)
(* slave sent for it; without a waiting call the last one has timed out,   *)
(* and until there is a new one the index is inside the buffer that one    *)
(* was given, gone or not.                                                 *)
THEOREM ReadTheorem == Spec => []ReadInBounds
<1>1. TypeOK /\ UndisturbedInv => ReadInBounds
  <2> SUFFICES ASSUME TypeOK, UndisturbedInv, state = "READ", ~late
               PROVE  /\ pc # "wait" => ret = "ETIMEDOUT"
                      /\ pc \in {"wait", "idle"} =>
                           /\ msgAt < Len(msgs) /\ msgs[msgAt + 1].rd
                           /\ cur_ptr < msgs[msgAt + 1].len
                           /\ clocked = cur_ptr + 1
    BY DEF ReadInBounds
  <2>1. pc # "wait" => ret = "ETIMEDOUT"
    BY DEF UndisturbedInv, ReturnedInv, SetupInv, Setup
  <2>2. ASSUME pc \in {"wait", "idle"} PROVE CursorInv /\ ControllerInv
    BY <2>1, <2>2 DEF UndisturbedInv, WalkInv
  <2> QED
    BY <2>1, <2>2 DEF CursorInv, ControllerInv
<1> QED
  BY <1>1, Invariance, PTL

(* Exactly the last byte of a read is received without acknowledgement.    *)
THEOREM AckTheorem == Spec => []LastReadByteNotAcked
<1>1. TypeOK /\ UndisturbedInv => LastReadByteNotAcked
  BY DEF TypeOK, UndisturbedInv, WalkInv, CursorInv, ControllerInv, LastReadByteNotAcked
<1> QED
  BY <1>1, Invariance, PTL

(* The interrupt moves bytes of the message under the cursor only.         *)
LEMMA OnlyCurrentMoves ==
  ASSUME TypeOK, pc = "wait", Irq, NEW m \in MsgIndex, moved'[m] # moved[m]
  PROVE  m = cur_msg
<1>1. ASSUME NEW p, Move(p) PROVE m = cur_msg
  BY <1>1 DEF Move, TypeOK
<1>2. ASSUME NEW n, WriteNext(n) PROVE m = cur_msg
  BY <1>1, <1>2 DEF WriteNext
<1>3. ~Refused /\ ~(UNCHANGED moved)
  BY DEF Refused
<1>4. ASSUME NEW n, NEW nack, IrqStart(n, nack) PROVE m = cur_msg
  BY <1>2, <1>3, <1>4 DEF IrqStart
<1>5. ASSUME NEW n, NEW nack, IrqWrite(n, nack) PROVE m = cur_msg
  BY <1>2, <1>3, <1>5 DEF IrqWrite
<1>6. ASSUME NEW n, IrqRead(n) PROVE m = cur_msg
  BY <1>1, <1>6 DEF IrqRead
<1>7. ~IrqIgnored
  BY <1>3 DEF IrqIgnored
<1> QED
  BY <1>4, <1>5, <1>6, <1>7 DEF Irq

(* While an undisturbed call waits, a byte of a message moves only when    *)
(* every earlier message has moved completely.                             *)
THEOREM OrderTheorem == Spec => MessagesInOrder
<1> DEFINE Ordered ==
      \A m \in MsgIndex :
        (pc = "wait" /\ moved'[m] # moved[m] /\ ~late) =>
          \A k \in 0 .. m - 1 : moved[k] = InOrder(msgs[k + 1].len)
<1>1. TypeOK /\ UndisturbedInv /\ [Next]_vars => [Ordered]_vars
  <2> SUFFICES ASSUME TypeOK, UndisturbedInv, Next, NEW m \in MsgIndex,
                      pc = "wait", moved'[m] # moved[m], ~late, NEW k \in 0 .. m - 1
               PROVE  moved[k] = InOrder(msgs[k + 1].len)
    OBVIOUS
  <2>1. MovedInv
    BY DEF UndisturbedInv, WalkInv
  <2>2. ~Call /\ ~Process
    BY DEF Call, SetMsgs, Process, SetNum, SetCurMsg, SetCurPtr, SetErr, StartState, StartHw,
           Return, Timeout, history
  <2>3. m = cur_msg
    BY <2>2, OnlyCurrentMoves DEF Next
  <2>4. k \in MsgIndex /\ k < cur_msg
    BY <2>3, Bounds DEF MsgIndex
  <2> QED
    BY <2>1, <2>4 DEF MovedInv
<1> QED
  BY <1>1, TypeCorrect, Invariance, PTL DEF Spec, MessagesInOrder

=============================================================================
