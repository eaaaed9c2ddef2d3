------------------------------- MODULE I2cBus -------------------------------
(***************************************************************************)
(* The I2C adapter driver of src/ov7740/i2c_bus_s3c2440.c: the process     *)
(* that runs s3c2440_i2c_xfer (i2c-core serialises the callers with the    *)
(* adapter lock, so there is one), and the interrupt handler               *)
(* s3c2440_i2c_xfer_irq that walks the messages.  The S3C2440 has a single *)
(* CPU: the handler is atomic with respect to the process, but it may run  *)
(* between any two assignments of the process.  A transfer that times out  *)
(* returns without stopping the controller, so an interrupt may still be   *)
(* outstanding when the caller's messages are gone or a new transfer is    *)
(* being set up.                                                           *)
(***************************************************************************)
EXTENDS Integers, Sequences

CONSTANTS Transfers,  \* the argument "msgs" of the calls: sequences of messages
          MaxMsgs     \* no transfer has more messages; also the bound on cur_msg

Message == [rd : BOOLEAN, len : Nat]

ASSUME TransfersAssumption ==
  /\ MaxMsgs \in Nat
  /\ Transfers # {}
  /\ \A t \in Transfers : t \in Seq(Message) /\ Len(t) \in 1 .. MaxMsgs

MsgIndex == 0 .. MaxMsgs

VARIABLES
  pc,       \* where the process is in s3c2440_i2c_xfer
  ret,      \* what the last call returned, until the next one waits
  msgs,     \* the array xfer_data.msgs points into
  msgAt,    \* offset of xfer_data.msgs in that array ("msgs++" moves it)
  msn_num, cur_msg, cur_ptr, state, err,
  bus,      \* controller: the operation whose end raises the next interrupt
  ack,      \* controller: does the byte being received get an ACK (iiccon bit 7)
  clocked,  \* controller: data bytes clocked since the last START condition
  moved,    \* history: per message, the buffer indices moved since the call's START
  nacked,   \* history: the slave refused an address or byte since then
  late      \* history: an interrupt came for no waiting call, since the last began

xferVars == <<msgs, msgAt, msn_num, cur_msg, cur_ptr, state, err>>
hwVars   == <<bus, ack, clocked>>
history  == <<moved, nacked, late>>
vars     == <<pc, ret, xferVars, hwVars, history>>

Setup  == {"set_num", "set_msg", "set_ptr", "set_err", "set_state", "set_hw"}
States == {"IDLE", "START", "READ", "WRITE", "STOP"}

Init ==
  /\ pc = "idle" /\ ret = "none"
  /\ msgs \in Transfers /\ msgAt = 0
  /\ msn_num = 0 /\ cur_msg = 0 /\ cur_ptr = 0
  /\ state = "IDLE" /\ err = "OK"
  /\ bus = "quiet" /\ ack = TRUE /\ clocked = 0
  /\ moved = [m \in MsgIndex |-> << >>] /\ nacked = FALSE /\ late = FALSE

-----------------------------------------------------------------------------
(* The process: s3c2440_i2c_xfer, one assignment at a time.                *)

SetMsgs(t) ==
  /\ pc = "idle"
  /\ pc' = "set_num"
  /\ msgs' = t /\ msgAt' = 0
  /\ late' = FALSE
  /\ UNCHANGED <<ret, msn_num, cur_msg, cur_ptr, state, err, hwVars, moved, nacked>>

(* Mutant: counts one message too many.                                    *)
SetNumOneMore ==
  /\ pc = "set_num" /\ pc' = "set_msg"
  /\ msn_num' = Len(msgs) + 1
  /\ UNCHANGED <<ret, msgs, msgAt, cur_msg, cur_ptr, state, err, hwVars, history>>

SetNum ==
  /\ pc = "set_num" /\ pc' = "set_msg"
  /\ msn_num' = Len(msgs)
  /\ UNCHANGED <<ret, msgs, msgAt, cur_msg, cur_ptr, state, err, hwVars, history>>

SetCurMsg ==
  /\ pc = "set_msg" /\ pc' = "set_ptr"
  /\ cur_msg' = 0
  /\ UNCHANGED <<ret, msgs, msgAt, msn_num, cur_ptr, state, err, hwVars, history>>

(* Mutant: the cursor of the previous call is kept.                        *)
SetCurPtrKept ==
  /\ pc = "set_ptr" /\ pc' = "set_err"
  /\ UNCHANGED <<ret, xferVars, hwVars, history>>

SetCurPtr ==
  /\ pc = "set_ptr" /\ pc' = "set_err"
  /\ cur_ptr' = 0
  /\ UNCHANGED <<ret, msgs, msgAt, msn_num, cur_msg, state, err, hwVars, history>>

SetErr ==
  /\ pc = "set_err" /\ pc' = "set_state"
  /\ err' = "ENODEV"
  /\ UNCHANGED <<ret, msgs, msgAt, msn_num, cur_msg, cur_ptr, state, hwVars, history>>

(* s3c2440_i2c_start called from the process: the state, then the registers. *)
StartState ==
  /\ pc = "set_state" /\ pc' = "set_hw"
  /\ state' = "START"
  /\ UNCHANGED <<ret, msgs, msgAt, msn_num, cur_msg, cur_ptr, err, hwVars, history>>

(* Writing iicstat makes the controller send START and the address: that   *)
(* operation replaces the one an earlier call abandoned.                   *)
StartHw ==
  /\ pc = "set_hw" /\ pc' = "wait" /\ ret' = "none"
  /\ bus' = "addr" /\ clocked' = 0
  /\ moved' = [m \in MsgIndex |-> << >>] /\ nacked' = FALSE
  /\ UNCHANGED <<xferVars, ack, late>>

(* wait_event_timeout: the condition holds ...                             *)
Return ==
  /\ pc = "wait" /\ state = "STOP"
  /\ pc' = "idle" /\ ret' = err
  /\ UNCHANGED <<xferVars, hwVars, history>>

(* ... or the timer expired.  schedule_timeout returns 0 even when the     *)
(* interrupt completed the transfer between the expiry and the wake-up.    *)
Timeout ==
  /\ pc = "wait"
  /\ pc' = "idle" /\ ret' = "ETIMEDOUT"
  /\ UNCHANGED <<xferVars, hwVars, history>>

Call == \E t \in Transfers : SetMsgs(t)

Process == \/ SetNum \/ SetCurMsg \/ SetCurPtr \/ SetErr
           \/ StartState \/ StartHw \/ Return \/ Timeout

-----------------------------------------------------------------------------
(* The interrupt handler: s3c2440_i2c_xfer_irq.                            *)

(* What *xfer_data.msgs may hold.  Outside a call the caller's array is    *)
(* dead memory, and past the end of the array there is no message: the     *)
(* handler then reads any message.                                         *)
Garbage == UNION { {t[i] : i \in 1 .. Len(t)} : t \in Transfers }
CurrentMessages ==
  IF pc # "idle" /\ msgAt < Len(msgs) THEN {msgs[msgAt + 1]} ELSE Garbage

IsLastMsg         == cur_msg = msn_num - 1
(* Mutants: the end of the data one byte late, and one byte early.         *)
IsEndDataLate(m, p)  == p > m.len
IsEndDataEarly(m, p) == p >= m.len - 1
(* Mutant: the byte after the last is taken for the last.                  *)
IsLastDataLate(m, p) == p = m.len

IsEndData(m, p)   == p >= m.len
IsLastData(m, p)  == p = m.len - 1

Stop(e) ==
  /\ state' = "STOP" /\ err' = e
  /\ bus' = "quiet" /\ ack' = TRUE
  /\ UNCHANGED clocked

(* Mutant: the next message is selected but its START is not sent.         *)
StartNextMsgSilent ==
  /\ cur_msg < MaxMsgs
  /\ msgAt' = msgAt + 1 /\ cur_msg' = cur_msg + 1 /\ cur_ptr' = 0
  /\ state' = "START" /\ err' = err
  /\ bus' = "quiet" /\ clocked' = 0 /\ UNCHANGED ack

(* Mutant: cur_ptr is not reset for the next message.                      *)
StartNextMsgKeepPtr ==
  /\ cur_msg < MaxMsgs
  /\ msgAt' = msgAt + 1 /\ cur_msg' = cur_msg + 1 /\ UNCHANGED cur_ptr
  /\ state' = "START" /\ err' = err
  /\ bus' = "addr" /\ clocked' = 0 /\ UNCHANGED ack

(* "msgs++; cur_msg++; cur_ptr = 0; s3c2440_i2c_start()".  cur_msg can run *)
(* past every message when a late interrupt sees msn_num of another call;  *)
(* MaxMsgs bounds that run.                                                *)
StartNextMsg ==
  /\ cur_msg < MaxMsgs
  /\ msgAt' = msgAt + 1 /\ cur_msg' = cur_msg + 1 /\ cur_ptr' = 0
  /\ state' = "START" /\ err' = err
  /\ bus' = "addr" /\ clocked' = 0 /\ UNCHANGED ack

(* The end of a message: the next one, or STOP after the last.             *)
EndOfMessage(p) ==
  \/ /\ ~IsLastMsg
     /\ StartNextMsg
  \/ /\ IsLastMsg
     /\ Stop("OK")
     /\ cur_ptr' = p /\ UNCHANGED <<msgAt, cur_msg>>

Refused ==
  /\ Stop("ENODEV")
  /\ nacked' = TRUE
  /\ UNCHANGED <<msgAt, cur_msg, cur_ptr, moved>>

Move(p) == moved' = IF pc = "wait" THEN [moved EXCEPT ![cur_msg] = Append(@, p)]
                    ELSE moved

(* case STATE_WRITE, also entered by falling through from STATE_START.     *)
WriteNext(m) ==
  \/ /\ ~IsEndData(m, cur_ptr)
     /\ Move(cur_ptr)
     /\ cur_ptr' = cur_ptr + 1
     /\ state' = "WRITE" /\ bus' = "byte" /\ ack' = TRUE
     /\ clocked' = clocked + 1
     /\ UNCHANGED <<msgAt, cur_msg, err, nacked>>
  \/ /\ IsEndData(m, cur_ptr)
     /\ EndOfMessage(cur_ptr)
     /\ UNCHANGED <<moved, nacked>>

(* label next_read, with cur_ptr = p: ask for one more byte, with an ACK   *)
(* unless it is the last.                                                  *)
ReadNext(m, p) ==
  \/ /\ ~IsEndData(m, p)
     /\ state' = "READ" /\ bus' = "byte"
     /\ ack' = ~IsLastData(m, p)
     /\ clocked' = clocked + 1
     /\ cur_ptr' = p /\ UNCHANGED <<msgAt, cur_msg, err>>
  \/ /\ IsEndData(m, p)
     /\ EndOfMessage(p)

IrqStart(m, nack) ==
  /\ state = "START"
  /\ \/ nack /\ Refused
     \/ /\ ~nack /\ IsLastMsg /\ IsEndData(m, cur_ptr)
        /\ Stop("OK")
        /\ UNCHANGED <<msgAt, cur_msg, cur_ptr, moved, nacked>>
     \/ /\ ~nack /\ ~(IsLastMsg /\ IsEndData(m, cur_ptr))
        /\ \/ m.rd /\ ReadNext(m, cur_ptr) /\ UNCHANGED <<moved, nacked>>
           \/ ~m.rd /\ WriteNext(m)

(* Mutant: the acknowledge of a data byte is not looked at.                *)
IrqWriteNoAckCheck(m, nack) ==
  /\ state = "WRITE"
  /\ \/ nack /\ nacked' = TRUE /\ ~IsEndData(m, cur_ptr) /\ Move(cur_ptr)
        /\ cur_ptr' = cur_ptr + 1 /\ state' = "WRITE" /\ bus' = "byte"
        /\ ack' = TRUE /\ clocked' = clocked + 1
        /\ UNCHANGED <<msgAt, cur_msg, err>>
     \/ (~nack \/ IsEndData(m, cur_ptr)) /\ WriteNext(m)

IrqWrite(m, nack) ==
  /\ state = "WRITE"
  /\ \/ nack /\ Refused
     \/ ~nack /\ WriteNext(m)

(* case STATE_READ: iicstat is not looked at.                              *)
IrqRead(m) ==
  /\ state = "READ"
  /\ Move(cur_ptr)
  /\ ReadNext(m, cur_ptr + 1)
  /\ UNCHANGED nacked

(* default: only the pending bit is cleared, which may let the controller  *)
(* go on with another byte.                                                *)
IrqIgnored ==
  /\ state \in {"IDLE", "STOP"}
  /\ bus' \in {"quiet", "byte"}
  /\ UNCHANGED <<msgAt, cur_msg, cur_ptr, state, err, ack, clocked, moved, nacked>>

Irq ==
  /\ bus # "quiet"
  /\ \/ \E m \in CurrentMessages, nack \in BOOLEAN : IrqStart(m, nack) \/ IrqWrite(m, nack)
     \/ \E m \in CurrentMessages : IrqRead(m)
     \/ IrqIgnored
  /\ late' = (late \/ pc # "wait")
  /\ UNCHANGED <<pc, ret, msgs, msn_num>>

-----------------------------------------------------------------------------
Next == Call \/ Process \/ Irq

Spec == Init /\ [][Next]_vars

(* The kernel schedules a process that is runnable, and the slave always   *)
(* completes the operation the controller asked for.                       *)
AnsweringSpec == Spec /\ WF_vars(SetNum \/ SetCurMsg \/ SetCurPtr \/ SetErr
                                 \/ StartState \/ StartHw) /\ WF_vars(Irq)

-----------------------------------------------------------------------------
(* Type correctness of the driver's xfer_data, the controller and the      *)
(* history variables.                                                      *)
TypeOK ==
  /\ pc \in {"idle", "wait"} \cup Setup
  /\ ret \in {"none", "OK", "ENODEV", "ETIMEDOUT"}
  /\ msgs \in Transfers /\ msgAt \in Nat
  /\ msn_num \in 0 .. MaxMsgs /\ cur_msg \in MsgIndex /\ cur_ptr \in Nat
  /\ state \in States /\ err \in {"OK", "ENODEV"}
  /\ bus \in {"quiet", "addr", "byte"} /\ ack \in BOOLEAN /\ clocked \in Nat
  /\ moved \in [MsgIndex -> Seq(Nat)]
  /\ nacked \in BOOLEAN /\ late \in BOOLEAN

(* The buffer indices 0 .. n-1 in order.                                   *)
InOrder(n) == [i \in 1 .. n |-> i - 1]

AllMoved == \A i \in 1 .. Len(msgs) : moved[i - 1] = InOrder(msgs[i].len)

(* s3c2440_i2c_xfer returns 0 only when every byte of every message was    *)
(* moved, once and in order, and no address or byte was refused; unless    *)
(* the interrupt of an operation that an earlier call abandoned came while *)
(* it was setting up.                                                      *)
SuccessMeansAllMoved ==
  (pc = "idle" /\ ret = "OK" /\ ~late) => AllMoved /\ ~nacked

(* The comment above the setup code ("send out or read in the I2C data of  *)
(* the num msgs") without that exception.                                  *)
SuccessAlwaysMeansAllMoved ==
  (pc = "idle" /\ ret = "OK") => AllMoved

(* In STATE_READ the interrupt stores to buf[cur_ptr] before it looks at   *)
(* the length.  While a call waits that no late interrupt disturbed, the   *)
(* index is inside the buffer of the message being read, and the byte is   *)
(* the one the slave sent for that index.  Only after a timeout is there   *)
(* such an interrupt without a waiting call; the first of them still has   *)
(* an index inside the buffer that call was given, which by then may be    *)
(* anything, until another call replaces the messages under the cursor.    *)
ReadInBounds ==
  (state = "READ" /\ bus # "quiet" /\ ~late) =>
    /\ pc # "wait" => ret = "ETIMEDOUT"
    /\ pc \in {"wait", "idle"} =>
         /\ msgAt < Len(msgs) /\ msgs[msgAt + 1].rd
         /\ cur_ptr < msgs[msgAt + 1].len
         /\ clocked = cur_ptr + 1

(* The slave stops driving the line only if the master does not ACK the    *)
(* last byte of a read: exactly that byte is received without ACK.         *)
LastReadByteNotAcked ==
  (pc = "wait" /\ state = "READ" /\ bus = "byte" /\ ~late) =>
    (ack <=> cur_ptr < msgs[msgAt + 1].len - 1)

(* The strengthening that makes the safety properties inductive: while a   *)
(* call that no late interrupt disturbed waits, and after its timeout, the *)
(* cursor, the controller and the history agree.                           *)
SetupInv ==
  /\ msgAt = 0
  /\ pc # "set_num" => msn_num = Len(msgs)
  /\ pc \in {"set_ptr", "set_err", "set_state", "set_hw"} => cur_msg = 0
  /\ pc \in {"set_err", "set_state", "set_hw"} => cur_ptr = 0
  /\ pc = "set_hw" => state = "START"

CursorInv ==
  /\ msn_num = Len(msgs) /\ msgAt = cur_msg /\ cur_msg < msn_num
  /\ cur_ptr <= msgs[cur_msg + 1].len

MovedInv ==
  /\ \A k \in MsgIndex : k < cur_msg => moved[k] = InOrder(msgs[k + 1].len)
  /\ moved[cur_msg] = InOrder(cur_ptr)
  /\ \A k \in MsgIndex : k > cur_msg => moved[k] = InOrder(0)

ControllerInv ==
  /\ state # "IDLE"
  /\ state = "START" => bus = "addr" /\ cur_ptr = 0 /\ clocked = 0 /\ ~nacked
  /\ state = "WRITE" => bus = "byte" /\ ~nacked
  /\ state = "READ" =>
       /\ bus = "byte" /\ ~nacked
       /\ msgs[cur_msg + 1].rd /\ cur_ptr < msgs[cur_msg + 1].len
       /\ clocked = cur_ptr + 1
       /\ ack <=> cur_ptr < msgs[cur_msg + 1].len - 1
  /\ state = "STOP" =>
       /\ bus = "quiet"
       /\ err = "OK" =>
            /\ cur_msg = msn_num - 1 /\ cur_ptr = msgs[cur_msg + 1].len
            /\ ~nacked

WalkInv == CursorInv /\ MovedInv /\ ControllerInv

(* Nothing is moved for a call that has returned without a timeout.        *)
ReturnedInv ==
  pc \notin {"set_hw", "wait"} /\ ret # "ETIMEDOUT" => state \in {"IDLE", "STOP"}

UndisturbedInv ==
  /\ ReturnedInv
  /\ ~late => /\ pc \in Setup => SetupInv
              /\ pc = "wait" \/ (pc = "idle" /\ ret = "ETIMEDOUT") => WalkInv
              /\ (pc = "idle" /\ ret = "OK") => AllMoved /\ ~nacked

(* No byte of a message moves before every earlier message is complete.    *)
MessagesInOrder ==
  [][\A m \in MsgIndex :
       (pc = "wait" /\ moved'[m] # moved[m] /\ ~late) =>
         \A k \in 0 .. m - 1 : moved[k] = InOrder(msgs[k + 1].len)]_vars

(* While the slave answers, the interrupt handler walks the messages to    *)
(* STATE_STOP: no message or byte leaves the controller with nothing to do *)
(* and the process asleep until the timeout.                               *)
WalkReachesStop == (pc = "wait" /\ ~late) ~> (state = "STOP" \/ pc = "idle")

=============================================================================
