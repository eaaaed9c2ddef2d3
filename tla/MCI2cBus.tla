------------------------------ MODULE MCI2cBus ------------------------------
EXTENDS I2cBus

(* Reads and writes of zero to two bytes, alone and in pairs: the handler's *)
(* branches depend on "no byte", "last byte" and "one before the last", and *)
(* on "last message" or not.                                               *)
MCMessages  == [rd : BOOLEAN, len : 0 .. 2]
MCTransfers == {<<m>> : m \in MCMessages} \cup {<<m, n>> : m, n \in MCMessages}

(* The drivers' own shapes (a register write; a write, then a read) and a   *)
(* longer transfer that mixes directions around an empty message.          *)
MCLong == { << [rd |-> FALSE, len |-> 2] >>,
            << [rd |-> FALSE, len |-> 1], [rd |-> TRUE, len |-> 1] >>,
            << [rd |-> TRUE, len |-> 3], [rd |-> FALSE, len |-> 0],
               [rd |-> TRUE, len |-> 2] >> }
=============================================================================
