------------------------------ MODULE MCSession ------------------------------
(* Sessions on a file that takes more than one send, so that a send can meet *)
(* the in-order offset in the middle of the buffer.                         *)
EXTENDS Session

ASSUME InstanceAssumption == SendSize \in 2 .. Size - 1
=============================================================================
