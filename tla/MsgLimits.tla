------------------------------ MODULE MsgLimits ------------------------------
(***************************************************************************)
(* The numbers that bound the message list, as MsgBuffer and the queue     *)
(* that it implements share them.                                          *)
(***************************************************************************)
EXTENDS Integers

CONSTANTS
  Cap,        \* capacity of the list: 1000 in the code
  Batch,      \* largest number of messages of one SyncMsg: 10 in the code
  MaxPushed   \* bound of the model: number of messages pushed in a behaviour

ASSUME LimitsAssumption ==
  /\ Cap \in Nat \ {0}
  /\ Batch \in Nat \ {0}
  /\ MaxPushed \in Nat

=============================================================================
