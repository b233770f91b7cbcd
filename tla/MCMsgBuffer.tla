---------------------------- MODULE MCMsgBuffer ----------------------------
(***************************************************************************)
(* MsgBuffer for TLC: two hook threads, two workers, a list of three       *)
(* messages, batches of two and six messages.                              *)
(***************************************************************************)
EXTENDS MsgBuffer
=============================================================================
