---------------------------- MODULE MCInlineHook ----------------------------
(***************************************************************************)
(* InlineHook for TLC: instructions of every kind and of the lengths at    *)
(* which AddHook decides, the shortest, the longest and those around five  *)
(* bytes, with branches to both sides of the trampoline, in a space of 256 *)
(* addresses.                                                              *)
(***************************************************************************)
EXTENDS InlineHook

Plain(lens) ==
  [branch : {"none"}, opcode : {"other"}, len : lens, dest : {0}]

MCInstrs ==
  Plain({1, 2, 3, 4, 15})
    \cup [branch : {"indirect"}, opcode : {"other"}, len : {2, 6}, dest : {0}]
    \cup [branch : {"ret"}, opcode : {"other"}, len : {1, 3}, dest : {0}]
    \cup [branch : {"relative"}, opcode : {"jmp", "jcc"}, len : {2}, dest : {20, 130}]
    \cup [branch : {"relative"}, opcode : {"other"}, len : {2, 5, 6}, dest : {250}]
=============================================================================
