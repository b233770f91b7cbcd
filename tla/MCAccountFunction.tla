------------------------- MODULE MCAccountFunction -------------------------
(***************************************************************************)
(* AccountFunction for TLC: two workers, two users who log in twice in     *)
(* all, so that a user can follow another one or come back, and two QR     *)
(* codes, so that the second overwrites the first.                         *)
(***************************************************************************)
EXTENDS AccountFunction
=============================================================================
