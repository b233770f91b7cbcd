---------------------------- MODULE MCApiServer ----------------------------
(***************************************************************************)
(* Two workers and three connections: one connection more than workers, so *)
(* that the list fills while all workers are blocked.                      *)
(***************************************************************************)
EXTENDS ApiServer

=============================================================================
