--------------------------- MODULE MCSnsFunction ---------------------------
(***************************************************************************)
(* SnsFunction for TLC: two calls of SyncSns at a time and pages of two    *)
(* posts, so that a page can be seen half stored, and several pages, so    *)
(* that a page can be replaced while a call waits for another.             *)
(***************************************************************************)
EXTENDS SnsFunction
=============================================================================
