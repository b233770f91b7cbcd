---------------------------- MODULE MCMsgMonitor ----------------------------
(***************************************************************************)
(* MsgMonitor for TLC.  The runs on chat messages have no members and the  *)
(* runs on the chat room no other message: the two kinds of callbacks      *)
(* share the queue only.                                                   *)
(***************************************************************************)
EXTENDS MsgMonitor, TLC

CONSTANTS text, link, card, image, system

\* Messages of each fate: three reported at once, one reported when its image is
\* downloaded and one never reported.
MCInbox ==
  {[id |-> text, msgType |-> 1], [id |-> link, msgType |-> 49], [id |-> card, msgType |-> 42],
   [id |-> image, msgType |-> 3], [id |-> system, msgType |-> 10000]}

MCNoInbox == {}

\* Hooks, clients and members are interchangeable; used by the runs that check
\* safety only.
MCSymmetry == Permutations(Hooks) \cup Permutations(Clients) \cup Permutations(Members)
=============================================================================
