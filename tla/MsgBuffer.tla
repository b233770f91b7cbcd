------------------------------ MODULE MsgBuffer ------------------------------
(***************************************************************************)
(* MsgBuffer (Function/MsgMonitor.cpp): the list that the hook callbacks   *)
(* fill and the HTTP workers drain, at the grain of the list operations    *)
(* inside mute.lock() .. mute.unlock().  Hooks run pushMsg on WeChat's own *)
(* threads, Workers run popMsg on the threads of the HTTP server; every    *)
(* statement on the list is a step of its own, so that only the mutex      *)
(* keeps the threads apart.                                                *)
(*                                                                         *)
(* A message is its arrival number: the hook that trims the list is about  *)
(* to append message pushed+1.                                             *)
(***************************************************************************)
EXTENDS MsgLimits, Sequences

CONSTANTS
  Hooks,      \* threads of WeChat that run a hook callback
  Workers,    \* threads of the HTTP server
  NoThread    \* the owner of a free mutex

ASSUME BufferAssumption ==
  /\ Hooks \cap Workers = {}
  /\ NoThread \notin Hooks \cup Workers

Threads == Hooks \cup Workers

VARIABLES
  mute,        \* the thread that holds MsgBuffer::mute, or NoThread
  buffer,      \* MsgBuffer::buffer
  outMsgList,  \* outMsgList[c]: the result list of c's latest popMsg
  msgCount,    \* msgCount[c]: the local of popMsg
  erased,      \* erased[c]: the counter n of popMsg's second loop
  pc,          \* pc[t]: the statement thread t is at
  pushed,      \* history: number of messages whose push took effect
  taken        \* history: the messages whose popMsg took effect

vars == <<mute, buffer, outMsgList, msgCount, erased, pc, pushed, taken>>

Init ==
  /\ mute = NoThread
  /\ buffer = << >>
  /\ outMsgList = [c \in Workers |-> << >>]
  /\ msgCount = [c \in Workers |-> 0]
  /\ erased = [c \in Workers |-> 0]
  /\ pc = [t \in Threads |-> "idle"]
  /\ pushed = 0
  /\ taken = {}

-----------------------------------------------------------------------------
(* pushMsg *)

\* Mutant: pushMsg without mute.lock().
PushLockUnguarded(p) ==
  /\ pc[p] = "idle"
  /\ pushed < MaxPushed
  /\ mute' = p
  /\ pc' = [pc EXCEPT ![p] = "trim"]
  /\ UNCHANGED <<buffer, outMsgList, msgCount, erased, pushed, taken>>

\* mute.lock() of pushMsg.
PushLock(p) ==
  /\ pc[p] = "idle"
  /\ pushed < MaxPushed
  /\ mute = NoThread
  /\ mute' = p
  /\ pc' = [pc EXCEPT ![p] = "trim"]
  /\ UNCHANGED <<buffer, outMsgList, msgCount, erased, pushed, taken>>

\* Mutant: the capacity test is off by one.
PushTrimOffByOne(p) ==
  /\ pc[p] = "trim"
  /\ buffer' = IF Len(buffer) > Cap THEN Tail(buffer) ELSE buffer
  /\ pushed' = pushed + 1
  /\ pc' = [pc EXCEPT ![p] = "append"]
  /\ UNCHANGED <<mute, outMsgList, msgCount, erased, taken>>

\* A full list loses its front.  This is where the push takes effect.
PushTrim(p) ==
  /\ pc[p] = "trim"
  /\ buffer' = IF Len(buffer) >= Cap THEN Tail(buffer) ELSE buffer
  /\ pushed' = pushed + 1
  /\ pc' = [pc EXCEPT ![p] = "append"]
  /\ UNCHANGED <<mute, outMsgList, msgCount, erased, taken>>

\* buffer.push_back(msg).
PushBack(p) ==
  /\ pc[p] = "append"
  /\ buffer' = Append(buffer, pushed)
  /\ pc' = [pc EXCEPT ![p] = "unlock"]
  /\ UNCHANGED <<mute, outMsgList, msgCount, erased, pushed, taken>>

\* mute.unlock() of pushMsg.
PushUnlock(p) ==
  /\ pc[p] = "unlock"
  /\ mute' = NoThread
  /\ pc' = [pc EXCEPT ![p] = "idle"]
  /\ UNCHANGED <<buffer, outMsgList, msgCount, erased, pushed, taken>>

-----------------------------------------------------------------------------
(* popMsg *)

\* SyncMsg makes an empty result list; mute.lock() of popMsg.
PopLock(c) ==
  /\ pc[c] = "idle"
  /\ mute = NoThread
  /\ mute' = c
  /\ outMsgList' = [outMsgList EXCEPT ![c] = << >>]
  /\ msgCount' = [msgCount EXCEPT ![c] = 0]
  /\ erased' = [erased EXCEPT ![c] = 0]
  /\ pc' = [pc EXCEPT ![c] = "copy"]
  /\ UNCHANGED <<buffer, pushed, taken>>

\* One turn of the copying loop, which breaks once Batch messages are out.
PopCopy(c) ==
  /\ pc[c] = "copy"
  /\ msgCount[c] < Len(buffer)
  /\ outMsgList' = [outMsgList EXCEPT ![c] = Append(@, buffer[msgCount[c] + 1])]
  /\ msgCount' = [msgCount EXCEPT ![c] = @ + 1]
  /\ IF msgCount[c] + 1 >= Batch
     THEN /\ pc' = [pc EXCEPT ![c] = "erase"]
          /\ taken' = taken \cup {outMsgList'[c][i] : i \in 1 .. msgCount[c] + 1}
     ELSE UNCHANGED <<pc, taken>>
  /\ UNCHANGED <<mute, buffer, erased, pushed>>

\* The copying loop has reached buffer.end().
PopCopyEnd(c) ==
  /\ pc[c] = "copy"
  /\ msgCount[c] >= Len(buffer)
  /\ pc' = [pc EXCEPT ![c] = "erase"]
  /\ taken' = taken \cup {outMsgList[c][i] : i \in 1 .. msgCount[c]}
  /\ UNCHANGED <<mute, buffer, outMsgList, msgCount, erased, pushed>>

\* Mutant: the erasing loop counts the wrong way.
PopEraseCountsDown(c) ==
  /\ pc[c] = "erase"
  /\ erased[c] < msgCount[c]
  /\ erased' = [erased EXCEPT ![c] = @ - 1]
  /\ buffer' = Tail(buffer)
  /\ UNCHANGED <<mute, outMsgList, msgCount, pc, pushed, taken>>

\* One turn of the erasing loop.
PopErase(c) ==
  /\ pc[c] = "erase"
  /\ erased[c] < msgCount[c]
  /\ erased' = [erased EXCEPT ![c] = @ + 1]
  /\ buffer' = Tail(buffer)
  /\ UNCHANGED <<mute, outMsgList, msgCount, pc, pushed, taken>>

\* mute.unlock() of popMsg.
PopUnlock(c) ==
  /\ pc[c] = "erase"
  /\ erased[c] >= msgCount[c]
  /\ mute' = NoThread
  /\ pc' = [pc EXCEPT ![c] = "idle"]
  /\ UNCHANGED <<buffer, outMsgList, msgCount, erased, pushed, taken>>

-----------------------------------------------------------------------------
pushMsg(p) == PushLock(p) \/ PushTrim(p) \/ PushBack(p) \/ PushUnlock(p)

popMsg(c) ==
  PopLock(c) \/ PopCopy(c) \/ PopCopyEnd(c) \/ PopErase(c) \/ PopUnlock(c)

Next == (\E p \in Hooks : pushMsg(p)) \/ (\E c \in Workers : popMsg(c))

Spec == Init /\ [][Next]_vars

-----------------------------------------------------------------------------
(* Properties *)

TypeOK ==
  /\ mute \in Threads \cup {NoThread}
  /\ buffer \in Seq(Nat)
  /\ outMsgList \in [Workers -> Seq(Nat)]
  /\ msgCount \in [Workers -> Nat]
  /\ erased \in [Workers -> Nat]
  /\ pc \in [Threads -> {"idle", "trim", "append", "unlock", "copy", "erase"}]
  /\ pushed \in Nat
  /\ taken \in SUBSET Nat

Appending == mute \in Hooks /\ pc[mute] = "append"
Erasing == mute \in Workers /\ pc[mute] = "erase"

\* Number of messages that reached the list.
landed == IF Appending THEN pushed - 1 ELSE pushed

\* At every step, inside the critical sections too, the list is the unbroken
\* run of the newest messages in the order of their pushes, and never longer
\* than Cap: neither pushMsg's trimming nor popMsg's two loops ever lose,
\* repeat or reorder a message in the middle.
NewestRun ==
  /\ Len(buffer) <= Cap
  /\ \A i \in 1 .. Len(buffer) : buffer[i] = landed - Len(buffer) + i

\* The cursor of the abstract queue: how many messages have left it.
headBar ==
  landed - Len(buffer) + IF Erasing THEN msgCount[mute] - erased[mute] ELSE 0

\* The batch of a call counts once its copying loop is over.
gotBar == [c \in Workers |-> IF pc[c] = "copy" THEN << >> ELSE outMsgList[c]]

\* A message that is neither in the list nor handed to a caller of SyncMsg
\* was pushed out by at least Cap newer ones.
NoSilentLoss ==
  \A i \in 1 .. pushed : i > headBar \/ i \in taken \/ i + Cap <= pushed

\* A message never enters a second result list, whichever workers call popMsg.
HandedOnce ==
  [][\A c \in Workers :
       outMsgList'[c] # outMsgList[c] =>
         \A i \in DOMAIN outMsgList'[c] : outMsgList'[c][i] \notin taken]_vars

Queue == INSTANCE MsgQueue WITH head <- headBar, got <- gotBar

\* The mutex makes pushMsg and popMsg the atomic operations of MsgQueue.
ImplementsQueue == Queue!QSpec

=============================================================================
