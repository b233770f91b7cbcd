------------------------------ MODULE MsgQueue ------------------------------
(***************************************************************************)
(* What MsgBuffer promises to its callers (MsgMonitor::AddMsg and          *)
(* MsgMonitor::SyncMsg): a bounded queue that keeps the newest messages.   *)
(*                                                                         *)
(* A message is its arrival number: message i is the i-th one whose push   *)
(* took effect.  The queue is a cursor over that log: the messages         *)
(* head+1 .. pushed are stored, in that order, and the others are gone,    *)
(* either handed to a caller of SyncMsg or evicted by a newer message.     *)
(***************************************************************************)
EXTENDS MsgLimits, Sequences

CONSTANT Workers   \* HTTP worker threads: the callers of SyncMsg

VARIABLES
  pushed,   \* number of messages pushed so far
  head,     \* messages 1 .. head have left the queue
  got,      \* got[c]: the batch of c's latest call of SyncMsg
  taken     \* history: every message ever handed to a caller of SyncMsg

qvars == <<pushed, head, got, taken>>

QInit ==
  /\ pushed = 0
  /\ head = 0
  /\ got = [c \in Workers |-> << >>]
  /\ taken = {}

\* AddMsg: a full queue loses its oldest message to make room.
Push ==
  /\ pushed < MaxPushed
  /\ pushed' = pushed + 1
  /\ head' = IF pushed - head >= Cap THEN head + 1 ELSE head
  /\ UNCHANGED <<got, taken>>

\* SyncMsg is called: its result list starts empty.
BeginSync(c) ==
  /\ got' = [got EXCEPT ![c] = << >>]
  /\ UNCHANGED <<pushed, head, taken>>

\* What a batch holds when the queue holds head+1 .. pushed.
BatchSize == IF pushed - head <= Batch THEN pushed - head ELSE Batch

\* SyncMsg takes the oldest messages, at most Batch of them.
Pop(c) ==
  /\ got' = [got EXCEPT ![c] = [i \in 1 .. BatchSize |-> head + i]]
  /\ taken' = taken \cup (head + 1 .. head + BatchSize)
  /\ head' = head + BatchSize
  /\ UNCHANGED pushed

QNext == Push \/ \E c \in Workers : BeginSync(c) \/ Pop(c)

QSpec == QInit /\ [][QNext]_qvars

-----------------------------------------------------------------------------
QTypeOK ==
  /\ pushed \in Nat
  /\ head \in Nat
  /\ got \in [Workers -> Seq(Nat)]
  /\ taken \in SUBSET Nat

\* The cursor stays inside the log, the stored messages fit the capacity and
\* what was handed out is behind the cursor.
QueueBounds ==
  /\ head <= pushed
  /\ pushed - head <= Cap
  /\ \A i \in taken : 1 <= i /\ i <= head

\* A message that is neither stored nor handed out is one that at least Cap
\* newer messages pushed out: the queue drops only its oldest, and only when
\* it is full.
QNoSilentLoss ==
  \A i \in 1 .. pushed : i > head \/ i \in taken \/ i + Cap <= pushed

\* No message is handed out twice, whoever calls SyncMsg.
QHandedOnce ==
  [][\A c \in Workers :
       got'[c] # got[c] => \A i \in DOMAIN got'[c] : got'[c][i] \notin taken]_qvars

=============================================================================
