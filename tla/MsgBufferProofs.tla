--------------------------- MODULE MsgBufferProofs ---------------------------
(***************************************************************************)
(* MsgBuffer is correct for every number of hook threads and workers,      *)
(* every capacity and every batch size.                                    *)
(*                                                                         *)
(* The inductive invariant says what each thread knows at its statement:   *)
(* only the owner of the mutex is inside a critical section (LockInv), a   *)
(* push that trimmed the list has room for its message (PushInv), the list *)
(* is the run of the newest messages (RunInv), a copying popMsg holds the  *)
(* front of the list (CopyInv) and an erasing one never erases more than   *)
(* what it copied (EraseInv).  MsgBuffer implements MsgQueue, and MsgQueue *)
(* keeps what it promises, at the end.                                     *)
(***************************************************************************)
EXTENDS MsgBuffer, SequenceTheorems, TLAPS

LockInv ==
  /\ \A t \in Threads : pc[t] # "idle" <=> mute = t
  /\ \A p \in Hooks : pc[p] \in {"idle", "trim", "append", "unlock"}
  /\ \A c \in Workers : pc[c] \in {"idle", "copy", "erase"}

PushInv ==
  /\ \A p \in Hooks : pc[p] = "trim" => pushed < MaxPushed
  /\ \A p \in Hooks : pc[p] = "append" => Len(buffer) < Cap

RunInv ==
  /\ NewestRun
  /\ Len(buffer) <= landed

CopyInv ==
  \A c \in Workers : pc[c] = "copy" =>
    /\ msgCount[c] < Batch
    /\ msgCount[c] <= Len(buffer)
    /\ erased[c] = 0
    /\ Len(outMsgList[c]) = msgCount[c]
    /\ \A i \in 1 .. msgCount[c] : outMsgList[c][i] = pushed - Len(buffer) + i

EraseInv ==
  \A c \in Workers : pc[c] = "erase" =>
    /\ erased[c] <= msgCount[c]
    /\ msgCount[c] - erased[c] <= Len(buffer)

TakenInv == \A i \in taken : 1 <= i /\ i <= headBar

IInv ==
  /\ TypeOK
  /\ LockInv
  /\ PushInv
  /\ RunInv
  /\ CopyInv
  /\ EraseInv
  /\ TakenInv

-----------------------------------------------------------------------------
\* Nobody is in the middle of anything while the mutex is free.
LEMMA FreeMutex ==
  ASSUME TypeOK, mute = NoThread
  PROVE  landed = pushed /\ headBar = pushed - Len(buffer)
BY LimitsAssumption, BufferAssumption, LenProperties
   DEF TypeOK, Threads, landed, headBar, Appending, Erasing

\* What the history variables mean while a hook holds the mutex.
LEMMA HookOwner ==
  ASSUME TypeOK, NEW p \in Hooks, mute = p
  PROVE  /\ pc[p] = "append" => landed = pushed - 1 /\ headBar = pushed - Len(buffer) - 1
         /\ pc[p] # "append" => landed = pushed /\ headBar = pushed - Len(buffer)
BY LimitsAssumption, BufferAssumption, LenProperties
   DEF TypeOK, Threads, landed, headBar, Appending, Erasing

\* What the history variables mean while a worker holds the mutex.
LEMMA WorkerOwner ==
  ASSUME TypeOK, NEW c \in Workers, mute = c
  PROVE  /\ landed = pushed
         /\ pc[c] = "erase" =>
              headBar = pushed - Len(buffer) + (msgCount[c] - erased[c])
         /\ pc[c] # "erase" => headBar = pushed - Len(buffer)
BY LimitsAssumption, BufferAssumption, LenProperties
   DEF TypeOK, Threads, landed, headBar, Appending, Erasing

\* The invariant holds when the list is made.
LEMMA InitIInv == Init => IInv
<1> SUFFICES ASSUME Init
             PROVE  IInv
  OBVIOUS
<1> USE LimitsAssumption, BufferAssumption DEF Init
<1>1. TypeOK
  BY DEF TypeOK
<1>2. landed = pushed /\ headBar = pushed - Len(buffer)
  BY <1>1, FreeMutex
<1>3. LockInv
  BY DEF LockInv, Threads
<1>4. PushInv /\ CopyInv /\ EraseInv
  BY DEF PushInv, CopyInv, EraseInv, Threads
<1>5. RunInv /\ TakenInv
  BY <1>2 DEF RunInv, NewestRun, TakenInv
<1> QED BY <1>1, <1>3, <1>4, <1>5 DEF IInv

-----------------------------------------------------------------------------
(* Every statement of pushMsg keeps the invariant. *)

\* mute.lock() of pushMsg.
LEMMA PushLockInv ==
  ASSUME IInv, NEW p \in Hooks, PushLock(p)
  PROVE  IInv'
<1> USE LimitsAssumption, BufferAssumption DEF IInv, PushLock
<1>1. landed = pushed /\ headBar = pushed - Len(buffer)
  BY FreeMutex
<1>2. landed' = landed /\ headBar' = headBar
  BY <1>1 DEF landed, headBar, Appending, Erasing, TypeOK, Threads
<1>3. TypeOK'
  BY DEF TypeOK, Threads
<1>4. LockInv'
  BY DEF LockInv, TypeOK, Threads
<1>5. PushInv' /\ CopyInv' /\ EraseInv'
  BY DEF PushInv, CopyInv, EraseInv, TypeOK, Threads
<1>6. RunInv' /\ TakenInv'
  BY <1>2 DEF RunInv, NewestRun, TakenInv
<1> QED BY <1>3, <1>4, <1>5, <1>6

\* Making room: the oldest message goes when the list is full.
LEMMA PushTrimInv ==
  ASSUME IInv, NEW p \in Hooks, PushTrim(p)
  PROVE  IInv'
<1> USE LimitsAssumption, BufferAssumption DEF IInv, PushTrim
<1>1. mute = p
  BY DEF LockInv, Threads
<1>2. landed = pushed /\ headBar = pushed - Len(buffer)
  BY <1>1, HookOwner
<1>3. landed' = pushed /\ headBar' = pushed - Len(buffer')
  BY <1>1 DEF landed, headBar, Appending, Erasing, TypeOK, Threads
<1>4. /\ buffer' \in Seq(Nat)
      /\ Len(buffer') < Cap
      /\ Len(buffer') <= Len(buffer)
      /\ \A i \in 1 .. Len(buffer') : buffer'[i] = pushed - Len(buffer') + i
  <2>1. CASE Len(buffer) >= Cap
    <3>1. buffer # << >>
      BY <2>1
    <3>2. /\ Tail(buffer) \in Seq(Nat)
          /\ Len(Tail(buffer)) = Len(buffer) - 1
          /\ \A i \in 1 .. Len(Tail(buffer)) : Tail(buffer)[i] = buffer[i + 1]
      BY <3>1, HeadTailProperties DEF TypeOK
    <3> QED BY <1>2, <2>1, <3>2 DEF RunInv, NewestRun, TypeOK
  <2>2. CASE ~(Len(buffer) >= Cap)
    BY <1>2, <2>2 DEF RunInv, NewestRun, TypeOK
  <2> QED BY <2>1, <2>2
<1>5. TypeOK'
  BY <1>4 DEF TypeOK, Threads
<1>6. LockInv'
  BY <1>1 DEF LockInv, TypeOK, Threads
<1>7. PushInv' /\ CopyInv' /\ EraseInv'
  BY <1>1, <1>4 DEF PushInv, CopyInv, EraseInv, LockInv, TypeOK, Threads
<1>8. NewestRun'
  <2>1. Len(buffer') \in Nat
    BY <1>4
  <2>2. Len(buffer') <= Cap
    BY <1>4, <2>1
  <2>3. \A i \in 1 .. Len(buffer') : buffer'[i] = landed' - Len(buffer') + i
    BY <1>3, <1>4
  <2> QED BY <2>2, <2>3 DEF NewestRun
<1>9. Len(buffer') <= landed'
  BY <1>2, <1>3, <1>4 DEF RunInv, TypeOK
<1>10. headBar <= headBar'
  BY <1>2, <1>3, <1>4 DEF TypeOK
<1>11. TakenInv'
  BY <1>2, <1>3, <1>4, <1>10 DEF TakenInv, TypeOK
<1> QED BY <1>5, <1>6, <1>7, <1>8, <1>9, <1>11 DEF RunInv

\* buffer.push_back(msg): the message lands at the end of the run.
LEMMA PushBackInv ==
  ASSUME IInv, NEW p \in Hooks, PushBack(p)
  PROVE  IInv'
<1> USE LimitsAssumption, BufferAssumption DEF IInv, PushBack
<1>1. mute = p
  BY DEF LockInv, Threads
<1>2. landed = pushed - 1 /\ headBar = pushed - Len(buffer) - 1
  BY <1>1, HookOwner
<1>3. landed' = pushed /\ headBar' = pushed - Len(buffer')
  BY <1>1 DEF landed, headBar, Appending, Erasing, TypeOK, Threads
<1>4. /\ buffer' \in Seq(Nat)
      /\ Len(buffer') = Len(buffer) + 1
      /\ \A i \in 1 .. Len(buffer) : buffer'[i] = buffer[i]
      /\ buffer'[Len(buffer) + 1] = pushed
  BY AppendProperties DEF TypeOK
<1>5. TypeOK'
  BY <1>4 DEF TypeOK, Threads
<1>6. LockInv'
  BY <1>1 DEF LockInv, TypeOK, Threads
<1>7. PushInv' /\ CopyInv' /\ EraseInv'
  BY <1>1 DEF PushInv, CopyInv, EraseInv, LockInv, TypeOK, Threads
<1>8. NewestRun'
  <2>1. Len(buffer') <= Cap
    BY <1>4 DEF PushInv, TypeOK
  <2>2. ASSUME NEW i \in 1 .. Len(buffer')
        PROVE  buffer'[i] = landed' - Len(buffer') + i
    <3>1. CASE i = Len(buffer) + 1
      BY <1>3, <1>4, <3>1 DEF TypeOK
    <3>2. CASE i \in 1 .. Len(buffer)
      BY <1>2, <1>3, <1>4, <3>2 DEF RunInv, NewestRun, TypeOK
    <3> QED BY <1>4, <3>1, <3>2 DEF TypeOK
  <2> QED BY <2>1, <2>2 DEF NewestRun
<1>9. Len(buffer') <= landed' /\ TakenInv'
  BY <1>2, <1>3, <1>4 DEF RunInv, TakenInv, TypeOK
<1> QED BY <1>5, <1>6, <1>7, <1>8, <1>9 DEF RunInv

\* mute.unlock() of pushMsg.
LEMMA PushUnlockInv ==
  ASSUME IInv, NEW p \in Hooks, PushUnlock(p)
  PROVE  IInv'
<1> USE LimitsAssumption, BufferAssumption DEF IInv, PushUnlock
<1>1. mute = p
  BY DEF LockInv, Threads
<1>2. landed = pushed /\ headBar = pushed - Len(buffer)
  BY <1>1, HookOwner
<1>3. landed' = landed /\ headBar' = headBar
  BY <1>2 DEF landed, headBar, Appending, Erasing, TypeOK, Threads
<1>4. TypeOK'
  BY DEF TypeOK, Threads
<1>5. LockInv'
  BY <1>1 DEF LockInv, TypeOK, Threads
<1>6. PushInv' /\ CopyInv' /\ EraseInv'
  BY DEF PushInv, CopyInv, EraseInv, TypeOK, Threads
<1>7. RunInv' /\ TakenInv'
  BY <1>3 DEF RunInv, NewestRun, TakenInv
<1> QED BY <1>4, <1>5, <1>6, <1>7

-----------------------------------------------------------------------------
(* Every statement of popMsg keeps the invariant. *)

\* mute.lock() of popMsg, with the empty result list.
LEMMA PopLockInv ==
  ASSUME IInv, NEW c \in Workers, PopLock(c)
  PROVE  IInv'
<1> USE LimitsAssumption, BufferAssumption DEF IInv, PopLock
<1>1. landed = pushed /\ headBar = pushed - Len(buffer)
  BY FreeMutex
<1>2. landed' = landed /\ headBar' = headBar
  BY <1>1 DEF landed, headBar, Appending, Erasing, TypeOK, Threads
<1>3. /\ outMsgList' \in [Workers -> Seq(Nat)]
      /\ outMsgList'[c] = << >>
      /\ \A d \in Workers : d # c => outMsgList'[d] = outMsgList[d]
  BY DEF TypeOK
<1>4. TypeOK'
  BY <1>3 DEF TypeOK, Threads
<1>5. LockInv'
  BY DEF LockInv, TypeOK, Threads
<1>6. PushInv' /\ EraseInv'
  BY DEF PushInv, EraseInv, TypeOK, Threads
<1>7. CopyInv'
  BY <1>3 DEF CopyInv, TypeOK, Threads
<1>8. RunInv' /\ TakenInv'
  BY <1>2 DEF RunInv, NewestRun, TakenInv
<1> QED BY <1>4, <1>5, <1>6, <1>7, <1>8

\* One turn of the copying loop copies the front of the list that is not
\* copied yet; the turn that fills the batch makes the call take effect.
LEMMA PopCopyInv ==
  ASSUME IInv, NEW c \in Workers, PopCopy(c)
  PROVE  IInv'
<1> USE LimitsAssumption, BufferAssumption DEF IInv, PopCopy
<1>1. mute = c
  BY DEF LockInv, Threads
<1>2. landed = pushed /\ headBar = pushed - Len(buffer)
  BY <1>1, WorkerOwner
<1>3. /\ msgCount[c] < Batch
      /\ erased[c] = 0
      /\ Len(outMsgList[c]) = msgCount[c]
      /\ \A i \in 1 .. msgCount[c] : outMsgList[c][i] = pushed - Len(buffer) + i
  BY DEF CopyInv
<1>4. /\ msgCount[c] + 1 \in 1 .. Len(buffer)
      /\ buffer[msgCount[c] + 1] = pushed - Len(buffer) + (msgCount[c] + 1)
      /\ buffer[msgCount[c] + 1] \in Nat
  BY <1>2 DEF TypeOK, RunInv, NewestRun
<1> DEFINE out == Append(outMsgList[c], buffer[msgCount[c] + 1])
<1>5. /\ out \in Seq(Nat)
      /\ Len(out) = msgCount[c] + 1
      /\ \A i \in 1 .. msgCount[c] : out[i] = outMsgList[c][i]
      /\ out[msgCount[c] + 1] = buffer[msgCount[c] + 1]
  BY <1>3, <1>4, AppendProperties DEF TypeOK
<1>6. \A i \in 1 .. msgCount[c] + 1 : out[i] = pushed - Len(buffer) + i
  <2> SUFFICES ASSUME NEW i \in 1 .. msgCount[c] + 1
               PROVE  out[i] = pushed - Len(buffer) + i
    OBVIOUS
  <2>1. CASE i = msgCount[c] + 1
    BY <1>4, <1>5, <2>1
  <2>2. CASE i \in 1 .. msgCount[c]
    BY <1>3, <1>5, <2>2
  <2> HIDE DEF out
  <2> QED BY <2>1, <2>2 DEF TypeOK
<1>7. outMsgList' = [outMsgList EXCEPT ![c] = out]
  OBVIOUS
<1> HIDE DEF out
<1>8. /\ outMsgList' \in [Workers -> Seq(Nat)]
      /\ outMsgList'[c] = out
      /\ \A d \in Workers : d # c => outMsgList'[d] = outMsgList[d]
  BY <1>5, <1>7 DEF TypeOK
<1>9. /\ msgCount' \in [Workers -> Nat]
      /\ msgCount'[c] = msgCount[c] + 1
      /\ \A d \in Workers : d # c => msgCount'[d] = msgCount[d]
  BY DEF TypeOK
<1>10. CASE msgCount[c] + 1 >= Batch
  <2>1. /\ pc' = [pc EXCEPT ![c] = "erase"]
        /\ taken' = taken \cup {out[i] : i \in 1 .. msgCount[c] + 1}
    BY <1>8, <1>10
  <2>2. landed' = pushed /\ headBar' = pushed - Len(buffer) + (msgCount[c] + 1)
    BY <1>1, <1>3, <1>9, <2>1 DEF landed, headBar, Appending, Erasing, TypeOK, Threads
  <2>3. TypeOK'
    <3>1. \A k \in 1 .. msgCount[c] + 1 : out[k] \in Nat
      BY <1>5, ElementOfSeq
    <3>2. taken' \in SUBSET Nat
      <4>1. taken \in SUBSET Nat
        BY DEF TypeOK
      <4> QED
        BY <2>1, <3>1, <4>1, Zenon
    <3> QED BY <1>8, <1>9, <2>1, <3>2 DEF TypeOK, Threads
  <2>4. LockInv'
    BY <1>1, <2>1 DEF LockInv, TypeOK, Threads
  <2>5. PushInv' /\ CopyInv' /\ EraseInv'
    BY <1>1, <1>3, <1>4, <1>9, <2>1
       DEF PushInv, CopyInv, EraseInv, LockInv, TypeOK, Threads
  <2>6. RunInv'
    BY <1>2, <2>2 DEF RunInv, NewestRun
  <2>7. TakenInv'
    <3>1. headBar \in Nat /\ headBar' = headBar + msgCount[c] + 1
      BY <1>2, <2>2 DEF RunInv, TypeOK
    <3>2. \A i \in taken : 1 <= i /\ i <= headBar'
      BY <1>4, <3>1 DEF TakenInv, TypeOK
    <3>3. \A k \in 1 .. msgCount[c] + 1 : 1 <= out[k] /\ out[k] <= headBar'
      <4>1. \A k \in 1 .. msgCount[c] + 1 : out[k] = pushed - Len(buffer) + k
        BY <1>6
      <4>2. pushed \in Nat /\ Len(buffer) \in Nat /\ msgCount[c] \in Nat
        BY LenProperties DEF TypeOK
      <4>3. Len(buffer) <= pushed
        BY <1>2 DEF RunInv
      <4>4. headBar' = pushed - Len(buffer) + (msgCount[c] + 1)
        BY <2>2
      <4> HIDE DEF IInv, PopCopy
      <4> SUFFICES ASSUME NEW k \in 1 .. msgCount[c] + 1
                   PROVE  1 <= out[k] /\ out[k] <= headBar'
        OBVIOUS
      <4>5. out[k] = pushed - Len(buffer) + k
        BY <4>1
      <4> QED BY <4>2, <4>3, <4>4, <4>5
    <3> QED BY <2>1, <3>2, <3>3 DEF TakenInv
  <2> QED BY <2>3, <2>4, <2>5, <2>6, <2>7
<1>11. CASE ~(msgCount[c] + 1 >= Batch)
  <2>1. pc' = pc /\ taken' = taken
    BY <1>11
  <2>2. landed' = landed /\ headBar' = headBar
    BY <1>1, <1>2, <2>1 DEF landed, headBar, Appending, Erasing, TypeOK, Threads
  <2>3. TypeOK'
    BY <1>8, <1>9, <2>1 DEF TypeOK, Threads
  <2>4. LockInv'
    BY <2>1 DEF LockInv
  <2>5. PushInv' /\ EraseInv'
    BY <1>1, <2>1 DEF PushInv, EraseInv, LockInv, TypeOK, Threads
  <2>6. CopyInv'
    <3>1. \A d \in Workers : pc'[d] = "copy" => d = c
      BY <1>1, <2>1 DEF LockInv, Threads
    <3>2. msgCount'[c] < Batch /\ msgCount'[c] <= Len(buffer')
      BY <1>4, <1>9, <1>11 DEF TypeOK
    <3> QED BY <1>3, <1>5, <1>6, <1>8, <1>9, <3>1, <3>2 DEF CopyInv
  <2>7. RunInv' /\ TakenInv'
    BY <2>1, <2>2 DEF RunInv, NewestRun, TakenInv
  <2> QED BY <2>3, <2>4, <2>5, <2>6, <2>7
<1> QED BY <1>10, <1>11

\* The copying loop has met the end of the list: the call takes effect.
LEMMA PopCopyEndInv ==
  ASSUME IInv, NEW c \in Workers, PopCopyEnd(c)
  PROVE  IInv'
<1> USE LimitsAssumption, BufferAssumption DEF IInv, PopCopyEnd
<1>1. mute = c
  BY DEF LockInv, Threads
<1>2. landed = pushed /\ headBar = pushed - Len(buffer)
  BY <1>1, WorkerOwner
<1>3. /\ erased[c] = 0
      /\ msgCount[c] = Len(buffer)
      /\ Len(outMsgList[c]) = msgCount[c]
      /\ \A i \in 1 .. msgCount[c] : outMsgList[c][i] = pushed - Len(buffer) + i
  BY DEF CopyInv, TypeOK
<1>4. landed' = pushed /\ headBar' = pushed - Len(buffer) + msgCount[c]
  BY <1>1, <1>3 DEF landed, headBar, Appending, Erasing, TypeOK, Threads
<1>5. TypeOK'
  <2>1. \A k \in 1 .. msgCount[c] : outMsgList[c][k] \in Nat
    BY <1>3, ElementOfSeq DEF TypeOK
  <2>2. taken' \in SUBSET Nat
    <3>1. taken' = taken \cup {outMsgList[c][k] : k \in 1 .. msgCount[c]} /\ taken \in SUBSET Nat
      BY DEF TypeOK
    <3> QED
      BY <2>1, <3>1, Zenon
  <2> QED BY <2>2 DEF TypeOK, Threads
<1>6. LockInv'
  BY <1>1 DEF LockInv, TypeOK, Threads
<1>7. PushInv' /\ CopyInv' /\ EraseInv'
  BY <1>1, <1>3 DEF PushInv, CopyInv, EraseInv, LockInv, TypeOK, Threads
<1>8. RunInv'
  BY <1>2, <1>4 DEF RunInv, NewestRun
<1>9. TakenInv'
  <2>1. headBar \in Nat /\ msgCount[c] \in Nat /\ headBar' = headBar + msgCount[c]
    BY <1>2, <1>4 DEF RunInv, TypeOK
  <2>2. \A i \in taken : i \in Nat /\ 1 <= i /\ i <= headBar
    BY DEF TakenInv, TypeOK
  <2>3. ASSUME NEW k \in 1 .. msgCount[c]
        PROVE  1 <= outMsgList[c][k] /\ outMsgList[c][k] <= headBar'
    <3>1. outMsgList[c][k] = headBar + k
      BY <1>2, <1>3
    <3> QED BY <2>1, <3>1 DEF TypeOK
  <2>4. \A i \in taken : 1 <= i /\ i <= headBar'
    BY <2>1, <2>2
  <2> QED BY <2>3, <2>4 DEF TakenInv
<1> QED BY <1>5, <1>6, <1>7, <1>8, <1>9

\* One turn of the erasing loop: there is a message to erase, and it is one
\* that the call has copied.
LEMMA PopEraseInv ==
  ASSUME IInv, NEW c \in Workers, PopErase(c)
  PROVE  IInv'
<1> USE LimitsAssumption, BufferAssumption DEF IInv, PopErase
<1>1. mute = c
  BY DEF LockInv, Threads
<1>2. /\ landed = pushed
      /\ headBar = pushed - Len(buffer) + (msgCount[c] - erased[c])
  BY <1>1, WorkerOwner
<1>3. Len(buffer) >= 1 /\ msgCount[c] - erased[c] <= Len(buffer)
  BY DEF EraseInv, TypeOK
<1>4. /\ buffer' \in Seq(Nat)
      /\ Len(buffer') = Len(buffer) - 1
      /\ \A i \in 1 .. Len(buffer') : buffer'[i] = buffer[i + 1]
  BY <1>3, HeadTailProperties DEF TypeOK
<1>5. /\ erased' \in [Workers -> Nat]
      /\ erased'[c] = erased[c] + 1
  BY DEF TypeOK
<1>6. landed' = landed /\ headBar' = headBar
  BY <1>1, <1>2, <1>4, <1>5
     DEF landed, headBar, Appending, Erasing, TypeOK, Threads
<1>7. TypeOK'
  BY <1>4, <1>5 DEF TypeOK
<1>8. LockInv'
  BY DEF LockInv
<1>9. PushInv' /\ CopyInv'
  BY <1>1 DEF PushInv, CopyInv, LockInv, TypeOK, Threads
<1>10. EraseInv'
  BY <1>1, <1>3, <1>4, <1>5 DEF EraseInv, LockInv, TypeOK, Threads
<1>11. RunInv'
  BY <1>2, <1>4, <1>6 DEF RunInv, NewestRun, TypeOK
<1>12. TakenInv'
  BY <1>6 DEF TakenInv
<1> QED BY <1>7, <1>8, <1>9, <1>10, <1>11, <1>12

\* mute.unlock() of popMsg: everything copied has been erased.
LEMMA PopUnlockInv ==
  ASSUME IInv, NEW c \in Workers, PopUnlock(c)
  PROVE  IInv'
<1> USE LimitsAssumption, BufferAssumption DEF IInv, PopUnlock
<1>1. mute = c
  BY DEF LockInv, Threads
<1>2. erased[c] = msgCount[c]
  BY DEF EraseInv, TypeOK
<1>3. landed = pushed /\ headBar = pushed - Len(buffer)
  BY <1>1, <1>2, WorkerOwner DEF TypeOK
<1>4. landed' = landed /\ headBar' = headBar
  BY <1>3 DEF landed, headBar, Appending, Erasing, TypeOK, Threads
<1>5. TypeOK'
  BY DEF TypeOK
<1>6. LockInv'
  BY <1>1 DEF LockInv, TypeOK, Threads
<1>7. PushInv' /\ CopyInv' /\ EraseInv'
  BY DEF PushInv, CopyInv, EraseInv, TypeOK, Threads
<1>8. RunInv' /\ TakenInv'
  BY <1>4 DEF RunInv, NewestRun, TakenInv
<1> QED BY <1>5, <1>6, <1>7, <1>8

\* The invariant is inductive.
LEMMA NextIInv == IInv /\ [Next]_vars => IInv'
<1> SUFFICES ASSUME IInv, [Next]_vars
             PROVE  IInv'
  OBVIOUS
<1>1. ASSUME NEW p \in Hooks, pushMsg(p)
      PROVE  IInv'
  BY <1>1, PushLockInv, PushTrimInv, PushBackInv, PushUnlockInv DEF pushMsg
<1>2. ASSUME NEW c \in Workers, popMsg(c)
      PROVE  IInv'
  BY <1>2, PopLockInv, PopCopyInv, PopCopyEndInv, PopEraseInv, PopUnlockInv
     DEF popMsg
<1>3. CASE UNCHANGED vars
  <2>1. landed' = landed /\ headBar' = headBar
    BY <1>3 DEF vars, landed, headBar, Appending, Erasing
  <2> QED BY <1>3, <2>1 DEF vars, IInv, TypeOK, LockInv, PushInv, RunInv,
             NewestRun, CopyInv, EraseInv, TakenInv
<1> QED BY <1>1, <1>2, <1>3 DEF Next

LEMMA SpecIInv == Spec => []IInv
BY InitIInv, NextIInv, PTL DEF Spec

-----------------------------------------------------------------------------
(* The theorems. *)

\* Every variable keeps its type.
THEOREM BufferTypeCorrect == Spec => []TypeOK
<1>1. IInv => TypeOK
  BY DEF IInv
<1> QED BY SpecIInv, <1>1, PTL

\* One thread at a time is between mute.lock() and mute.unlock(), and it is
\* the one that holds the mutex.
THEOREM MutexHeld ==
  Spec => [](\A s, t \in Threads : pc[s] # "idle" /\ pc[t] # "idle" => s = t)
<1>1. IInv => \A s, t \in Threads : pc[s] # "idle" /\ pc[t] # "idle" => s = t
  BY DEF IInv, LockInv
<1> QED BY SpecIInv, <1>1, PTL

\* The list is always the unbroken run of the newest messages, never longer
\* than its capacity.
THEOREM BufferKeepsNewest == Spec => []NewestRun
<1>1. IInv => NewestRun
  BY DEF IInv, RunInv
<1> QED BY SpecIInv, <1>1, PTL

\* No message enters two result lists.
THEOREM BufferHandsOutOnce == Spec => HandedOnce
<1> DEFINE Fresh == \A c \in Workers :
             outMsgList'[c] # outMsgList[c] =>
               \A i \in DOMAIN outMsgList'[c] : outMsgList'[c][i] \notin taken
<1>1. IInv /\ [Next]_vars => [Fresh]_vars
  <2> SUFFICES ASSUME IInv, Next
               PROVE  Fresh
    OBVIOUS
  <2> USE LimitsAssumption, BufferAssumption DEF IInv
  <2>1. ASSUME NEW p \in Hooks, pushMsg(p)
        PROVE  Fresh
    BY <2>1 DEF pushMsg, PushLock, PushTrim, PushBack, PushUnlock
  <2>2. ASSUME NEW d \in Workers, PopLock(d)
        PROVE  Fresh
    BY <2>2 DEF PopLock, TypeOK
  <2>3. ASSUME NEW d \in Workers, PopCopy(d)
        PROVE  Fresh
    <3>1. mute = d
      BY <2>3 DEF PopCopy, LockInv, Threads
    <3>2. landed = pushed /\ headBar = pushed - Len(buffer)
      BY <2>3, <3>1, WorkerOwner DEF PopCopy
    <3>3. /\ Len(outMsgList[d]) = msgCount[d]
          /\ \A i \in 1 .. msgCount[d] : outMsgList[d][i] = pushed - Len(buffer) + i
          /\ msgCount[d] + 1 \in 1 .. Len(buffer)
          /\ buffer[msgCount[d] + 1] = pushed - Len(buffer) + (msgCount[d] + 1)
          /\ buffer[msgCount[d] + 1] \in Nat
      <4>1. /\ Len(outMsgList[d]) = msgCount[d]
            /\ \A i \in 1 .. msgCount[d] :
                 outMsgList[d][i] = pushed - Len(buffer) + i
        BY <2>3 DEF PopCopy, CopyInv
      <4>2. msgCount[d] + 1 \in 1 .. Len(buffer)
        BY <2>3 DEF PopCopy, TypeOK
      <4>3. buffer[msgCount[d] + 1] = pushed - Len(buffer) + (msgCount[d] + 1)
        BY <3>2, <4>2 DEF RunInv, NewestRun
      <4>4. buffer[msgCount[d] + 1] \in Nat
        BY <4>2, ElementOfSeq DEF TypeOK
      <4> QED BY <4>1, <4>2, <4>3, <4>4
    <3> DEFINE out == Append(outMsgList[d], buffer[msgCount[d] + 1])
    <3>4. /\ out \in Seq(Nat)
          /\ Len(out) = msgCount[d] + 1
          /\ \A i \in 1 .. msgCount[d] : out[i] = outMsgList[d][i]
          /\ out[msgCount[d] + 1] = buffer[msgCount[d] + 1]
      BY <3>3, AppendProperties DEF TypeOK
    <3>5. ASSUME NEW i \in DOMAIN out
          PROVE  out[i] \notin taken
      <4>1. i \in 1 .. msgCount[d] + 1
        BY <3>4, LenProperties
      <4>2. out[i] = headBar + i
        <5>1. CASE i = msgCount[d] + 1
          BY <3>2, <3>3, <3>4, <5>1
        <5>2. CASE i \in 1 .. msgCount[d]
          BY <3>2, <3>3, <3>4, <5>2
        <5> HIDE DEF out
        <5> QED BY <4>1, <5>1, <5>2 DEF TypeOK
      <4> QED BY <3>2, <4>1, <4>2 DEF TakenInv, RunInv, TypeOK
    <3>6. outMsgList' = [outMsgList EXCEPT ![d] = out]
      BY <2>3 DEF PopCopy
    <3> HIDE DEF out
    <3> QED BY <3>5, <3>6 DEF TypeOK
  <2>4. ASSUME NEW d \in Workers, PopCopyEnd(d) \/ PopErase(d) \/ PopUnlock(d)
        PROVE  Fresh
    BY <2>4 DEF PopCopyEnd, PopErase, PopUnlock
  <2> QED BY <2>1, <2>2, <2>3, <2>4 DEF Next, popMsg
<1> QED BY SpecIInv, <1>1, PTL DEF Spec, HandedOnce

-----------------------------------------------------------------------------
(* MsgBuffer implements MsgQueue. *)

\* The statement that makes room is the abstract Push.
LEMMA PushTrimRefines ==
  ASSUME IInv, NEW p \in Hooks, PushTrim(p)
  PROVE  Queue!Push
<1> USE LimitsAssumption, BufferAssumption DEF IInv, PushTrim
<1>1. mute = p
  BY DEF LockInv, Threads
<1>2. landed = pushed /\ headBar = pushed - Len(buffer)
  BY <1>1, HookOwner
<1>3. headBar' = pushed - Len(buffer')
  BY <1>1 DEF landed, headBar, Appending, Erasing, TypeOK, Threads
<1>4. Len(buffer') = IF Len(buffer) >= Cap THEN Len(buffer) - 1 ELSE Len(buffer)
  <2>1. CASE Len(buffer) >= Cap
    <3>1. buffer # << >>
      BY <2>1
    <3> QED BY <2>1, <3>1, HeadTailProperties DEF TypeOK
  <2>2. CASE ~(Len(buffer) >= Cap)
    BY <2>2
  <2> QED BY <2>1, <2>2
<1>5. pushed < MaxPushed
  BY DEF PushInv
<1>6. headBar' = IF pushed - headBar >= Cap THEN headBar + 1 ELSE headBar
  <2>1. pushed - headBar = Len(buffer) /\ Len(buffer) \in Nat /\ pushed \in Nat
    BY <1>2 DEF TypeOK
  <2>2. CASE Len(buffer) >= Cap
    <3>1. headBar' = headBar + 1
      <4>1. Len(buffer') = Len(buffer) - 1
        BY <1>4, <2>2
      <4> HIDE DEF IInv, PushTrim
      <4> QED BY <1>2, <1>3, <2>1, <4>1
    <3> QED BY <2>1, <2>2, <3>1
  <2>3. CASE ~(Len(buffer) >= Cap)
    <3>1. headBar' = headBar
      BY <1>2, <1>3, <1>4, <2>1, <2>3
    <3> QED BY <2>1, <2>3, <3>1
  <2> QED BY <2>2, <2>3
<1>7. gotBar' = gotBar
  BY DEF gotBar, TypeOK, Threads
<1> QED BY <1>5, <1>6, <1>7 DEF Queue!Push

\* The other statements of pushMsg are not visible in the queue.
LEMMA PushHidden ==
  ASSUME IInv, NEW p \in Hooks, PushLock(p) \/ PushBack(p) \/ PushUnlock(p)
  PROVE  UNCHANGED Queue!qvars
<1> USE LimitsAssumption, BufferAssumption DEF IInv
<1>1. gotBar' = gotBar
  BY DEF gotBar, PushLock, PushBack, PushUnlock, TypeOK, Threads
<1>2. headBar' = headBar
  <2>1. CASE PushLock(p)
    BY <2>1, FreeMutex
       DEF PushLock, landed, headBar, Appending, Erasing, TypeOK, Threads
  <2>2. CASE PushBack(p)
    <3>1. mute = p
      BY <2>2 DEF PushBack, LockInv, Threads
    <3>2. Len(buffer') = Len(buffer) + 1
      BY <2>2, AppendProperties DEF PushBack, TypeOK
    <3> QED BY <2>2, <3>1, <3>2, HookOwner
            DEF PushBack, landed, headBar, Appending, Erasing, TypeOK, Threads
  <2>3. CASE PushUnlock(p)
    <3>1. mute = p
      BY <2>3 DEF PushUnlock, LockInv, Threads
    <3> QED BY <2>3, <3>1, HookOwner
            DEF PushUnlock, landed, headBar, Appending, Erasing, TypeOK, Threads
  <2> QED BY <2>1, <2>2, <2>3
<1> QED BY <1>1, <1>2 DEF Queue!qvars, PushLock, PushBack, PushUnlock

\* mute.lock() of popMsg begins the abstract call.
LEMMA PopLockRefines ==
  ASSUME IInv, NEW c \in Workers, PopLock(c)
  PROVE  Queue!BeginSync(c)
<1> USE LimitsAssumption, BufferAssumption DEF IInv, PopLock
<1>1. landed = pushed /\ headBar = pushed - Len(buffer)
  BY FreeMutex
<1>2. headBar' = headBar
  BY <1>1 DEF landed, headBar, Appending, Erasing, TypeOK, Threads
<1>3. gotBar' = [gotBar EXCEPT ![c] = << >>]
  BY DEF gotBar, TypeOK, Threads
<1> QED BY <1>2, <1>3 DEF Queue!BeginSync

\* The end of the copying loop is the abstract Pop: with n messages copied,
\* the batch is headBar+1 .. headBar+n and n is the size MsgQueue asks for.
LEMMA CopiedRefines ==
  ASSUME IInv, NEW c \in Workers, pc[c] = "copy",
         NEW n \in Nat, NEW out \in Seq(Nat),
         n <= Len(buffer), n = Len(buffer) \/ n = Batch, n <= Batch,
         Len(out) = n,
         \A i \in 1 .. n : out[i] = pushed - Len(buffer) + i,
         outMsgList' = [outMsgList EXCEPT ![c] = out],
         msgCount' = [msgCount EXCEPT ![c] = n],
         pc' = [pc EXCEPT ![c] = "erase"],
         taken' = taken \cup {out[i] : i \in 1 .. n},
         mute' = mute, buffer' = buffer, erased' = erased, pushed' = pushed
  PROVE  Queue!Pop(c)
<1> USE LimitsAssumption, BufferAssumption DEF IInv
<1>1. mute = c
  BY DEF LockInv, Threads
<1>2. headBar = pushed - Len(buffer) /\ headBar \in Nat
  <2>1. headBar = pushed - Len(buffer)
    BY <1>1, WorkerOwner
  <2>2. Len(buffer) <= pushed
    BY <1>1, WorkerOwner DEF RunInv
  <2>3. Len(buffer) \in Nat /\ pushed \in Nat
    BY LenProperties DEF TypeOK
  <2> HIDE DEF IInv
  <2> QED BY <2>1, <2>2, <2>3
<1>3. erased[c] = 0
  BY DEF CopyInv
<1>4. headBar' = headBar + n
  BY <1>1, <1>2, <1>3 DEF landed, headBar, Appending, Erasing, TypeOK, Threads
<1>5. Queue!BatchSize = n
  BY <1>2 DEF Queue!BatchSize, TypeOK
<1>6. out = [i \in 1 .. n |-> headBar + i]
  <2>1. \A i \in 1 .. n : out[i] = headBar + i
    BY <1>2
  <2>2. DOMAIN out = 1 .. n /\ out \in [1 .. n -> Nat]
    BY LenProperties
  <2> QED BY <2>1, <2>2
<1>7. {out[i] : i \in 1 .. n} = headBar + 1 .. headBar + n
  <2>1. \A i \in 1 .. n : out[i] \in headBar + 1 .. headBar + n
    BY <1>2
  <2>2. ASSUME NEW k \in headBar + 1 .. headBar + n
        PROVE  \E i \in 1 .. n : out[i] = k
    <3>1. k - headBar \in 1 .. n
      BY <1>2
    <3> QED BY <1>2, <3>1
  <2> QED BY <2>1, <2>2
<1>8. gotBar' = [gotBar EXCEPT ![c] = out]
  BY DEF gotBar, TypeOK, Threads
<1> QED BY <1>4, <1>5, <1>6, <1>7, <1>8 DEF Queue!Pop

\* The turn of the copying loop that fills the batch is the abstract Pop, the
\* other turns are not visible.
LEMMA PopCopyRefines ==
  ASSUME IInv, NEW c \in Workers, PopCopy(c)
  PROVE  [Queue!Pop(c)]_(Queue!qvars)
<1> USE LimitsAssumption, BufferAssumption DEF IInv, PopCopy
<1>1. mute = c
  BY DEF LockInv, Threads
<1>2. landed = pushed /\ headBar = pushed - Len(buffer)
  BY <1>1, WorkerOwner
<1> DEFINE out == Append(outMsgList[c], buffer[msgCount[c] + 1])
           n == msgCount[c] + 1
<1>3. CASE msgCount[c] + 1 >= Batch
  <2>1. /\ msgCount[c] < Batch
        /\ Len(outMsgList[c]) = msgCount[c]
        /\ \A i \in 1 .. msgCount[c] :
             outMsgList[c][i] = pushed - Len(buffer) + i
    BY DEF CopyInv
  <2>2. n \in Nat /\ n <= Len(buffer) /\ n = Batch
    BY <1>3, <2>1 DEF TypeOK
  <2>3. /\ buffer[n] = pushed - Len(buffer) + n
        /\ buffer[n] \in Nat
    <3>1. n \in 1 .. Len(buffer)
      BY <2>2 DEF TypeOK
    <3> HIDE DEF n
    <3> QED BY <1>2, <3>1, ElementOfSeq DEF RunInv, NewestRun, TypeOK
  <2>4. /\ out \in Seq(Nat)
        /\ Len(out) = n
        /\ \A i \in 1 .. msgCount[c] : out[i] = outMsgList[c][i]
        /\ out[n] = buffer[n]
    BY <2>1, <2>3, AppendProperties DEF TypeOK
  <2>5. ASSUME NEW i \in 1 .. n
        PROVE  out[i] = pushed - Len(buffer) + i
    <3>1. CASE i = n
      BY <2>3, <2>4, <3>1
    <3>2. CASE i \in 1 .. msgCount[c]
      BY <2>1, <2>4, <3>2
    <3> HIDE DEF out
    <3> QED BY <3>1, <3>2 DEF TypeOK
  <2>6. outMsgList' = [outMsgList EXCEPT ![c] = out] /\ outMsgList'[c] = out
    BY DEF TypeOK
  <2>7. taken' = taken \cup {out[i] : i \in 1 .. n}
    BY <1>3, <2>6
  <2>8. msgCount' = [msgCount EXCEPT ![c] = n]
    OBVIOUS
  <2>9. /\ pc[c] = "copy" /\ pc' = [pc EXCEPT ![c] = "erase"]
        /\ mute' = mute /\ buffer' = buffer /\ erased' = erased /\ pushed' = pushed
    BY <1>3
  <2> HIDE DEF out, n, IInv, PopCopy
  <2>10. n <= Batch
    BY <2>2
  <2>11. Queue!Pop(c)
    BY <2>2, <2>4, <2>5, <2>6, <2>7, <2>8, <2>9, <2>10, CopiedRefines
  <2> QED BY <2>11
<1>4. CASE ~(msgCount[c] + 1 >= Batch)
  <2>1. headBar' = headBar
    BY <1>1, <1>2, <1>4 DEF landed, headBar, Appending, Erasing, TypeOK, Threads
  <2>2. gotBar' = gotBar
    BY <1>4 DEF gotBar, TypeOK, Threads
  <2> QED BY <1>4, <2>1, <2>2 DEF Queue!qvars
<1> QED BY <1>3, <1>4

\* The end of the list ends the copying loop: the abstract Pop of a short batch.
LEMMA PopCopyEndRefines ==
  ASSUME IInv, NEW c \in Workers, PopCopyEnd(c)
  PROVE  Queue!Pop(c)
<1> USE LimitsAssumption, BufferAssumption DEF IInv, PopCopyEnd
<1>1. /\ msgCount[c] < Batch
      /\ msgCount[c] = Len(buffer)
      /\ Len(outMsgList[c]) = msgCount[c]
      /\ \A i \in 1 .. msgCount[c] : outMsgList[c][i] = pushed - Len(buffer) + i
  BY DEF CopyInv, TypeOK
<1>2. /\ outMsgList' = [outMsgList EXCEPT ![c] = outMsgList[c]]
      /\ msgCount' = [msgCount EXCEPT ![c] = msgCount[c]]
      /\ outMsgList[c] \in Seq(Nat)
      /\ msgCount[c] \in Nat
      /\ msgCount[c] <= Batch
      /\ msgCount[c] <= Len(buffer)
  BY <1>1 DEF TypeOK
<1>3. /\ pc[c] = "copy" /\ pc' = [pc EXCEPT ![c] = "erase"]
      /\ taken' = taken \cup {outMsgList[c][i] : i \in 1 .. msgCount[c]}
      /\ mute' = mute /\ buffer' = buffer /\ erased' = erased /\ pushed' = pushed
  OBVIOUS
<1> HIDE DEF IInv, PopCopyEnd
<1> QED BY <1>1, <1>2, <1>3, CopiedRefines

\* Erasing what was copied and mute.unlock() are not visible in the queue.
LEMMA EraseHidden ==
  ASSUME IInv, NEW c \in Workers, PopErase(c) \/ PopUnlock(c)
  PROVE  UNCHANGED Queue!qvars
<1> USE LimitsAssumption, BufferAssumption DEF IInv
<1>1. mute = c
  BY DEF PopErase, PopUnlock, LockInv, Threads
<1>2. /\ landed = pushed
      /\ headBar = pushed - Len(buffer) + (msgCount[c] - erased[c])
  BY <1>1, WorkerOwner DEF PopErase, PopUnlock
<1>3. gotBar' = gotBar
  BY DEF gotBar, PopErase, PopUnlock, TypeOK, Threads
<1>4. headBar' = headBar
  <2>1. CASE PopErase(c)
    <3>1. Len(buffer) >= 1
      BY <2>1 DEF PopErase, EraseInv, TypeOK
    <3>2. Len(buffer') = Len(buffer) - 1
      BY <2>1, <3>1, HeadTailProperties DEF PopErase, TypeOK
    <3>3. erased'[c] = erased[c] + 1
      BY <2>1 DEF PopErase, TypeOK
    <3>4. headBar' = pushed - Len(buffer') + (msgCount[c] - erased'[c])
      BY <1>1, <2>1
         DEF PopErase, landed, headBar, Appending, Erasing, TypeOK, Threads
    <3>5. /\ pushed \in Nat /\ Len(buffer) \in Nat
          /\ msgCount[c] \in Nat /\ erased[c] \in Nat
      BY DEF TypeOK
    <3> QED BY <1>2, <3>2, <3>3, <3>4, <3>5
  <2>2. CASE PopUnlock(c)
    <3>1. erased[c] = msgCount[c]
      BY <2>2 DEF PopUnlock, EraseInv, TypeOK
    <3> QED BY <1>1, <1>2, <2>2, <3>1
            DEF PopUnlock, landed, headBar, Appending, Erasing, TypeOK, Threads
  <2> QED BY <2>1, <2>2
<1> QED BY <1>3, <1>4 DEF Queue!qvars, PopErase, PopUnlock

\* Every statement is a step of the abstract queue, or is not visible in it.
LEMMA NextRefines == IInv /\ [Next]_vars => [Queue!QNext]_(Queue!qvars)
<1> SUFFICES ASSUME IInv, [Next]_vars
             PROVE  [Queue!QNext]_(Queue!qvars)
  OBVIOUS
<1>1. ASSUME NEW p \in Hooks, pushMsg(p)
      PROVE  [Queue!QNext]_(Queue!qvars)
  BY <1>1, PushTrimRefines, PushHidden DEF pushMsg, Queue!QNext
<1>2. ASSUME NEW c \in Workers, popMsg(c)
      PROVE  [Queue!QNext]_(Queue!qvars)
  BY <1>2, PopLockRefines, PopCopyRefines, PopCopyEndRefines, EraseHidden
     DEF popMsg, Queue!QNext
<1>3. CASE UNCHANGED vars
  BY <1>3 DEF vars, Queue!qvars, landed, headBar, gotBar, Appending, Erasing
<1> QED BY <1>1, <1>2, <1>3 DEF Next

\* Every behaviour of the threads on the list is a behaviour of the atomic
\* queue: the mutex makes pushMsg and popMsg the operations Push and Pop.
THEOREM BufferImplementsQueue == Spec => ImplementsQueue
<1>1. Init => Queue!QInit
  <2> SUFFICES ASSUME Init
               PROVE  Queue!QInit
    OBVIOUS
  <2>1. landed = pushed /\ headBar = pushed - Len(buffer)
    BY InitIInv, FreeMutex DEF Init, IInv
  <2>2. gotBar = [c \in Workers |-> << >>]
    BY DEF Init, gotBar, Threads
  <2>3. headBar = 0
    <3>1. Len(buffer) = 0 /\ pushed = 0
      BY EmptySeq DEF Init
    <3> QED BY <2>1, <3>1
  <2>4. pushed = 0 /\ taken = {}
    BY DEF Init
  <2> QED BY <2>2, <2>3, <2>4 DEF Queue!QInit
<1> QED BY <1>1, NextRefines, SpecIInv, PTL DEF Spec, ImplementsQueue, Queue!QSpec

\* No message vanishes but by being handed out or by being pushed out by Cap
\* newer ones: the operations of the abstract queue keep the rule, and
\* nothing else moves its cursor.
THEOREM BufferLosesOnlyOldest == Spec => []NoSilentLoss
<1>1. Init => NoSilentLoss
  BY DEF Init, NoSilentLoss
<1>2. IInv => headBar \in Int /\ pushed \in Nat /\ headBar <= pushed
  <2> SUFFICES ASSUME IInv
               PROVE  headBar \in Int /\ headBar <= pushed
    BY DEF IInv, TypeOK
  <2> USE DEF IInv
  <2>1. mute \in Hooks \/ mute \in Workers \/ mute = NoThread
    BY DEF TypeOK, Threads
  <2>2. CASE mute \in Hooks
    BY <2>2, HookOwner DEF TypeOK
  <2>3. CASE mute \in Workers
    BY <2>3, WorkerOwner DEF EraseInv, TypeOK
  <2>4. CASE mute = NoThread
    BY <2>4, FreeMutex DEF TypeOK
  <2> QED BY <2>1, <2>2, <2>3, <2>4
<1>3. IInv /\ NoSilentLoss /\ [Next]_vars => NoSilentLoss'
  <2> SUFFICES ASSUME IInv, NoSilentLoss, [Next]_vars,
                      NEW i \in 1 .. pushed'
               PROVE  i > headBar' \/ i \in taken' \/ i + Cap <= pushed'
    BY DEF NoSilentLoss
  <2> USE LimitsAssumption, BufferAssumption
  <2>1. headBar \in Int /\ pushed \in Nat /\ headBar <= pushed
    BY <1>2
  <2>2. CASE Queue!Push
    <3>1. CASE i = pushed + 1
      BY <2>1, <2>2, <3>1 DEF Queue!Push
    <3>2. CASE i \in 1 .. pushed
      BY <2>1, <2>2, <3>2 DEF Queue!Push, NoSilentLoss
    <3> QED BY <2>1, <2>2, <3>1, <3>2 DEF Queue!Push
  <2>3. ASSUME NEW c \in Workers, Queue!BeginSync(c)
        PROVE  i > headBar' \/ i \in taken' \/ i + Cap <= pushed'
    BY <2>1, <2>3 DEF Queue!BeginSync, NoSilentLoss
  <2>4. ASSUME NEW c \in Workers, Queue!Pop(c)
        PROVE  i > headBar' \/ i \in taken' \/ i + Cap <= pushed'
    <3>1. Queue!BatchSize \in Int
      BY <2>1 DEF Queue!BatchSize
    <3>2. CASE i > headBar
      BY <2>1, <2>4, <3>1, <3>2 DEF Queue!Pop
    <3>3. CASE ~(i > headBar)
      BY <2>1, <2>4, <3>3 DEF Queue!Pop, NoSilentLoss
    <3> QED BY <3>2, <3>3
  <2>5. CASE UNCHANGED Queue!qvars
    BY <2>5 DEF Queue!qvars, NoSilentLoss
  <2> QED BY <2>2, <2>3, <2>4, <2>5, NextRefines DEF Queue!QNext
<1> QED BY <1>1, <1>3, SpecIInv, PTL DEF Spec

-----------------------------------------------------------------------------
(* MsgQueue itself keeps its promises, whatever implements it.             *)

\* Its cursor and its batches; the messages pushed and taken are called as in MsgBuffer.
VARIABLES head, got

Abstract == INSTANCE MsgQueue

\* The inductive invariant: the cursor bounds and the loss rule carry each
\* other.
QInv == Abstract!QTypeOK /\ Abstract!QueueBounds /\ Abstract!QNoSilentLoss

\* A batch is never larger than what is stored, and never negative.
LEMMA BatchSizeBounds ==
  ASSUME Abstract!QTypeOK, Abstract!QueueBounds
  PROVE  Abstract!BatchSize \in Nat /\ head + Abstract!BatchSize <= pushed
BY LimitsAssumption DEF Abstract!QTypeOK, Abstract!QueueBounds, Abstract!BatchSize

\* The invariant holds of the empty queue.
LEMMA QInitInv == Abstract!QInit => QInv
BY LimitsAssumption
   DEF Abstract!QInit, QInv, Abstract!QTypeOK, Abstract!QueueBounds, Abstract!QNoSilentLoss

\* Every operation keeps the invariant.
LEMMA QNextInv == QInv /\ [Abstract!QNext]_(Abstract!qvars) => QInv'
<1> SUFFICES ASSUME QInv, [Abstract!QNext]_(Abstract!qvars)
             PROVE  QInv'
  OBVIOUS
<1> USE LimitsAssumption DEF QInv
<1>1. CASE Abstract!Push
  <2>1. Abstract!QTypeOK'
    BY <1>1 DEF Abstract!Push, Abstract!QTypeOK
  <2>2. Abstract!QueueBounds'
    BY <1>1 DEF Abstract!Push, Abstract!QTypeOK, Abstract!QueueBounds
  <2>3. Abstract!QNoSilentLoss'
    BY <1>1 DEF Abstract!Push, Abstract!QTypeOK, Abstract!QueueBounds, Abstract!QNoSilentLoss
  <2> QED BY <2>1, <2>2, <2>3
<1>2. ASSUME NEW c \in Workers, Abstract!BeginSync(c)
      PROVE  QInv'
  <2>1. got' \in [Workers -> Seq(Nat)]
    BY <1>2 DEF Abstract!BeginSync, Abstract!QTypeOK
  <2> QED BY <1>2, <2>1
             DEF Abstract!BeginSync, Abstract!QTypeOK, Abstract!QueueBounds, Abstract!QNoSilentLoss
<1>3. ASSUME NEW c \in Workers, Abstract!Pop(c)
      PROVE  QInv'
  <2>1. Abstract!BatchSize \in Nat /\ head + Abstract!BatchSize <= pushed
    BY BatchSizeBounds
  <2> DEFINE batch == [i \in 1 .. Abstract!BatchSize |-> head + i]
  <2>2. batch \in Seq(Nat)
    BY <2>1 DEF Abstract!QTypeOK
  <2>3. got' \in [Workers -> Seq(Nat)]
    BY <1>3, <2>2 DEF Abstract!Pop, Abstract!QTypeOK
  <2>4. Abstract!QTypeOK'
    BY <1>3, <2>1, <2>3 DEF Abstract!Pop, Abstract!QTypeOK
  <2>5. Abstract!QueueBounds'
    BY <1>3, <2>1 DEF Abstract!Pop, Abstract!QTypeOK, Abstract!QueueBounds
  <2>6. Abstract!QNoSilentLoss'
    <3> SUFFICES ASSUME NEW i \in 1 .. pushed'
                 PROVE  i > head' \/ i \in taken' \/ i + Cap <= pushed'
      BY DEF Abstract!QNoSilentLoss
    <3>1. i \in 1 .. pushed
      BY <1>3 DEF Abstract!Pop
    <3>2. CASE i > head
      BY <1>3, <2>1, <3>1, <3>2 DEF Abstract!Pop, Abstract!QTypeOK
    <3>3. CASE ~(i > head)
      BY <1>3, <3>1, <3>3 DEF Abstract!Pop, Abstract!QNoSilentLoss
    <3> QED BY <3>2, <3>3
  <2> QED BY <2>4, <2>5, <2>6
<1>4. CASE UNCHANGED Abstract!qvars
  BY <1>4 DEF Abstract!qvars, Abstract!QTypeOK, Abstract!QueueBounds, Abstract!QNoSilentLoss
<1> QED BY <1>1, <1>2, <1>3, <1>4 DEF Abstract!QNext

\* The stored messages always form a run of the log that fits the capacity.
THEOREM QueueBounded == Abstract!QSpec => [](Abstract!QTypeOK /\ Abstract!QueueBounds)
<1>1. QInv => Abstract!QTypeOK /\ Abstract!QueueBounds
  BY DEF QInv
<1> QED BY QInitInv, QNextInv, <1>1, PTL DEF Abstract!QSpec

\* No message disappears but by being handed out or by being pushed out by
\* Cap newer ones.
THEOREM QueueLosesOnlyOldest == Abstract!QSpec => []Abstract!QNoSilentLoss
<1>1. QInv => Abstract!QNoSilentLoss
  BY DEF QInv
<1> QED BY QInitInv, QNextInv, <1>1, PTL DEF Abstract!QSpec

\* A step that gives a caller a new batch gives it fresh messages only.
THEOREM QueueHandsOutOnce == Abstract!QSpec => Abstract!QHandedOnce
<1> DEFINE Fresh == \A c \in Workers :
             got'[c] # got[c] => \A i \in DOMAIN got'[c] : got'[c][i] \notin taken
<1>1. QInv /\ [Abstract!QNext]_(Abstract!qvars) => [Fresh]_(Abstract!qvars)
  <2> SUFFICES ASSUME QInv, Abstract!QNext
               PROVE  Fresh
    OBVIOUS
  <2> USE LimitsAssumption DEF QInv
  <2>1. CASE Abstract!Push
    BY <2>1 DEF Abstract!Push
  <2>2. ASSUME NEW d \in Workers, Abstract!BeginSync(d)
        PROVE  Fresh
    BY <2>2 DEF Abstract!BeginSync, Abstract!QTypeOK
  <2>3. ASSUME NEW d \in Workers, Abstract!Pop(d)
        PROVE  Fresh
    <3>1. Abstract!BatchSize \in Nat
      BY BatchSizeBounds
    <3> SUFFICES ASSUME NEW c \in Workers, got'[c] # got[c],
                        NEW i \in DOMAIN got'[c]
                 PROVE  got'[c][i] \notin taken
      OBVIOUS
    <3>2. c = d /\ got'[c] = [k \in 1 .. Abstract!BatchSize |-> head + k]
      BY <2>3 DEF Abstract!Pop, Abstract!QTypeOK
    <3>3. i \in 1 .. Abstract!BatchSize /\ got'[c][i] = head + i
      BY <3>1, <3>2
    <3> QED BY <3>1, <3>3 DEF Abstract!QTypeOK, Abstract!QueueBounds
  <2> QED BY <2>1, <2>2, <2>3 DEF Abstract!QNext
<1> QED BY QInitInv, QNextInv, <1>1, PTL DEF Abstract!QSpec, Abstract!QHandedOnce

=============================================================================
