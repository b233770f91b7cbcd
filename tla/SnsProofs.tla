------------------------------ MODULE SnsProofs ------------------------------
(***************************************************************************)
(* What SyncSns returns, for every number of calls, of posts on a page and *)
(* of pages, and with or without spurious wakeups.                         *)
(*                                                                         *)
(* ReturnsWholePage is not inductive: a call copies the list, so that the  *)
(* list has to be whole whenever a call holds the mutex.  LockInv says who *)
(* holds it, ListInv what the list is at each statement of the hook, and   *)
(* WokenInv what a call that was notified will find.                       *)
(***************************************************************************)
EXTENDS SnsFunction, SequenceTheorems, TLAPS

\* A thread holds the mutex exactly between its lock and its unlock.
LockInv ==
  /\ \A c \in Workers : /\ pc[c] \in {"idle", "lock", "wait", "sleep", "relock", "return"}
                        /\ pc[c] \in {"wait", "return"} <=> gMutex = c
  /\ pc[Callback] \in {"idle", "lock", "fill", "unlock"}
  /\ pc[Callback] \in {"fill", "unlock"} <=> gMutex = Callback

\* Only a hook that has the mutex can be halfway through a page.
ListInv ==
  /\ pc[Callback] \in {"idle", "lock"} => gTimeLineRespList = << >> \/ WholePage(gTimeLineRespList)
  /\ pc[Callback] = "fill" =>
       /\ Len(gTimeLineRespList) <= PageLen
       /\ \A i \in 1 .. Len(gTimeLineRespList) : gTimeLineRespList[i] = pages
  /\ pc[Callback] = "unlock" => WholePage(gTimeLineRespList) /\ gTimeLineRespList[1] = pages

\* The page that the hook stores has posts, and no request is younger than the last
\* page that is complete.
PagesInv ==
  /\ pc[Callback] # "idle" => pages >= 1 /\ pages \notin emptied
  /\ \A c \in Workers : asked[c] <= finished

\* c has been woken by the notification of a page with posts and has not returned.
Notified(c) ==
  pc[c] \in {"relock", "return"} /\ woken[c] # 0 /\ woken[c] \notin emptied

\* A notified call asked before that page, and finds it or a later one once the hook
\* lets it.
WokenInv ==
  \A c \in Workers :
    Notified(c) =>
      /\ woken[c] > asked[c]
      /\ pc[Callback] # "fill" =>
           gTimeLineRespList # << >> /\ gTimeLineRespList[1] >= woken[c]

IInv == TypeOK /\ LockInv /\ ListInv /\ PagesInv /\ WokenInv /\ ReturnsWholePage

-----------------------------------------------------------------------------
\* A list of pages stays one when more pages come.
LEMMA PagesMonotone ==
  ASSUME NEW p \in Nat, NEW q \in Nat, p <= q, NEW list \in Seq(1 .. p)
  PROVE  list \in Seq(1 .. q)
<1>1. \A i \in 1 .. Len(list) : list[i] \in 1 .. q
  BY ElementOfSeq
<1> QED
  BY <1>1, LenProperties, SeqDef

LEMMA InitIInv == Init => IInv
<1> SUFFICES ASSUME Init
             PROVE  IInv
  OBVIOUS
<1> USE SnsAssumption DEF Init, Threads
<1>1. TypeOK
  BY DEF TypeOK
<1>2. LockInv
  BY DEF LockInv
<1>3. ListInv /\ PagesInv /\ WokenInv /\ ReturnsWholePage
  BY DEF ListInv, PagesInv, finished, WokenInv, Notified, ReturnsWholePage
<1> QED
  BY <1>1, <1>2, <1>3 DEF IInv

-----------------------------------------------------------------------------
\* SyncSns keeps the invariant.
LEMMA SyncSnsIInv ==
  ASSUME IInv, NEW c \in Workers, SyncSns(c)
  PROVE  IInv'
<1> USE SnsAssumption DEF IInv, Threads
<1>1. CASE Request(c)
  <2> USE <1>1 DEF Request
  <2>1. TypeOK'
    BY DEF TypeOK, finished, PagesInv
  <2>2. LockInv'
    BY DEF TypeOK, LockInv
  <2>3. ListInv' /\ PagesInv' /\ ReturnsWholePage'
    BY DEF TypeOK, LockInv, ListInv, PagesInv, finished, ReturnsWholePage, WholePage
  <2>4. WokenInv'
    BY DEF TypeOK, WokenInv, Notified
  <2> QED
    BY <2>1, <2>2, <2>3, <2>4
<1>2. CASE WaitLock(c) \/ Wait(c)
  <2> USE <1>2 DEF WaitLock, Wait
  <2>1. TypeOK'
    BY DEF TypeOK
  <2>2. LockInv'
    BY DEF TypeOK, LockInv
  <2>3. ListInv' /\ PagesInv' /\ ReturnsWholePage'
    BY DEF TypeOK, LockInv, ListInv, PagesInv, finished, ReturnsWholePage, WholePage
  <2>4. WokenInv'
    BY DEF TypeOK, WokenInv, Notified
  <2> QED
    BY <2>1, <2>2, <2>3, <2>4
<1>3. CASE SpuriousWakeup(c)
  <2> USE <1>3 DEF SpuriousWakeup
  <2>1. TypeOK'
    BY DEF TypeOK
  <2>2. LockInv'
    BY DEF TypeOK, LockInv
  <2>3. ListInv' /\ PagesInv' /\ ReturnsWholePage'
    BY DEF TypeOK, LockInv, ListInv, PagesInv, finished, ReturnsWholePage, WholePage
  <2>4. WokenInv'
    BY DEF TypeOK, WokenInv, Notified
  <2> QED
    BY <2>1, <2>2, <2>3, <2>4
<1>4. CASE Relock(c)
  <2> USE <1>4 DEF Relock
  <2>1. TypeOK'
    BY DEF TypeOK
  <2>2. LockInv'
    BY DEF TypeOK, LockInv
  <2>3. ListInv' /\ PagesInv' /\ ReturnsWholePage'
    BY DEF TypeOK, LockInv, ListInv, PagesInv, finished, ReturnsWholePage, WholePage
  <2>4. WokenInv'
    BY DEF TypeOK, WokenInv, Notified
  <2> QED
    BY <2>1, <2>2, <2>3, <2>4
<1>5. CASE Return(c)
  <2> USE <1>5 DEF Return
  <2>1. TypeOK'
    BY DEF TypeOK
  <2>2. LockInv'
    BY DEF TypeOK, LockInv
  <2>3. ListInv' /\ PagesInv'
    BY DEF TypeOK, LockInv, ListInv, PagesInv, finished, WholePage
  <2>4. WokenInv'
    BY DEF TypeOK, WokenInv, Notified
  <2>5. gTimeLineRespList = << >> \/ WholePage(gTimeLineRespList)
    BY DEF LockInv, ListInv
  <2>6. ReturnsWholePage'
    BY <2>5 DEF TypeOK, ReturnsWholePage, WholePage
  <2> QED
    BY <2>1, <2>2, <2>3, <2>4, <2>6
<1> QED
  BY <1>1, <1>2, <1>3, <1>4, <1>5 DEF SyncSns

-----------------------------------------------------------------------------
\* notify_one moves the hook on and wakes one sleeper at most.
LEMMA NotifyOneWakes ==
  ASSUME TypeOK, NEW p \in Nat, p >= pages, NEW next \in {"idle", "unlock"}, NotifyOne(p, next)
  PROVE  /\ pc' \in [Threads -> {"idle", "lock", "wait", "sleep", "relock", "return",
                                 "fill", "unlock"}]
         /\ woken' \in [Workers -> 0 .. p]
         /\ pc'[Callback] = next
         /\ \A c \in Workers :
              \/ pc'[c] = pc[c] /\ woken'[c] = woken[c]
              \/ pc[c] = "sleep" /\ pc'[c] = "relock" /\ woken'[c] = p
<1> USE SnsAssumption DEF TypeOK, Sleepers, Threads
<1>1. CASE Sleepers = {}
  BY <1>1 DEF NotifyOne
<1>2. ASSUME NEW c \in Sleepers,
             pc' = [pc EXCEPT ![Callback] = next, ![c] = "relock"],
             woken' = [woken EXCEPT ![c] = p]
      PROVE  /\ pc' \in [Threads -> {"idle", "lock", "wait", "sleep", "relock", "return",
                                     "fill", "unlock"}]
             /\ woken' \in [Workers -> 0 .. p]
             /\ pc'[Callback] = next
             /\ \A d \in Workers :
                  \/ pc'[d] = pc[d] /\ woken'[d] = woken[d]
                  \/ pc[d] = "sleep" /\ pc'[d] = "relock" /\ woken'[d] = p
  BY <1>2
<1> QED
  BY <1>1, <1>2 DEF NotifyOne

\* An empty page keeps the invariant.
LEMMA FinishEmptyIInv ==
  ASSUME IInv, FinishEmpty
  PROVE  IInv'
<1> USE SnsAssumption DEF IInv, FinishEmpty, Deliver
<1>1. NotifyOne(pages + 1, "idle") /\ pages + 1 \in Nat /\ pages + 1 >= pages
  BY DEF TypeOK
<1> HIDE DEF NotifyOne
<1>2. gTimeLineRespList \in Seq(1 .. pages')
  BY PagesMonotone DEF TypeOK
<1>3. \A c \in Workers : retList[c] \in Seq(1 .. pages')
  BY PagesMonotone DEF TypeOK
<1>4. TypeOK'
  BY <1>1, <1>2, <1>3, NotifyOneWakes DEF TypeOK
<1>5. LockInv'
  BY <1>1, NotifyOneWakes DEF LockInv
<1>6. ListInv' /\ PagesInv' /\ ReturnsWholePage'
  BY <1>1, NotifyOneWakes
     DEF TypeOK, ListInv, PagesInv, finished, ReturnsWholePage, WholePage
<1>7. WokenInv'
  BY <1>1, NotifyOneWakes DEF TypeOK, WokenInv, Notified
<1> QED
  BY <1>4, <1>5, <1>6, <1>7

\* The statements of the hook for a page with posts keep the invariant.
LEMMA FinishIInv ==
  ASSUME IInv, Finish \/ FinishClear \/ FinishFill \/ FinishNotify \/ FinishUnlock
  PROVE  IInv'
<1> USE SnsAssumption DEF IInv, Threads
<1>1. CASE Finish
  <2> USE <1>1 DEF Finish, Deliver
  <2>1. gTimeLineRespList \in Seq(1 .. pages')
    BY PagesMonotone DEF TypeOK
  <2>2. \A c \in Workers : retList[c] \in Seq(1 .. pages')
    BY PagesMonotone DEF TypeOK
  <2>3. TypeOK'
    BY <2>1, <2>2 DEF TypeOK
  <2>4. LockInv'
    BY DEF TypeOK, LockInv
  <2>5. ListInv' /\ PagesInv' /\ ReturnsWholePage'
    BY DEF TypeOK, ListInv, PagesInv, finished, ReturnsWholePage, WholePage
  <2>6. WokenInv'
    BY DEF TypeOK, WokenInv, Notified
  <2> QED
    BY <2>3, <2>4, <2>5, <2>6
<1>2. CASE FinishClear
  <2> USE <1>2 DEF FinishClear
  <2>1. TypeOK'
    BY DEF TypeOK
  <2>2. LockInv'
    BY DEF TypeOK, LockInv
  <2>3. ListInv' /\ PagesInv' /\ ReturnsWholePage'
    BY DEF TypeOK, ListInv, PagesInv, finished, ReturnsWholePage, WholePage
  <2>4. WokenInv'
    BY DEF TypeOK, WokenInv, Notified
  <2> QED
    BY <2>1, <2>2, <2>3, <2>4
<1>3. CASE FinishFill
  <2> USE <1>3 DEF FinishFill
  <2>1. pages \in 1 .. pages
    BY DEF TypeOK, PagesInv
  <2>2. TypeOK'
    BY <2>1 DEF TypeOK
  <2>3. LockInv'
    BY DEF TypeOK, LockInv
  <2>4. ListInv'
    BY <2>1, AppendProperties DEF TypeOK, ListInv
  <2>5. PagesInv' /\ WokenInv' /\ ReturnsWholePage'
    BY DEF PagesInv, finished, WokenInv, Notified, ReturnsWholePage, WholePage
  <2> QED
    BY <2>2, <2>3, <2>4, <2>5
<1>4. CASE FinishNotify
  <2> USE <1>4 DEF FinishNotify
  <2>1. NotifyOne(pages, "unlock") /\ pages \in Nat /\ pages >= pages
    BY DEF TypeOK
  <2> HIDE DEF NotifyOne
  <2>2. WholePage(gTimeLineRespList) /\ gTimeLineRespList[1] = pages
    BY DEF ListInv, WholePage
  <2>3. gTimeLineRespList # << >>
    BY <2>2 DEF WholePage
  <2>4. TypeOK'
    <3>1. /\ pc' \in [Threads -> {"idle", "lock", "wait", "sleep", "relock", "return",
                                  "fill", "unlock"}]
          /\ woken' \in [Workers -> 0 .. pages]
      BY <2>1, NotifyOneWakes
    <3> QED
      BY <3>1 DEF TypeOK
  <2>5. LockInv'
    BY <2>1, NotifyOneWakes DEF LockInv
  <2>6. ListInv' /\ PagesInv' /\ ReturnsWholePage'
    BY <2>1, <2>2, NotifyOneWakes DEF ListInv, PagesInv, finished, ReturnsWholePage, WholePage
  <2>7. WokenInv'
    BY <2>1, <2>2, <2>3, NotifyOneWakes DEF TypeOK, WokenInv, Notified, PagesInv, finished
  <2> QED
    BY <2>4, <2>5, <2>6, <2>7
<1>5. CASE FinishUnlock
  <2> USE <1>5 DEF FinishUnlock
  <2>1. TypeOK'
    BY DEF TypeOK
  <2>2. LockInv'
    BY DEF TypeOK, LockInv
  <2>3. ListInv' /\ PagesInv' /\ ReturnsWholePage'
    BY DEF TypeOK, ListInv, PagesInv, finished, ReturnsWholePage, WholePage
  <2>4. WokenInv'
    BY DEF TypeOK, WokenInv, Notified
  <2> QED
    BY <2>1, <2>2, <2>3, <2>4
<1> QED
  BY <1>1, <1>2, <1>3, <1>4, <1>5

LEMMA NextIInv == IInv /\ [Next]_vars => IInv'
<1> SUFFICES ASSUME IInv, [Next]_vars
             PROVE  IInv'
  OBVIOUS
<1>1. CASE Next
  BY <1>1, SyncSnsIInv, FinishEmptyIInv, FinishIInv DEF Next, OnSnsTimeLineSceneFinish
<1>2. CASE UNCHANGED vars
  BY <1>2 DEF vars, IInv, TypeOK, LockInv, ListInv, PagesInv, finished, WokenInv, Notified,
              ReturnsWholePage, WholePage
<1> QED
  BY <1>1, <1>2

LEMMA SpecIInv == Spec => []IInv
  BY InitIInv, NextIInv, PTL DEF Spec

-----------------------------------------------------------------------------
\* Every variable keeps its type: a post is always one of a page that WeChat has
\* delivered, in the list and in what was returned.
THEOREM SnsTypeCorrect == Spec => []TypeOK
  BY SpecIInv, PTL DEF IInv

\* However many calls and pages cross, SyncSns never returns a page half stored, or
\* one mixed from two.
THEOREM SnsReturnsWholePage == Spec => []ReturnsWholePage
  BY SpecIInv, PTL DEF IInv

\* A call that a page with posts has woken returns that page or a later one, and none
\* that was complete before it asked, whoever takes the mutex in between.
THEOREM SnsNotifiedIsFresh == Spec => NotifiedIsFresh
<1> DEFINE Fresh ==
      \A c \in Workers :
        /\ pc[c] = "return" /\ pc'[c] = "idle"
        /\ woken[c] # 0 /\ woken[c] \notin emptied
        => /\ retList'[c] # << >>
           /\ retList'[c][1] >= woken[c]
           /\ retList'[c][1] > asked[c]
<1>1. ASSUME IInv, Next
      PROVE  Fresh
  <2> SUFFICES ASSUME NEW c \in Workers,
                      pc[c] = "return", pc'[c] = "idle",
                      woken[c] # 0, woken[c] \notin emptied
               PROVE  /\ retList'[c] # << >>
                      /\ retList'[c][1] >= woken[c]
                      /\ retList'[c][1] > asked[c]
    OBVIOUS
  <2> USE SnsAssumption DEF IInv, Threads
  <2>1. Return(c)
    <3>1. CASE OnSnsTimeLineSceneFinish
      <4>1. TypeOK /\ pages \in Nat /\ pages + 1 \in Nat /\ pages + 1 >= pages
        BY <1>1 DEF TypeOK
      <4>2. NotifyOne(pages + 1, "idle") \/ NotifyOne(pages, "unlock") => pc'[c] # "idle"
        BY <4>1, NotifyOneWakes
      <4> QED
        BY <1>1, <3>1, <4>1, <4>2
           DEF OnSnsTimeLineSceneFinish, FinishEmpty, Finish, FinishClear, FinishFill,
               FinishNotify, FinishUnlock, TypeOK
    <3>2. ASSUME NEW d \in Workers, SyncSns(d)
          PROVE  Return(c)
      BY <1>1, <3>2 DEF SyncSns, Request, WaitLock, Wait, SpuriousWakeup, Relock, Return, TypeOK
    <3> QED
      BY <1>1, <3>1, <3>2 DEF Next
  <2>2. retList'[c] = gTimeLineRespList
    BY <1>1, <2>1 DEF Return, TypeOK
  <2>3. pc[Callback] # "fill"
    BY <1>1 DEF LockInv
  <2>4. /\ woken[c] > asked[c]
        /\ gTimeLineRespList # << >> /\ gTimeLineRespList[1] >= woken[c]
    BY <1>1, <2>3 DEF WokenInv, Notified
  <2>5. gTimeLineRespList[1] \in Nat /\ woken[c] \in Nat /\ asked[c] \in Nat
    BY <1>1, <2>4, ElementOfSeq DEF TypeOK
  <2> QED
    BY <2>2, <2>4, <2>5
<1>2. IInv /\ [Next]_vars => [Fresh]_vars
  BY <1>1
<1> QED
  BY SpecIInv, <1>2, PTL DEF Spec, NotifiedIsFresh

=============================================================================
