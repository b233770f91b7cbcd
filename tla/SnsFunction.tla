----------------------------- MODULE SnsFunction -----------------------------
(***************************************************************************)
(* SnsModule (Function/SnsFunction.cpp): reading the first page of the     *)
(* timeline ("moments").                                                   *)
(*                                                                         *)
(* SyncSns runs on the Workers, the threads of the HTTP server.  It asks   *)
(* WeChat for the first page and then sleeps on a condition variable; the  *)
(* hook MyOnSnsTimeLineSceneFinish, on WeChat's thread, stores the posts   *)
(* of the page that has arrived and wakes one sleeper.  Both hold gMutex,  *)
(* and every statement of theirs is a step of its own.                     *)
(*                                                                         *)
(* Page p is the p-th page that WeChat delivers; it has PageLen posts, or  *)
(* none.  WeChat delivers a page for each request of SyncSns, and others   *)
(* of its own accord, when its user opens or refreshes the timeline.       *)
(***************************************************************************)
EXTENDS Integers, Sequences

CONSTANTS
  Workers,    \* threads of the HTTP server
  Callback,   \* the thread of WeChat that runs the hook
  NoThread,   \* the owner of a free mutex
  PageLen,    \* number of posts of a page that is not empty
  MaxPages,   \* bound of the model: number of pages delivered in a behaviour
  Spurious    \* may a condition variable wake without a notification?

ASSUME SnsAssumption ==
  /\ Callback \notin Workers
  /\ NoThread \notin Workers \cup {Callback}
  /\ PageLen \in Nat \ {0}
  /\ MaxPages \in Nat
  /\ Spurious \in BOOLEAN

VARIABLES
  gMutex,             \* the thread that holds gMutex, or NoThread
  gTimeLineRespList,  \* the posts; a post is the number of its page
  pc,                 \* pc[t]: the statement thread t is at
  pending,            \* number of requests that WeChat has not answered yet
  pages,              \* number of pages delivered so far
  asked,              \* history: asked[c] is finished when c made its request
  retList,            \* retList[c]: what c's latest SyncSns returned
  woken,              \* history: woken[c] tells what woke c last
  emptied             \* history: the pages that were empty

vars == <<gMutex, gTimeLineRespList, pc, pending, pages, asked, retList, woken,
          emptied>>

Threads == Workers \cup {Callback}

Init ==
  /\ gMutex = NoThread
  /\ gTimeLineRespList = << >>
  /\ pc = [t \in Threads |-> "idle"]
  /\ pending = 0
  /\ pages = 0
  /\ asked = [c \in Workers |-> 0]
  /\ retList = [c \in Workers |-> << >>]
  /\ woken = [c \in Workers |-> 0]
  /\ emptied = {}

\* Number of pages whose hook has returned.
finished == IF pc[Callback] = "idle" THEN pages ELSE pages - 1

\* The threads in gCv.wait that nothing has woken yet.
Sleepers == {c \in Workers : pc[c] = "sleep"}

\* gCv.notify_one() by the hook of page p, which then goes on at next: some
\* sleeper, if there is one, is woken.
NotifyOne(p, next) ==
  IF Sleepers = {}
  THEN /\ pc' = [pc EXCEPT ![Callback] = next]
       /\ UNCHANGED woken
  ELSE \E c \in Sleepers :
         /\ pc' = [pc EXCEPT ![Callback] = next, ![c] = "relock"]
         /\ woken' = [woken EXCEPT ![c] = p]

-----------------------------------------------------------------------------
(* SyncSns *)

\* The check of hMainWnd passes whatever the window's state is: it tests the
\* address of WeChat's variable, not its value.  TryGetFirstPageScene is
\* invoked: the request is out.
Request(c) ==
  /\ pc[c] = "idle"
  /\ pages + pending < MaxPages
  /\ pending' = pending + 1
  /\ asked' = [asked EXCEPT ![c] = finished]
  /\ pc' = [pc EXCEPT ![c] = "lock"]
  /\ UNCHANGED <<gMutex, gTimeLineRespList, pages, retList, woken, emptied>>

\* unique_lock lck(gMutex).
WaitLock(c) ==
  /\ pc[c] = "lock"
  /\ gMutex = NoThread
  /\ gMutex' = c
  /\ pc' = [pc EXCEPT ![c] = "wait"]
  /\ UNCHANGED <<gTimeLineRespList, pending, pages, asked, retList, woken, emptied>>

\* gCv.wait(lck) releases the mutex and sleeps, in one step.
Wait(c) ==
  /\ pc[c] = "wait"
  /\ gMutex' = NoThread
  /\ pc' = [pc EXCEPT ![c] = "sleep"]
  /\ UNCHANGED <<gTimeLineRespList, pending, pages, asked, retList, woken, emptied>>

\* gCv.wait may end with no notification.
SpuriousWakeup(c) ==
  /\ Spurious
  /\ pc[c] = "sleep"
  /\ pc' = [pc EXCEPT ![c] = "relock"]
  /\ woken' = [woken EXCEPT ![c] = 0]
  /\ UNCHANGED <<gMutex, gTimeLineRespList, pending, pages, asked, retList, emptied>>

\* Mutant: the woken thread does not take the mutex again.
RelockUnguarded(c) ==
  /\ pc[c] = "relock"
  /\ gMutex' = c
  /\ pc' = [pc EXCEPT ![c] = "return"]
  /\ UNCHANGED <<gTimeLineRespList, pending, pages, asked, retList, woken, emptied>>

\* The woken thread takes the mutex again.
Relock(c) ==
  /\ pc[c] = "relock"
  /\ gMutex = NoThread
  /\ gMutex' = c
  /\ pc' = [pc EXCEPT ![c] = "return"]
  /\ UNCHANGED <<gTimeLineRespList, pending, pages, asked, retList, woken, emptied>>

\* SyncSns copies the list, unlocks and returns.
Return(c) ==
  /\ pc[c] = "return"
  /\ retList' = [retList EXCEPT ![c] = gTimeLineRespList]
  /\ gMutex' = NoThread
  /\ pc' = [pc EXCEPT ![c] = "idle"]
  /\ UNCHANGED <<gTimeLineRespList, pending, pages, asked, woken, emptied>>

-----------------------------------------------------------------------------
(* MyOnSnsTimeLineSceneFinish *)

\* The page that the hook is called with answers a request, or is one that
\* WeChat fetched of its own accord.
Deliver(p) ==
  /\ pc[Callback] = "idle"
  /\ p = pages + 1
  /\ pages' = p
  /\ \/ pending > 0 /\ pending' = pending - 1
     \/ pages + pending < MaxPages /\ UNCHANGED pending

\* A page without posts: notify_one without the mutex, and the list is left
\* as it is.
FinishEmpty ==
  /\ Deliver(pages + 1)
  /\ emptied' = emptied \cup {pages + 1}
  /\ NotifyOne(pages + 1, "idle")
  /\ UNCHANGED <<gMutex, gTimeLineRespList, asked, retList>>

\* Mutant: the hook notifies before it stores the page.
FinishNotifyEarly ==
  /\ Deliver(pages + 1)
  /\ NotifyOne(pages + 1, "lock")
  /\ UNCHANGED <<gMutex, gTimeLineRespList, asked, retList, emptied>>

\* A page with posts: the hook goes on to lock.
Finish ==
  /\ Deliver(pages + 1)
  /\ pc' = [pc EXCEPT ![Callback] = "lock"]
  /\ UNCHANGED <<gMutex, gTimeLineRespList, asked, retList, woken, emptied>>

\* unique_lock lck(gMutex); gTimeLineRespList.clear().
FinishClear ==
  /\ pc[Callback] = "lock"
  /\ gMutex = NoThread
  /\ gMutex' = Callback
  /\ gTimeLineRespList' = << >>
  /\ pc' = [pc EXCEPT ![Callback] = "fill"]
  /\ UNCHANGED <<pending, pages, asked, retList, woken, emptied>>

\* Mutant: the post that is pushed back is an empty one, of no page.
FinishFillUncopied ==
  /\ pc[Callback] = "fill"
  /\ Len(gTimeLineRespList) < PageLen
  /\ gTimeLineRespList' = Append(gTimeLineRespList, 0)
  /\ UNCHANGED <<gMutex, pc, pending, pages, asked, retList, woken, emptied>>

\* One turn of the loop: a post is copied and pushed back.
FinishFill ==
  /\ pc[Callback] = "fill"
  /\ Len(gTimeLineRespList) < PageLen
  /\ gTimeLineRespList' = Append(gTimeLineRespList, pages)
  /\ UNCHANGED <<gMutex, pc, pending, pages, asked, retList, woken, emptied>>

\* gCv.notify_one() after the loop, the mutex still held.
FinishNotify ==
  /\ pc[Callback] = "fill"
  /\ Len(gTimeLineRespList) = PageLen
  /\ NotifyOne(pages, "unlock")
  /\ UNCHANGED <<gMutex, gTimeLineRespList, pending, pages, asked, retList, emptied>>

\* Mutant: the hook returns with the mutex locked.
FinishKeepsLock ==
  /\ pc[Callback] = "unlock"
  /\ pc' = [pc EXCEPT ![Callback] = "idle"]
  /\ UNCHANGED <<gMutex, gTimeLineRespList, pending, pages, asked, retList, woken, emptied>>

\* lck goes out of scope.
FinishUnlock ==
  /\ pc[Callback] = "unlock"
  /\ gMutex' = NoThread
  /\ pc' = [pc EXCEPT ![Callback] = "idle"]
  /\ UNCHANGED <<gTimeLineRespList, pending, pages, asked, retList, woken, emptied>>

-----------------------------------------------------------------------------
SyncSns(c) ==
  Request(c) \/ WaitLock(c) \/ Wait(c) \/ SpuriousWakeup(c) \/ Relock(c) \/ Return(c)

OnSnsTimeLineSceneFinish ==
  FinishEmpty \/ Finish \/ FinishClear \/ FinishFill \/ FinishNotify \/ FinishUnlock

Next == OnSnsTimeLineSceneFinish \/ \E c \in Workers : SyncSns(c)

Spec == Init /\ [][Next]_vars

\* Threads run on, a waiting lock is granted once the mutex is free often
\* enough, and WeChat answers every request.  No spurious wakeup and no page
\* of WeChat's own accord is promised.
Fairness ==
  /\ WF_vars(FinishFill \/ FinishNotify \/ FinishUnlock)
  /\ SF_vars(FinishClear)
  /\ WF_vars(pending > 0 /\ (FinishEmpty \/ Finish))
  /\ \A c \in Workers :
       WF_vars(Wait(c) \/ Return(c)) /\ SF_vars(WaitLock(c) \/ Relock(c))

FairSpec == Spec /\ Fairness

-----------------------------------------------------------------------------
(* Properties *)

TypeOK ==
  /\ gMutex \in Threads \cup {NoThread}
  /\ gTimeLineRespList \in Seq(1 .. pages)
  /\ pc \in [Threads -> {"idle", "lock", "wait", "sleep", "relock", "return",
                         "fill", "unlock"}]
  /\ pending \in Nat
  /\ pages \in Nat
  /\ asked \in [Workers -> Nat]
  /\ retList \in [Workers -> Seq(1 .. pages)]
  /\ woken \in [Workers -> 0 .. pages]
  /\ emptied \in SUBSET (1 .. pages)

\* A page in full: the same page PageLen times.
WholePage(list) ==
  Len(list) = PageLen /\ \A i \in 1 .. PageLen : list[i] = list[1]

\* SyncSns never returns a page that the hook is halfway through storing, nor
\* one that mixes two pages.
ReturnsWholePage ==
  \A c \in Workers : retList[c] = << >> \/ WholePage(retList[c])

\* A call that a notification of a page with posts has ended returns that page
\* or a later one, never one that was complete before its own request.
NotifiedIsFresh ==
  [][\A c \in Workers :
       /\ pc[c] = "return" /\ pc'[c] = "idle"
       /\ woken[c] # 0 /\ woken[c] \notin emptied
       => /\ retList'[c] # << >>
          /\ retList'[c][1] >= woken[c]
          /\ retList'[c][1] > asked[c]]_vars

\* A call that a notification has reached ends, whatever the other threads do.
WokenReturns == \A c \in Workers : pc[c] = "relock" ~> pc[c] = "idle"

\* "Wait for the message to return": the page that a call waits for comes, so
\* the call ends.
SyncSnsReturns == \A c \in Workers : pc[c] = "lock" ~> pc[c] = "idle"

=============================================================================
