------------------------------ MODULE ApiProofs ------------------------------
(***************************************************************************)
(* The pool of the HTTP server, for every number of workers, connections   *)
(* and requests on a connection.                                           *)
(*                                                                         *)
(* OnePlace counts; Places says the same without counting, and that is     *)
(* what a step keeps: no connection is twice in the list, with two workers *)
(* or in both places, and it is somewhere just while it is open.           *)
(* NoIdleHands is inductive with the types: whatever adds a job wakes a    *)
(* worker, and only a worker that has seen an empty list goes to sleep.    *)
(***************************************************************************)
EXTENDS ApiServer, FiniteSetTheorems, SequenceTheorems, TLAPS

Checking == {w \in Workers : worker[w] = "check"}

Places ==
  /\ \A i, j \in DOMAIN jobs : jobs[i] = jobs[j] => i = j
  /\ \A v, w \in Workers : serves[v] = serves[w] /\ serves[v] # NoConn => v = w
  /\ \A i \in DOMAIN jobs, w \in Workers : jobs[i] # serves[w]
  /\ \A c \in Conns :
       conn[c] \in {"open", "abandoned"} <=>
         (\E i \in DOMAIN jobs : jobs[i] = c) \/ (\E w \in Workers : serves[w] = c)

\* Once shutdown has notified all workers, none of them sleeps, and none goes to sleep.
NobodySleepsOn == listener \in {"join", "returned"} => Asleep = {}

IInv == TypeOK /\ Places /\ NoIdleHands /\ NobodySleepsOn

-----------------------------------------------------------------------------
(* How many workers are on their way to the list *)

LEMMA CheckingFinite == IsFiniteSet(Checking) /\ Cardinality(Checking) \in Nat
<1>1. IsFiniteSet(Checking)
  BY ApiAssumption, FS_Subset DEF Checking
<1> QED
  BY <1>1, FS_CardinalityType

LEMMA MoreChecking ==
  ASSUME Checking \subseteq Checking'
  PROVE  Cardinality(Checking) <= Cardinality(Checking')
<1>1. IsFiniteSet(Checking')
  BY ApiAssumption, FS_Subset DEF Checking
<1> QED
  BY <1>1, FS_Subset

LEMMA OneMoreChecking ==
  ASSUME NEW w \in Workers, worker[w] # "check", Checking' = Checking \cup {w}
  PROVE  Cardinality(Checking') = Cardinality(Checking) + 1
  BY CheckingFinite, FS_AddElement DEF Checking

LEMMA OneLessChecking ==
  ASSUME NEW w \in Checking, Checking' = Checking \ {w}
  PROVE  Cardinality(Checking') = Cardinality(Checking) - 1
  BY CheckingFinite, FS_RemoveElement

\* A step that brings no job and sends nobody to sleep or to work leaves no idle hands.
LEMMA NoIdleHandsKept ==
  ASSUME TypeOK, NoIdleHands, jobs' = jobs, Asleep' \subseteq Asleep, Checking \subseteq Checking'
  PROVE  NoIdleHands'
<1>1. Len(jobs) \in Nat
  BY LenProperties DEF TypeOK
<1>2. Cardinality(Checking') \in Nat
  BY ApiAssumption, FS_Subset, FS_CardinalityType DEF Checking
<1> QED
  BY <1>1, <1>2, CheckingFinite, MoreChecking DEF NoIdleHands, Checking

-----------------------------------------------------------------------------
LEMMA InitIInv == Init => IInv
<1> SUFFICES ASSUME Init
             PROVE  IInv
  OBVIOUS
<1> USE ApiAssumption DEF Init
<1>1. /\ jobs \in Seq(Conns) /\ left \in [Conns -> 0 .. KeepAliveMax]
      /\ \A w \in Workers : worker[w] \notin Serving
  BY DEF Serving
<1>2. TypeOK
  BY <1>1 DEF TypeOK
<1>3. Places
  BY DEF Places
<1>4. NoIdleHands /\ NobodySleepsOn
  BY DEF NoIdleHands, NobodySleepsOn, Asleep
<1> QED
  BY <1>2, <1>3, <1>4 DEF IInv

\* The server thread's steps.
LEMMA ListenerIInv ==
  ASSUME IInv, Listener
  PROVE  IInv'
<1> USE ApiAssumption DEF IInv
<1>1. ASSUME NEW c \in Conns, Accept(c)
      PROVE  IInv'
  <2> USE <1>1 DEF Accept
  <2>1. jobs' \in Seq(Conns) /\ Len(jobs') = Len(jobs) + 1 /\ Len(jobs) \in Nat
    BY AppendProperties, LenProperties DEF TypeOK
  <2>2. TypeOK'
    BY <2>1 DEF TypeOK, Serving, Asleep
  <2>3. \A i \in DOMAIN jobs' : jobs'[i] = IF i \in DOMAIN jobs THEN jobs[i] ELSE c
    BY AppendProperties DEF TypeOK
  <2>4. DOMAIN jobs' = DOMAIN jobs \cup {Len(jobs) + 1}
    BY AppendProperties, LenProperties DEF TypeOK
  <2>5. /\ \A i \in DOMAIN jobs : jobs[i] # c
        /\ \A w \in Workers : serves[w] # c
        /\ Len(jobs) + 1 \notin DOMAIN jobs
    BY <2>1, LenProperties DEF TypeOK, Places
  <2>6. Places'
    <3>1. \A i, j \in DOMAIN jobs' : jobs'[i] = jobs'[j] => i = j
      BY <2>3, <2>4, <2>5 DEF Places
    <3>2. \A i \in DOMAIN jobs', w \in Workers : jobs'[i] # serves'[w]
      BY <2>3, <2>4, <2>5 DEF Places
    <3>3. \A d \in Conns :
            (\E i \in DOMAIN jobs' : jobs'[i] = d) <=> d = c \/ \E i \in DOMAIN jobs : jobs[i] = d
      BY <2>3, <2>4, <2>5
    <3>4. \A d \in Conns : conn'[d] = IF d = c THEN "open" ELSE conn[d]
      BY DEF TypeOK
    <3> QED
      BY <3>1, <3>2, <3>3, <3>4 DEF Places
  <2>7. NobodySleepsOn'
    BY DEF NobodySleepsOn
  <2>8. NoIdleHands'
    <3>1. CASE Asleep = {}
      BY <3>1 DEF Asleep, NoIdleHands
    <3>2. ASSUME NEW w \in Asleep, worker' = [worker EXCEPT ![w] = "check"]
          PROVE  NoIdleHands'
      <4>1. w \in Workers /\ worker[w] # "check" /\ Checking' = Checking \cup {w}
        BY <3>2 DEF Asleep, Checking, TypeOK
      <4>2. Cardinality(Checking') = Cardinality(Checking) + 1
        BY <4>1, OneMoreChecking
      <4>3. Len(jobs) <= Cardinality(Checking)
        BY DEF NoIdleHands, Checking
      <4> QED
        BY <2>1, <4>2, <4>3, CheckingFinite DEF NoIdleHands, Checking
    <3> QED
      BY <3>1, <3>2
  <2> QED
    BY <2>2, <2>6, <2>7, <2>8
<1>2. CASE AcceptFails
  BY <1>2 DEF AcceptFails, pool, conns, TypeOK, Places, NoIdleHands, NobodySleepsOn, Asleep
<1>3. CASE NotifyAll
  <2> USE <1>3 DEF NotifyAll, conns
  <2>1. TypeOK'
    BY DEF TypeOK, Serving
  <2>2. Places'
    BY DEF Places
  <2>3. Asleep' = {}
    BY DEF Asleep, TypeOK
  <2> QED
    BY <2>1, <2>2, <2>3 DEF NoIdleHands, NobodySleepsOn
<1>4. CASE ListenReturns
  BY <1>4 DEF ListenReturns, pool, conns, TypeOK, Places, NoIdleHands, NobodySleepsOn, Asleep
<1> QED
  BY <1>1, <1>2, <1>3, <1>4 DEF Listener

\* A worker's steps in the pool.
LEMMA PoolIInv ==
  ASSUME IInv, NEW w \in Workers, Sleep(w) \/ SpuriousWakeup(w) \/ End(w) \/ TakeJob(w)
  PROVE  IInv'
<1> USE ApiAssumption DEF IInv
<1>1. CASE Sleep(w)
  <2> USE <1>1 DEF Sleep, conns
  <2>1. TypeOK'
    BY DEF TypeOK, Serving
  <2>2. Places' /\ NobodySleepsOn'
    BY DEF Places, NobodySleepsOn, shutdown_
  <2>3. IsFiniteSet(Checking')
    BY FS_Subset DEF Checking
  <2>4. Len(jobs') = 0 /\ Cardinality(Checking') \in Nat
    BY <2>3, FS_CardinalityType
  <2> QED
    BY <2>1, <2>2, <2>4 DEF NoIdleHands, Checking
<1>2. CASE SpuriousWakeup(w)
  <2> USE <1>2 DEF SpuriousWakeup, conns
  <2>1. TypeOK'
    BY DEF TypeOK, Serving
  <2>2. Places'
    BY DEF Places
  <2>3. Asleep' \subseteq Asleep /\ Checking \subseteq Checking'
    BY DEF Asleep, Checking, TypeOK
  <2> QED
    BY <2>1, <2>2, <2>3, NoIdleHandsKept DEF NobodySleepsOn
<1>3. CASE End(w)
  <2> USE <1>3 DEF End, conns
  <2>1. TypeOK'
    BY DEF TypeOK, Serving
  <2>2. Places'
    BY DEF Places
  <2>3. Asleep' \subseteq Asleep
    BY DEF Asleep, TypeOK
  <2>4. IsFiniteSet(Checking')
    BY FS_Subset DEF Checking
  <2>5. Len(jobs') = 0 /\ Cardinality(Checking') \in Nat
    BY <2>4, FS_CardinalityType
  <2> QED
    BY <2>1, <2>2, <2>3, <2>5 DEF NoIdleHands, Checking, NobodySleepsOn
<1>4. CASE TakeJob(w)
  <2> USE <1>4 DEF TakeJob, conns
  <2>1. /\ Head(jobs) \in Conns /\ jobs' \in Seq(Conns) /\ Len(jobs') = Len(jobs) - 1
        /\ Len(jobs) \in Nat
        /\ \A i \in DOMAIN jobs' : i + 1 \in DOMAIN jobs /\ jobs'[i] = jobs[i + 1]
    BY HeadTailProperties, LenProperties DEF TypeOK
  <2>2. Head(jobs) # NoConn
    BY <2>1
  <2>3. TypeOK'
    BY <2>1, <2>2 DEF TypeOK, Serving
  <2>4. Places'
    <3>1. Head(jobs) = jobs[1] /\ 1 \in DOMAIN jobs
      BY <2>1, EmptySeq, LenProperties DEF TypeOK
    <3>2. \A i \in DOMAIN jobs : i # 1 => i - 1 \in DOMAIN jobs' /\ jobs[i] = jobs'[i - 1]
      BY <2>1, LenProperties DEF TypeOK
    <3>3. \A i \in DOMAIN jobs' : i \in Nat /\ i + 1 # 1
      BY <2>1, LenProperties
    <3>4. serves[w] = NoConn /\ serves'[w] = Head(jobs)
      BY DEF TypeOK, Serving
    <3>5. \A i, j \in DOMAIN jobs' : jobs'[i] = jobs'[j] => i = j
      <4> SUFFICES ASSUME NEW i \in DOMAIN jobs', NEW j \in DOMAIN jobs', jobs'[i] = jobs'[j]
                   PROVE  i = j
        OBVIOUS
      <4>1. i + 1 = j + 1
        BY <2>1 DEF Places
      <4> QED
        BY <4>1, <3>3
    <3>6. \A u, v \in Workers : serves'[u] = serves'[v] /\ serves'[u] # NoConn => u = v
      BY <3>1 DEF TypeOK, Places
    <3>7. \A i \in DOMAIN jobs', v \in Workers : jobs'[i] # serves'[v]
      BY <2>1, <3>1, <3>3 DEF TypeOK, Places
    <3>8. ASSUME NEW c \in Conns
          PROVE  conn[c] \in {"open", "abandoned"} <=>
                   (\E i \in DOMAIN jobs' : jobs'[i] = c) \/ (\E v \in Workers : serves'[v] = c)
      <4>1. CASE c = jobs[1]
        BY <3>1, <3>4, <4>1 DEF Places
      <4>2. CASE c # jobs[1]
        <5>1. (\E i \in DOMAIN jobs : jobs[i] = c) <=> \E i \in DOMAIN jobs' : jobs'[i] = c
          <6>1. ASSUME NEW i \in DOMAIN jobs, jobs[i] = c
                PROVE  \E j \in DOMAIN jobs' : jobs'[j] = c
            BY <3>2, <4>2, <6>1
          <6>2. ASSUME NEW i \in DOMAIN jobs', jobs'[i] = c
                PROVE  \E j \in DOMAIN jobs : jobs[j] = c
            BY <2>1, <6>2
          <6> QED
            BY <6>1, <6>2
        <5>2. (\E v \in Workers : serves[v] = c) <=> \E v \in Workers : serves'[v] = c
          <6>1. \A v \in Workers : serves[v] = c <=> serves'[v] = c
            BY <3>1, <3>4, <4>2 DEF TypeOK
          <6> QED
            BY <6>1
        <5>3. conn[c] \in {"open", "abandoned"} <=>
                (\E i \in DOMAIN jobs : jobs[i] = c) \/ (\E v \in Workers : serves[v] = c)
          BY DEF Places
        <5> QED
          BY <5>1, <5>2, <5>3
      <4> QED
        BY <4>1, <4>2
    <3> QED
      BY <3>5, <3>6, <3>7, <3>8 DEF Places
  <2>5. NoIdleHands'
    <3>1. w \in Checking /\ Checking' = Checking \ {w}
      BY DEF Checking, TypeOK
    <3>2. Cardinality(Checking') = Cardinality(Checking) - 1
      BY <3>1, OneLessChecking
    <3>3. Asleep' \subseteq Asleep
      BY DEF Asleep, TypeOK
    <3> QED
      BY <2>1, <3>2, <3>3, CheckingFinite DEF NoIdleHands, Checking
  <2>6. NobodySleepsOn'
    BY DEF NobodySleepsOn, Asleep, TypeOK
  <2> QED
    BY <2>3, <2>4, <2>5, <2>6
<1> QED
  BY <1>1, <1>2, <1>3, <1>4

-----------------------------------------------------------------------------
\* Closing the connection that w serves keeps the invariant.
LEMMA CloseSocketIInv ==
  ASSUME IInv, NEW w \in Workers, worker[w] \in Serving, CloseSocket(w, serves[w]),
         UNCHANGED <<listener, jobs, gLoginEvent>>,
         request' \in [Conns -> Routes \cup {NoRequest}]
  PROVE  IInv'
<1> USE ApiAssumption DEF IInv, CloseSocket
<1>1. serves[w] \in Conns /\ serves[w] # NoConn
  BY DEF TypeOK
<1>2. TypeOK'
  <2>1. left' \in [Conns -> 0 .. KeepAliveMax] /\ conn' \in [Conns -> {"new", "open", "abandoned", "closed"}]
    BY DEF TypeOK
  <2>2. /\ worker' \in [Workers -> {"check", "asleep", "ended"} \cup Serving]
        /\ serves' \in [Workers -> Conns \cup {NoConn}]
    BY DEF TypeOK
  <2>3. \A v \in Workers : worker'[v] \in Serving <=> serves'[v] # NoConn
    BY DEF TypeOK, Serving
  <2> QED
    BY <2>1, <2>2, <2>3 DEF TypeOK
<1>3. Places'
  <2>1. \A v \in Workers : serves'[v] = IF v = w THEN NoConn ELSE serves[v]
    BY DEF TypeOK
  <2>2. \A c \in Conns : conn'[c] = IF c = serves[w] THEN "closed" ELSE conn[c]
    BY DEF TypeOK
  <2>3. \A i \in DOMAIN jobs : jobs[i] \in Conns
    BY ElementOfSeq, LenProperties DEF TypeOK
  <2> QED
    BY <1>1, <2>1, <2>2, <2>3 DEF Places
<1>4. Asleep' \subseteq Asleep /\ Checking \subseteq Checking'
  BY DEF Asleep, Checking, TypeOK
<1> QED
  BY <1>2, <1>3, <1>4, NoIdleHandsKept DEF NobodySleepsOn

\* Answering a request keeps the invariant, whether the connection is closed or not.
LEMMA AnswerIInv ==
  ASSUME IInv, NEW w \in Workers, worker[w] \in Serving, Answer(w)
  PROVE  IInv'
<1> USE ApiAssumption DEF IInv, Answer
<1>1. serves[w] \in Conns /\ serves[w] # NoConn
  BY DEF TypeOK
<1>2. request' \in [Conns -> Routes \cup {NoRequest}]
  BY <1>1 DEF TypeOK
<1>3. CASE CloseSocket(w, serves[w])
  BY <1>2, <1>3, CloseSocketIInv
<1>4. CASE /\ left[serves[w]] > 1
           /\ left' = [left EXCEPT ![serves[w]] = @ - 1]
           /\ worker' = [worker EXCEPT ![w] = "keepAlive"]
           /\ UNCHANGED <<conn, serves>>
  <2> USE <1>4
  <2>1. left' \in [Conns -> 0 .. KeepAliveMax]
    BY <1>1 DEF TypeOK
  <2>2. TypeOK'
    BY <1>2, <2>1 DEF TypeOK, Serving
  <2>3. Places'
    BY DEF Places
  <2>4. Asleep' \subseteq Asleep /\ Checking \subseteq Checking'
    BY DEF Asleep, Checking, TypeOK, Serving
  <2> QED
    BY <2>2, <2>3, <2>4, NoIdleHandsKept DEF NobodySleepsOn
<1> QED
  BY <1>3, <1>4

\* A worker's steps on its connection.
LEMMA ServeIInv ==
  ASSUME IInv, NEW w \in Workers, Serve(w)
  PROVE  IInv'
<1>1. CASE KeepAliveEnds(w)
  BY <1>1, CloseSocketIInv DEF KeepAliveEnds, Serving, IInv, TypeOK
<1>2. CASE Handle(w)
  BY <1>2, AnswerIInv DEF Handle, Serving
<1>3. CASE Block(w)
  <2> USE <1>3 DEF Block, conns, IInv
  <2>1. TypeOK'
    BY DEF TypeOK, Serving
  <2>2. Places'
    BY DEF Places
  <2>3. Asleep' \subseteq Asleep /\ Checking \subseteq Checking'
    BY DEF Asleep, Checking, TypeOK
  <2> QED
    BY <2>1, <2>2, <2>3, NoIdleHandsKept DEF NobodySleepsOn
<1>4. CASE Respond(w)
  BY <1>4, AnswerIInv DEF Respond, Serving
<1> QED
  BY <1>1, <1>2, <1>3, <1>4 DEF Serve

\* WeChat's steps and the clients'.
LEMMA OutsideIInv ==
  ASSUME IInv, WeChat \/ \E c \in Conns : Client(c)
  PROVE  IInv'
<1> USE ApiAssumption DEF IInv
<1>1. CASE Login
  <2> USE <1>1 DEF Login, conns
  <2>1. TypeOK'
    BY DEF TypeOK, Serving
  <2>2. Places'
    BY DEF Places
  <2>3. Asleep' \subseteq Asleep /\ Checking \subseteq Checking'
    BY DEF Asleep, Checking, TypeOK
  <2> QED
    BY <2>1, <2>2, <2>3, NoIdleHandsKept DEF NobodySleepsOn
<1>2. CASE Logout
  <2> USE <1>2 DEF Logout, pool, conns
  <2>1. TypeOK'
    BY DEF TypeOK
  <2> QED
    BY <2>1 DEF Places, NoIdleHands, NobodySleepsOn, Asleep
<1>3. ASSUME NEW w \in Workers, SnsNotify(w)
      PROVE  IInv'
  <2> USE <1>3 DEF SnsNotify, conns
  <2>1. TypeOK'
    BY DEF TypeOK, Serving
  <2>2. Places'
    BY DEF Places
  <2>3. Asleep' \subseteq Asleep /\ Checking \subseteq Checking'
    BY DEF Asleep, Checking, TypeOK
  <2> QED
    BY <2>1, <2>2, <2>3, NoIdleHandsKept DEF NobodySleepsOn
<1>4. ASSUME NEW c \in Conns, NEW r \in Routes, Request(c, r)
      PROVE  IInv'
  <2> USE <1>4 DEF Request, pool
  <2>1. TypeOK'
    BY DEF TypeOK
  <2> QED
    BY <2>1 DEF Places, NoIdleHands, NobodySleepsOn, Asleep
<1>5. ASSUME NEW c \in Conns, GiveUp(c)
      PROVE  IInv'
  <2> USE <1>5 DEF GiveUp, pool
  <2>1. TypeOK'
    BY DEF TypeOK
  <2>2. \A d \in Conns : conn'[d] \in {"open", "abandoned"} <=> conn[d] \in {"open", "abandoned"}
    BY DEF TypeOK
  <2>3. Places'
    BY <2>2 DEF Places
  <2> QED
    BY <2>1, <2>3 DEF NoIdleHands, NobodySleepsOn, Asleep
<1> QED
  BY <1>1, <1>2, <1>3, <1>4, <1>5 DEF WeChat, Client

LEMMA NextIInv == IInv /\ [Next]_vars => IInv'
<1> SUFFICES ASSUME IInv, [Next]_vars
             PROVE  IInv'
  OBVIOUS
<1>1. CASE Next
  BY <1>1, ListenerIInv, PoolIInv, ServeIInv, OutsideIInv DEF Next, Worker
<1>2. CASE UNCHANGED vars
  BY <1>2 DEF vars, pool, conns, IInv, TypeOK, Places, NoIdleHands, NobodySleepsOn, Asleep
<1> QED
  BY <1>1, <1>2

LEMMA SpecIInv == Spec => []IInv
  BY InitIInv, NextIInv, PTL DEF Spec

-----------------------------------------------------------------------------
\* What Places says without counting is what OnePlace counts.
LEMMA PlacesCounted == IInv => OnePlace
<1> SUFFICES ASSUME IInv, NEW c \in Conns
             PROVE  Cardinality({i \in DOMAIN jobs : jobs[i] = c})
                      + Cardinality({w \in Workers : serves[w] = c})
                      = IF conn[c] \in {"open", "abandoned"} THEN 1 ELSE 0
  BY DEF OnePlace
<1> DEFINE waits == {i \in DOMAIN jobs : jobs[i] = c}
           served == {w \in Workers : serves[w] = c}
<1>1. Places
  BY DEF IInv
<1>2. \A i \in waits : waits = {i}
  BY <1>1 DEF Places
<1>3. \A w \in served : served = {w}
  BY <1>1, ApiAssumption DEF Places
<1> HIDE DEF waits, served
<1>4. Cardinality(waits) = IF waits = {} THEN 0 ELSE 1
  BY <1>2, FS_EmptySet, FS_Singleton
<1>5. Cardinality(served) = IF served = {} THEN 0 ELSE 1
  BY <1>3, FS_EmptySet, FS_Singleton
<1> USE DEF waits, served
<1>6. waits = {} \/ served = {}
  BY <1>1 DEF Places
<1>7. conn[c] \in {"open", "abandoned"} <=> waits # {} \/ served # {}
  BY <1>1 DEF Places
<1> QED
  BY <1>4, <1>5, <1>6, <1>7

\* Every variable keeps its type, and a worker has a connection exactly while it serves.
THEOREM ApiTypeCorrect == Spec => []TypeOK
  BY SpecIInv, PTL DEF IInv

\* While a worker sleeps, each waiting connection has a worker that is coming for it,
\* for any number of workers: no notification is lost.
THEOREM ApiNoIdleHands == Spec => []NoIdleHands
  BY SpecIInv, PTL DEF IInv

\* However connections are accepted, served, given up and closed, none of them is ever
\* in two places, nor open and forgotten.
THEOREM ApiOnePlace == Spec => []OnePlace
  BY SpecIInv, PlacesCounted, PTL

\* shutdown reaches every worker: after its notify_all nobody sleeps, so that the
\* workers it joins are those that still have connections to serve or are ending.
THEOREM ApiNobodySleepsOn == Spec => []NobodySleepsOn
  BY SpecIInv, PTL DEF IInv

=============================================================================
