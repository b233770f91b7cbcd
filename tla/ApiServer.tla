------------------------------ MODULE ApiServer ------------------------------
(***************************************************************************)
(* The HTTP server of one WeChat (ApiServer.cpp on httplib's Server and    *)
(* ThreadPool): one thread accepts connections, a pool of workers serves   *)
(* them, and two of the handlers block their worker: waitForLogin until a  *)
(* login, syncSns until a page of the timeline arrives.                    *)
(*                                                                         *)
(* A worker serves a connection until it is closed.  A client that gives   *)
(* up closes its connection; when it tries again it opens another.         *)
(*                                                                         *)
(* What blocks is the concern here: HttpConnection models what happens on  *)
(* one connection, and AccountFunction, SnsFunction and MsgMonitor what    *)
(* the handlers call, so that gLoginEvent is the only state of theirs.     *)
(***************************************************************************)
EXTENDS Integers, Sequences, FiniteSets

CONSTANTS
  Workers,       \* threads of the pool: at least 8 in the code
  Conns,         \* connections, each accepted once at most
  NoConn,        \* the connection of a worker that serves none
  Routes,        \* the requests that clients make here
  NoRequest,     \* no request waits on the connection
  KeepAliveMax   \* CPPHTTPLIB_KEEPALIVE_MAX_COUNT, 5 in the code

SendRoutes == {"sendTextMsg", "sendTextMsgEx", "sendImageMsg", "sendFile"}

\* The handlers that answer from what they find, and the answer 400 or 404 to a
\* request that no handler takes.
ReadRoutes ==
  {"/", "syncMsg", "getContactInfo", "getContactList", "getLoginQRCode",
   "getCustomEmotionList", "sendCustomEmotion", "getLoginUserInfo", "noHandler"}

ASSUME ApiAssumption ==
  /\ NoConn \notin Conns
  /\ Routes \subseteq SendRoutes \cup ReadRoutes \cup {"waitForLogin", "syncSns"}
  /\ NoRequest \notin Routes
  /\ KeepAliveMax \in Nat \ {0}
  /\ IsFiniteSet(Workers)

VARIABLES
  listener,     \* the server thread's statement in listen_internal
  jobs,         \* ThreadPool::jobs_: accepted connections no worker serves yet
  worker,       \* worker[w]: what w is doing
  serves,       \* serves[w]: the connection of w's job
  conn,         \* conn[c]: "new", "open", "abandoned" by its client, or "closed"
  left,         \* left[c]: the requests that c may still carry
  request,      \* request[c]: the request on c that is not answered yet
  gLoginEvent

pool == <<jobs, worker, serves>>
conns == <<conn, left, request>>
vars == <<listener, pool, conns, gLoginEvent>>

Init ==
  /\ listener = "accept"
  /\ jobs = << >>
  /\ worker = [w \in Workers |-> "check"]
  /\ serves = [w \in Workers |-> NoConn]
  /\ conn = [c \in Conns |-> "new"]
  /\ left = [c \in Conns |-> KeepAliveMax]
  /\ request = [c \in Conns |-> NoRequest]
  /\ gLoginEvent = FALSE

shutdown_ == listener # "accept"

Asleep == {w \in Workers : worker[w] = "asleep"}

-----------------------------------------------------------------------------
(* listen_internal and ThreadPool *)

\* Mutant: enqueue forgets to notify.
AcceptUnnotified(c) ==
  /\ listener = "accept"
  /\ conn[c] = "new"
  /\ conn' = [conn EXCEPT ![c] = "open"]
  /\ jobs' = Append(jobs, c)
  /\ UNCHANGED <<listener, worker, serves, left, request, gLoginEvent>>

\* A connection is accepted; enqueue pushes its job and notifies one worker.
Accept(c) ==
  /\ listener = "accept"
  /\ conn[c] = "new"
  /\ conn' = [conn EXCEPT ![c] = "open"]
  /\ jobs' = Append(jobs, c)
  /\ IF Asleep = {}
     THEN UNCHANGED worker
     ELSE \E w \in Asleep : worker' = [worker EXCEPT ![w] = "check"]
  /\ UNCHANGED <<listener, serves, left, request, gLoginEvent>>

\* accept fails: shutdown sets shutdown_ under its lock.
AcceptFails ==
  /\ listener = "accept"
  /\ listener' = "shutdown"
  /\ UNCHANGED <<pool, conns, gLoginEvent>>

\* Mutant: shutdown wakes one worker.
NotifyOneWorker ==
  /\ listener = "shutdown"
  /\ listener' = "join"
  /\ \E w \in Workers :
       worker' = [worker EXCEPT ![w] = IF @ = "asleep" THEN "check" ELSE @]
  /\ UNCHANGED <<jobs, serves, conns, gLoginEvent>>

\* shutdown calls cond_.notify_all() and goes on to join the workers.
NotifyAll ==
  /\ listener = "shutdown"
  /\ listener' = "join"
  /\ worker' = [w \in Workers |-> IF worker[w] = "asleep" THEN "check" ELSE worker[w]]
  /\ UNCHANGED <<jobs, serves, conns, gLoginEvent>>

\* Every worker is joined: listen returns false.
ListenReturns ==
  /\ listener = "join"
  /\ \A w \in Workers : worker[w] = "ended"
  /\ listener' = "returned"
  /\ UNCHANGED <<pool, conns, gLoginEvent>>

\* The predicate of cond_.wait is false: the worker sleeps.
Sleep(w) ==
  /\ worker[w] = "check"
  /\ jobs = << >>
  /\ ~shutdown_
  /\ worker' = [worker EXCEPT ![w] = "asleep"]
  /\ UNCHANGED <<listener, jobs, serves, conns, gLoginEvent>>

\* cond_.wait may wake without a notification; it checks its predicate again.
SpuriousWakeup(w) ==
  /\ worker[w] = "asleep"
  /\ worker' = [worker EXCEPT ![w] = "check"]
  /\ UNCHANGED <<listener, jobs, serves, conns, gLoginEvent>>

\* No job is left after shutdown: the thread ends.
End(w) ==
  /\ worker[w] = "check"
  /\ jobs = << >>
  /\ shutdown_
  /\ worker' = [worker EXCEPT ![w] = "ended"]
  /\ UNCHANGED <<listener, jobs, serves, conns, gLoginEvent>>

\* Mutant: the job is copied and stays in the list until it has run.
TakeJobPeeks(w) ==
  /\ worker[w] = "check"
  /\ jobs # << >>
  /\ conn[Head(jobs)] # "closed"
  /\ serves' = [serves EXCEPT ![w] = Head(jobs)]
  /\ worker' = [worker EXCEPT ![w] = "keepAlive"]
  /\ UNCHANGED <<listener, jobs, conns, gLoginEvent>>

\* The worker takes the first job; process_and_close_socket begins.
TakeJob(w) ==
  /\ worker[w] = "check"
  /\ jobs # << >>
  /\ jobs' = Tail(jobs)
  /\ serves' = [serves EXCEPT ![w] = Head(jobs)]
  /\ worker' = [worker EXCEPT ![w] = "keepAlive"]
  /\ UNCHANGED <<listener, conns, gLoginEvent>>

-----------------------------------------------------------------------------
(* process_server_socket_core, process_request and the handlers *)

\* Mutant: the worker goes back with the job still in fn.
CloseSocketKeepsJob(w, c) ==
  /\ conn' = [conn EXCEPT ![c] = "closed"]
  /\ left' = [left EXCEPT ![c] = 0]
  /\ worker' = [worker EXCEPT ![w] = "check"]
  /\ UNCHANGED serves

\* The loop of process_server_socket_core is left, the socket of w's connection c
\* is closed and w goes back for a job.
CloseSocket(w, c) ==
  /\ conn' = [conn EXCEPT ![c] = "closed"]
  /\ left' = [left EXCEPT ![c] = 0]
  /\ worker' = [worker EXCEPT ![w] = "check"]
  /\ serves' = [serves EXCEPT ![w] = NoConn]

\* keep_alive returns false: no request came in time, or the client is gone.
KeepAliveEnds(w) ==
  /\ worker[w] = "keepAlive"
  /\ request[serves[w]] = NoRequest
  /\ CloseSocket(w, serves[w])
  /\ UNCHANGED <<listener, jobs, request, gLoginEvent>>

\* Mutant: the requests of a connection are not counted.
AnswerUncounted(w) ==
  LET c == serves[w]
  IN  /\ request' = [request EXCEPT ![c] = NoRequest]
      /\ \/ CloseSocket(w, c)
         \/ worker' = [worker EXCEPT ![w] = "keepAlive"] /\ UNCHANGED <<conn, left, serves>>
      /\ UNCHANGED <<listener, jobs, gLoginEvent>>

\* The response is written.  The connection is closed at once when the client asked
\* for that or the response could not be written, and after its last request.
Answer(w) ==
  LET c == serves[w]
  IN  /\ request' = [request EXCEPT ![c] = NoRequest]
      /\ \/ CloseSocket(w, c)
         \/ /\ left[c] > 1
            /\ left' = [left EXCEPT ![c] = @ - 1]
            /\ worker' = [worker EXCEPT ![w] = "keepAlive"]
            /\ UNCHANGED <<conn, serves>>
      /\ UNCHANGED <<listener, jobs, gLoginEvent>>

\* A handler that does not block answers, with 500 if it throws.
Handle(w) ==
  /\ worker[w] = "keepAlive"
  /\ request[serves[w]] \in ReadRoutes \cup SendRoutes
  /\ Answer(w)

\* Api_WaitForLogin blocks its worker while nobody is logged in, Api_syncSns until
\* a page arrives.
Block(w) ==
  /\ worker[w] = "keepAlive"
  /\ \/ /\ request[serves[w]] = "waitForLogin"
        /\ worker' = [worker EXCEPT ![w] = IF gLoginEvent THEN "respond" ELSE "login"]
     \/ /\ request[serves[w]] = "syncSns"
        /\ worker' = [worker EXCEPT ![w] = "sns"]
  /\ UNCHANGED <<listener, jobs, serves, conns, gLoginEvent>>

\* The handler that blocked goes on, and answers.
Respond(w) ==
  /\ worker[w] = "respond"
  /\ Answer(w)

-----------------------------------------------------------------------------
(* WeChat and the clients *)

\* The login hook's SetEvent releases every worker that waits for it.
Login ==
  /\ ~gLoginEvent
  /\ gLoginEvent' = TRUE
  /\ worker' = [w \in Workers |-> IF worker[w] = "login" THEN "respond" ELSE worker[w]]
  /\ UNCHANGED <<listener, jobs, serves, conns>>

\* The logout hook's ResetEvent.
Logout ==
  /\ gLoginEvent
  /\ gLoginEvent' = FALSE
  /\ UNCHANGED <<listener, pool, conns>>

\* The timeline's hook wakes one of the workers that wait for a page.
SnsNotify(w) ==
  /\ worker[w] = "sns"
  /\ worker' = [worker EXCEPT ![w] = "respond"]
  /\ UNCHANGED <<listener, jobs, serves, conns, gLoginEvent>>

\* A client sends its next request.
Request(c, r) ==
  /\ conn[c] = "open"
  /\ request[c] = NoRequest
  /\ request' = [request EXCEPT ![c] = r]
  /\ UNCHANGED <<listener, pool, conn, left, gLoginEvent>>

\* A client closes its connection, with or without an answer.
GiveUp(c) ==
  /\ conn[c] = "open"
  /\ conn' = [conn EXCEPT ![c] = "abandoned"]
  /\ UNCHANGED <<listener, pool, left, request, gLoginEvent>>

-----------------------------------------------------------------------------
Listener == (\E c \in Conns : Accept(c)) \/ AcceptFails \/ NotifyAll \/ ListenReturns

Serve(w) == KeepAliveEnds(w) \/ Handle(w) \/ Block(w) \/ Respond(w)

Worker(w) == Sleep(w) \/ End(w) \/ TakeJob(w) \/ Serve(w)

WeChat == Login \/ Logout \/ \E w \in Workers : SnsNotify(w)

Client(c) == (\E r \in Routes : Request(c, r)) \/ GiveUp(c)

Next ==
  \/ Listener
  \/ \E w \in Workers : Worker(w) \/ SpuriousWakeup(w)
  \/ WeChat
  \/ \E c \in Conns : Client(c)

Spec == Init /\ [][Next]_vars

\* A worker runs on unless a handler blocks it, and so does shutdown.  A client
\* that sends nothing meets the keep-alive timeout.  Nobody has to connect, to ask,
\* to log in or to refresh the timeline, and accept need not fail.
Fairness ==
  /\ WF_vars(NotifyAll \/ ListenReturns)
  /\ \A w \in Workers : WF_vars(Worker(w))

FairSpec == Spec /\ Fairness

-----------------------------------------------------------------------------
(* Properties *)

Listed(s) == {s[i] : i \in DOMAIN s}

Serving == {"keepAlive", "login", "sns", "respond"}

\* Every variable has its type, and a worker has a connection while it serves.
TypeOK ==
  /\ listener \in {"accept", "shutdown", "join", "returned"}
  /\ jobs \in Seq(Conns)
  /\ worker \in [Workers -> {"check", "asleep", "ended"} \cup Serving]
  /\ serves \in [Workers -> Conns \cup {NoConn}]
  /\ conn \in [Conns -> {"new", "open", "abandoned", "closed"}]
  /\ left \in [Conns -> 0 .. KeepAliveMax]
  /\ request \in [Conns -> Routes \cup {NoRequest}]
  /\ gLoginEvent \in BOOLEAN
  /\ \A w \in Workers : worker[w] \in Serving <=> serves[w] # NoConn

\* No job waits for a worker that sleeps: while some worker sleeps, there are as
\* many workers on their way to the list as jobs in it.
NoIdleHands ==
  Asleep # {} => Len(jobs) <= Cardinality({w \in Workers : worker[w] = "check"})

\* An accepted connection is in one place until it is closed: in the list once, or
\* with one worker.  No two threads write to a socket and none is forgotten.
OnePlace ==
  \A c \in Conns :
    Cardinality({i \in DOMAIN jobs : jobs[i] = c})
      + Cardinality({w \in Workers : serves[w] = c}) = IF conn[c] \in {"open", "abandoned"} THEN 1 ELSE 0

Blocked(w) == worker[w] \in {"login", "sns"}

\* A connection in the list is taken up, however many requests the others carry,
\* unless all workers are blocked in waitForLogin and syncSns at some time.
TakenUnlessAllBlocked ==
  \A c \in Conns :
    c \in Listed(jobs) ~> (c \notin Listed(jobs) \/ \A w \in Workers : Blocked(w))

\* When the server has stopped accepting, listen returns, unless a worker is
\* blocked in waitForLogin or syncSns.
ListenReturnsUnlessBlocked ==
  shutdown_ ~> (listener = "returned" \/ \E w \in Workers : Blocked(w))

=============================================================================
