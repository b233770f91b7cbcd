---------------------------- MODULE HttpConnection ----------------------------
(***************************************************************************)
(* One connection to the HTTP server (httplib.h, Server) from its          *)
(* acceptance to the end of process_and_close_socket, byte stream and all: *)
(* a client that sends its requests in parts and waits for each answer, or *)
(* pauses, or goes away; a worker that reads, times out, dispatches and    *)
(* answers.  ApiServer, which this module implements, abstracts from all   *)
(* of that.                                                                *)
(*                                                                         *)
(* Of the handlers, sendTextMsgEx and getLoginQRCode run here in detail    *)
(* (modules SendText and Base64); the others answer at once.  The ones     *)
(* that block are ApiServer's concern.                                     *)
(*                                                                         *)
(* The stream is a sequence of parts: the request line, the headers, the   *)
(* blank line and BodyLen parts of a body, which hold no newline.  A read  *)
(* takes what has arrived, which may be several parts, into the buffer of  *)
(* a SocketStream that lives as long as one request: what is left in the   *)
(* buffer when the request has been answered is gone.                      *)
(***************************************************************************)
EXTENDS SendText, Base64

CONSTANTS
  Requests,      \* what a client may ask: [path, close]
  BodyLen,       \* parts of the body of a POST
  KeepAliveMax,  \* CPPHTTPLIB_KEEPALIVE_MAX_COUNT, 5 in the code
  MaxRequests    \* bound of the model: requests that the client makes

GetPaths == {"syncMsg", "getLoginQRCode"}
PostPaths == {"sendTextMsgEx", "unknown"}

ASSUME HttpAssumption ==
  /\ Requests \subseteq [path : GetPaths \cup PostPaths, close : BOOLEAN]
  /\ BodyLen \in Nat \ {0}
  /\ KeepAliveMax \in Nat \ {0}
  /\ MaxRequests \in Nat

VARIABLES
  stage,      \* where the worker is
  count,      \* requests that the connection may still carry
  asked,      \* the client's requests, in order
  toSend,     \* the parts of the last one that are not sent yet
  client,     \* "here" or "gone"
  wire,       \* the parts sent and not read
  buff,       \* SocketStream's buffer: the parts read and not used
  read,       \* the parts used for the request that is being read
  status,     \* of the response under way, 0 before it is known
  answers,    \* what the client has received: [of, status]
  handled,    \* history: the requests that a handler was called for
  late        \* history: has a read timed out within a request?

handlers == <<textVars, encVars>>
requestVars == <<read, status>>
stream == <<wire, buff>>
clientVars == <<asked, toSend, client, answers>>
history == <<handled, late>>
vars == <<stage, count, clientVars, stream, requestVars, history, handlers>>

Init ==
  /\ stage = "new"
  /\ count = KeepAliveMax
  /\ asked = << >>
  /\ toSend = << >>
  /\ client = "here"
  /\ wire = << >>
  /\ buff = << >>
  /\ read = << >>
  /\ status = 0
  /\ answers = << >>
  /\ handled = << >>
  /\ late = FALSE
  /\ TextInit
  /\ EncInit

\* The parts of request k.
HasBody(k) == asked[k].path \in PostPaths
Parts(q, k) ==
  [i \in 1 .. (IF q.path \in PostPaths THEN 3 + BodyLen ELSE 3) |->
     [of |-> k, kind |-> IF i <= 3 THEN <<"line", "header", "blank">>[i] ELSE "body"]]

-----------------------------------------------------------------------------
(* The client *)

\* A client asks again when it has an answer to all that it asked before.
Ask(q) ==
  /\ stage \notin {"new", "closed"}
  /\ client = "here"
  /\ toSend = << >>
  /\ Len(asked) < MaxRequests
  /\ Len(answers) >= Len(asked)
  /\ asked' = Append(asked, q)
  /\ toSend' = Parts(q, Len(asked) + 1)
  /\ UNCHANGED <<stage, count, client, answers, stream, requestVars, history, handlers>>

\* The next part arrives at the server.
SendPart ==
  /\ stage # "closed"
  /\ client = "here"
  /\ toSend # << >>
  /\ wire' = Append(wire, Head(toSend))
  /\ toSend' = Tail(toSend)
  /\ UNCHANGED <<stage, count, asked, client, answers, buff, requestVars, history, handlers>>

\* The client closes its end or dies, perhaps in the middle of a request.
GoAway ==
  /\ stage \notin {"new", "closed"}
  /\ client = "here"
  /\ client' = "gone"
  /\ toSend' = << >>
  /\ UNCHANGED <<stage, count, asked, answers, stream, requestVars, history, handlers>>

-----------------------------------------------------------------------------
(* Accepting, keep_alive and the end of the connection *)

\* listen_internal accepts the connection; a worker takes its job.
Accept ==
  /\ stage = "new"
  /\ stage' = "queued"
  /\ UNCHANGED <<count, clientVars, stream, requestVars, history, handlers>>

TakeJob ==
  /\ stage = "queued"
  /\ stage' = "keepAlive"
  /\ UNCHANGED <<count, clientVars, stream, requestVars, history, handlers>>

\* The loop is left and the socket closed.
CloseSocket == stage' = "closed" /\ count' = 0

\* keep_alive: something has arrived, or the client has closed its end.  A new
\* SocketStream and a new Request.
KeepAlive ==
  /\ stage = "keepAlive"
  /\ wire # << >> \/ client = "gone"
  /\ stage' = "line"
  /\ UNCHANGED <<count, clientVars, stream, requestVars, history, handlers>>

\* keep_alive: nothing has arrived in time.
KeepAliveTimesOut ==
  /\ stage = "keepAlive"
  /\ wire = << >>
  /\ client = "here"
  /\ CloseSocket
  /\ UNCHANGED <<clientVars, stream, requestVars, history, handlers>>

-----------------------------------------------------------------------------
(* SocketStream::read *)

Reading == stage \in {"line", "headers", "content"}

\* Some of what has arrived is read into the buffer, which holds 4 KB.
Receive ==
  /\ Reading
  /\ buff = << >>
  /\ \E i \in 1 .. Len(wire) :
       /\ buff' = SubSeq(wire, 1, i)
       /\ wire' = SubSeq(wire, i + 1, Len(wire))
  /\ UNCHANGED <<stage, count, clientVars, requestVars, history, handlers>>

\* Mutant: there is no time-out for a body.
NothingMoreNoTimeout ==
  /\ buff = << >>
  /\ wire = << >>
  /\ client = "here" => stage # "content"

\* read returns no byte: the time-out of five seconds, or the end of the stream.
NothingMore == buff = << >> /\ wire = << >>

\* The next part in the buffer is used for the request.
Use == read' = Append(read, Head(buff)) /\ buff' = Tail(buff)

\* The response is a status and perhaps a body.
Respond(code) == status' = code /\ stage' = "respond"

-----------------------------------------------------------------------------
(* process_request: the request line *)

\* getline goes on to the next newline.
LineContinues ==
  /\ stage = "line"
  /\ buff # << >>
  /\ Head(buff).kind = "body"
  /\ Use
  /\ UNCHANGED <<stage, count, clientVars, wire, status, history, handlers>>

\* A line has been read and parse_request_line is content with it: it is a request
\* line and nothing stands in front of it.
LineParsed ==
  /\ stage = "line"
  /\ buff # << >>
  /\ Head(buff).kind = "line"
  /\ read = << >>
  /\ Use
  /\ stage' = "headers"
  /\ UNCHANGED <<count, clientVars, wire, status, history, handlers>>

\* A line has been read that is no request line: 400.  The headers are not read.
LineMalformed ==
  /\ stage = "line"
  /\ buff # << >>
  /\ Head(buff).kind # "body"
  /\ Head(buff).kind # "line" \/ read # << >>
  /\ Use
  /\ Respond(400)
  /\ UNCHANGED <<count, clientVars, wire, history, handlers>>

\* The line stays incomplete: the connection is closed without a response, unless
\* the stream has ended in the middle of the line, which is then malformed.
LineMissing ==
  /\ stage = "line"
  /\ NothingMore
  /\ IF client = "gone" /\ read # << >>
     THEN Respond(400) /\ UNCHANGED count
     ELSE CloseSocket /\ UNCHANGED status
  /\ UNCHANGED <<clientVars, stream, read, history, handlers>>

(* read_headers *)

Current == read[1].of

\* Mutant: the content of a request that no handler takes is left in the stream.
ReadHeaderRoutesFirst ==
  /\ stage = "headers"
  /\ buff # << >>
  /\ Use
  /\ stage' = IF Head(buff).kind # "blank" THEN "headers"
              ELSE IF asked[Current].path = "sendTextMsgEx" THEN "content" ELSE "dispatch"
  /\ UNCHANGED <<count, clientVars, wire, status, history, handlers>>

\* The next line of the headers; the blank line ends them.  A POST has content.
ReadHeader ==
  /\ stage = "headers"
  /\ buff # << >>
  /\ Use
  /\ stage' = IF Head(buff).kind # "blank" THEN "headers"
              ELSE IF HasBody(Current) THEN "content" ELSE "dispatch"
  /\ UNCHANGED <<count, clientVars, wire, status, history, handlers>>

\* Mutant: the headers that did arrive are taken for all.
HeadersMissingAccepted ==
  /\ stage = "headers"
  /\ NothingMore
  /\ stage' = "dispatch"
  /\ late' = (late \/ client = "here")
  /\ UNCHANGED <<count, clientVars, stream, requestVars, handled, handlers>>

\* The headers stay incomplete: 400.
HeadersMissing ==
  /\ stage = "headers"
  /\ NothingMore
  /\ Respond(400)
  /\ late' = (late \/ client = "here")
  /\ UNCHANGED <<count, clientVars, stream, read, handled, handlers>>

(* read_content_with_length, before a handler is looked for *)

\* The parts of the content that have been read: those behind the blank line.
r == Len(read) - 3

ReadContent ==
  /\ stage = "content"
  /\ buff # << >>
  /\ Use
  /\ stage' = IF r + 1 = BodyLen THEN "dispatch" ELSE "content"
  /\ UNCHANGED <<count, clientVars, wire, status, history, handlers>>

ContentMissing ==
  /\ stage = "content"
  /\ NothingMore
  /\ Respond(400)
  /\ late' = (late \/ client = "here")
  /\ UNCHANGED <<count, clientVars, stream, read, handled, handlers>>

-----------------------------------------------------------------------------
(* dispatch_request and the handlers *)

Path == asked[Current].path

\* No handler matches.
NotFound ==
  /\ stage = "dispatch"
  /\ Path = "unknown"
  /\ Respond(404)
  /\ UNCHANGED <<count, clientVars, stream, read, history, handlers>>

Dispatched(path) ==
  /\ stage = "dispatch"
  /\ Path = path
  /\ handled' = Append(handled, Current)
  /\ UNCHANGED <<count, clientVars, stream, read, late>>

\* A handler that is not modelled here answers.
CallPlain ==
  /\ Dispatched("syncMsg")
  /\ Respond(200)
  /\ UNCHANGED handlers

\* The body's contents are whatever the client has sent.
CallSendTextMsgEx ==
  /\ Dispatched("sendTextMsgEx")
  /\ stage' = "handler"
  /\ \E b \in Bodies : Begin(b)
  /\ UNCHANGED <<status, encVars>>

\* There is an image to encode, or none: "code" 201 in a response of status 200.
CallGetLoginQRCode ==
  /\ Dispatched("getLoginQRCode")
  /\ \/ /\ \E image \in Images : Encode(image)
        /\ stage' = "handler"
        /\ UNCHANGED <<status, textVars>>
     \/ /\ Respond(200)
        /\ UNCHANGED handlers

\* A handler runs, and returns or throws: 200 or 500.
RunHandler ==
  /\ stage = "handler"
  /\ \/ TextStep /\ UNCHANGED <<stage, status, encVars>>
     \/ EncStep /\ UNCHANGED <<stage, status, textVars>>
     \/ TextReset /\ Respond(IF textPc = "done" THEN 200 ELSE 500) /\ UNCHANGED encVars
     \/ EncReset /\ Respond(200) /\ UNCHANGED textVars
  /\ UNCHANGED <<count, clientVars, stream, read, history>>

-----------------------------------------------------------------------------
(* write_response_core and the end of a turn of process_server_socket_core *)

\* Mutant: the loop goes on at zero.
NextTurnPastZero == stage' = "keepAlive" /\ count' = count - 1

\* Mutant: the turns are not counted.
NextTurnUncounted == stage' = "keepAlive" /\ UNCHANGED count

\* The turns are counted down from KeepAliveMax.
NextTurn ==
  IF count = 1 THEN CloseSocket ELSE stage' = "keepAlive" /\ count' = count - 1

\* Did the client ask to close the connection, in headers that have been read?
ConnectionClosed ==
  Len(read) >= 3 /\ read[1].kind = "line" /\ asked[Current].close

\* The response is written, or cannot be.  The buffer goes with its SocketStream.
WriteResponse ==
  /\ stage = "respond"
  /\ IF client = "here"
     THEN answers' = Append(answers, [of |-> IF read[1].kind = "line" THEN Current ELSE 0,
                                      status |-> status])
     ELSE UNCHANGED answers
  /\ \/ (ConnectionClosed \/ client = "gone") /\ CloseSocket
     \/ ~ConnectionClosed /\ NextTurn
  /\ buff' = << >>
  /\ read' = << >>
  /\ status' = 0
  /\ UNCHANGED <<asked, toSend, client, wire, history, handlers>>

-----------------------------------------------------------------------------
Client == (\E q \in Requests : Ask(q)) \/ SendPart \/ GoAway

ReadRequest ==
  \/ Receive
  \/ LineContinues \/ LineParsed \/ LineMalformed \/ LineMissing
  \/ ReadHeader \/ HeadersMissing
  \/ ReadContent \/ ContentMissing

Server ==
  \/ Accept \/ TakeJob
  \/ KeepAlive \/ KeepAliveTimesOut
  \/ ReadRequest
  \/ NotFound \/ CallPlain \/ CallSendTextMsgEx \/ CallGetLoginQRCode \/ RunHandler
  \/ WriteResponse

Next == Client \/ Server

Spec == Init /\ [][Next]_vars

\* The worker runs on: a read waits five seconds at most, and these handlers never
\* wait.  The client may pause, go away or stop asking.
Fairness == WF_vars(Server)

FairSpec == Spec /\ Fairness

-----------------------------------------------------------------------------
(* Properties *)

Stages == {"new", "queued", "keepAlive", "line", "headers", "content", "dispatch",
           "handler", "respond", "closed"}

APart == [of : Nat, kind : {"line", "header", "blank", "body"}]

\* Every variable has its type.
TypeOK ==
  /\ stage \in Stages
  /\ count \in 0 .. KeepAliveMax
  /\ asked \in Seq(Requests)
  /\ {toSend, wire, buff, read} \subseteq Seq(APart)
  /\ client \in {"here", "gone"}
  /\ status \in {0, 200, 400, 404, 500}
  /\ answers \in Seq([of : 0 .. Len(asked), status : {200, 400, 404, 500}])
  /\ handled \in Seq(1 .. Len(asked))
  /\ late \in BOOLEAN
  /\ TextTypeOK
  /\ EncTypeOK

\* Of the answers that a client gets, the k-th is the answer to its k-th request,
\* and tells it what became of the request: as long as the client does not pause
\* within a request for longer than a read waits.
AnswersMatch ==
  ~late => \A k \in DOMAIN answers :
             /\ answers[k].of = k
             /\ answers[k].status \in IF asked[k].path = "unknown" THEN {404}
                                      ELSE IF asked[k].path = "sendTextMsgEx" THEN {200, 500}
                                      ELSE {200}

\* A handler is called for a request that has arrived as a whole, with nothing of
\* another request in it, once at most and in the order of the requests; also after
\* time-outs, when the server reads the rest of one request as the next one.
HandledWhole ==
  /\ stage \in {"dispatch", "handler"} => read = Parts(asked[Current], Current)
  /\ \A i, j \in DOMAIN handled : i < j => handled[i] < handled[j]

\* However a client behaves, its connection ends and the worker is free again.
ConnectionEnds == stage = "queued" ~> stage = "closed"

Working == stage \notin {"new", "queued", "closed"}

Api == INSTANCE ApiServer
         WITH Workers <- {1}, Conns <- {1}, NoConn <- 0,
              Routes <- {"syncMsg", "getLoginQRCode", "sendTextMsgEx", "noHandler"},
              NoRequest <- "none",
              listener <- "accept",
              jobs <- IF stage = "queued" THEN <<1>> ELSE << >>,
              worker <- [w \in {1} |-> IF Working THEN "keepAlive" ELSE "check"],
              serves <- [w \in {1} |-> IF Working THEN 1 ELSE 0],
              conn <- [c \in {1} |-> IF stage \in {"new", "closed"} THEN stage ELSE "open"],
              left <- [c \in {1} |-> count],
              request <- [c \in {1} |-> IF stage = "handler" THEN Path
                                        ELSE IF stage = "respond"
                                        THEN (IF status \in {200, 500} THEN Path ELSE "noHandler")
                                        ELSE "none"],
              gLoginEvent <- FALSE

\* A connection does what ApiServer says of it: at most KeepAliveMax answers, one to
\* a request, and the worker back at its list when the connection is closed.
ImplementsServe == Api!Spec
=============================================================================
