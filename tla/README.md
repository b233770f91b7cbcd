# WeChatStudy in TLA+

Specifications of WeChatStudy, a DLL that is loaded into the Windows client of
WeChat, hooks some of its functions and offers them as an HTTP service, and of the
programs that load it. The modules are checked with TLC on small instances; the
most important properties are proved with TLAPS for every instance.

Paths below are relative to `src/`; `DLL/` stands for `WeChatGUI/WeChatDLL/`.

## 1. The system

    client (webot.py) --start, inject--> WeChat.exe
           |                              | main thread, hook callbacks, window thread
           | HTTP                         v
           +----> httplib server --> AccountFunction, SnsModule, MsgMonitor, Contact...
                  (pool of workers)       ^
                                          | hooks written by InlineHook

WeChat's own threads run the hook callbacks; the server's workers run the handlers.
They meet in a message list, a login event, a QR code and a timeline page, each
with a synchronisation of its own. That is where the program can go wrong in ways
that its tests (there are none; `README.md:25` says that it is hardly tested) would
not show.

| Component (source) | State | Operations | Interacts with |
|---|---|---|---|
| **MsgBuffer** (`DLL/Function/MsgMonitor.cpp:287-317`) | `buffer`, `mute` | `pushMsg`, `popMsg` | called by hook threads and workers |
| **MsgMonitor** (`MsgMonitor.cpp:27-285`, `ApiServer.cpp:208`) | `addMemberEventMap` under `addEventMutex`, a `MsgBuffer` | hooks for chat messages, image downloads, change lists and member details of chat rooms; `SyncMsg` | WeChat's callbacks; `/syncMsg` |
| **AccountFunction** (`DLL/Function/AccountFunction.cpp`) | `gLoginEvent` (manual reset), `currentUserWxid` (no lock), `currentQRCode` under `qrcodeMutex` | hooks for login, logout and the login window; `WaitUtilLogin`, `getLoginQRCode` | `/waitForLogin`, `/getLoginQRCode`; MsgMonitor reads the wxid |
| **SnsModule** (`DLL/Function/SnsFunction.cpp`) | `gTimeLineRespList` under `gMutex`, `gCv` | `SyncSns`, hook at the end of a page's fetch | asks WeChat for a page, which comes back through the hook; `/syncSns` |
| **InlineHook** (`DLL/InlineHook/InlineHook.cpp`) | saved code, trampoline, hook address, the code of WeChat | `AddHook`, `RemoveHook` | used by the Init functions; `RemoveHook` has no caller in the repository |
| **Startup** (`WeChatLoader.cpp`, `_utils.py`, `webot.py`, `DLL/WeChatDLL.cpp`, `DLL/main.cpp`, `ApiServer.cpp:343-375`) | a process, its main, remote and server thread, a port | loaders, `InitDLL`, the Init functions, `StartApiServer` | Windows, other programs on the port |
| **ApiServer** (`DLL/ApiServer.cpp`, `DLL/include/httplib.h`) | list of jobs, workers, connections; of each connection a socket, a read buffer and the request under way | the pool, keep-alive, reading and answering a request, fourteen handlers | clients; all the modules above |
| **webot** (`WeChatClient/`) | a port | start WeChat, poll messages, QR code, wait for login; dies at a failed request | HTTP |
| **ContactFunction** and the copies of WeChat's structures | none; strings of WeChat that own buffers | lookups; copying and destroying strings | WeChat's memory; `sendTextMsgEx` |
| **Conversions** (`DLL/public/`) | none | base64, hexadecimal, code pages, versions | everyone |

What makes each of them correct, and what is hard about it:

* MsgBuffer: no message is handed out twice or lost but as the oldest of a full
  list, with many threads in both functions at any statement.
* MsgMonitor: every event becomes the reports that it should become. One image
  comes through two hooks; one join takes two callbacks on two threads, in either
  order; a response can be lost after its messages were popped, and the client dies
  of it.
* AccountFunction: the event follows WeChat's session, it releases every waiter,
  and nobody sees a QR code half stored. The wxid has no lock at all.
* SnsModule: a call gets a whole page, a notified call a new one, and it ends. The
  condition variable has no predicate.
* InlineHook: the trampoline does what the overwritten instructions did, in arrays
  that are large enough, at any address.
* Startup: no code of WeChat's runs while its functions are being overwritten, and
  a WeChat either serves with everything in place or goes away, whichever call
  fails and whoever holds the port.
* ApiServer: a connection finds a worker unless all are blocked; two of the
  handlers do block their worker, without a limit of time. On a connection a
  handler gets one whole request at a time, and each answer belongs to its request,
  although requests arrive in pieces, time out half way and leave a rest behind.
* `sendTextMsgEx`: WeChat gets the text and the list of mentioned users that the
  request describes, or nothing; every string is freed once, also by an exception.
* `base64_encode`: the digits of the image and no write past the end.

## 2. Modules

| Module | What it specifies |
|---|---|
| `MsgLimits` | the numbers that bound the message list |
| `MsgQueue` | abstract: a cursor over the log of messages, one step per call |
| `MsgBuffer` | `pushMsg` and `popMsg`, one step per statement; implements `MsgQueue` |
| `MsgMonitor` | hooks, chat room, clients; its queue is an instance of `MsgQueue` |
| `AccountFunction` | login, logout, QR code, waiting workers |
| `SnsFunction` | `SyncSns` and the timeline's hook |
| `InlineHook` | `AddHook`, one step per turn of its loop, and `RemoveHook` |
| `Startup` | loaders, `InitDLL`, `StartApiServer`, several WeChats and ports |
| `ApiServer` | the pool, connections, handlers that block, clients that give up; for one connection the abstract specification |
| `HttpConnection` | one connection as a stream of bytes, from `accept` to `close`; implements `ApiServer`; runs the two handlers below |
| `SendText` | `sendTextMsgEx` with WeChat's strings, their buffers and the list of them |
| `Base64` | `base64_encode`, one step per turn of its loop, against RFC 4648 |
| `*Proofs` | the theorems about the module of that name; `MsgBufferProofs` also those about `MsgQueue`, `ApiProofs` about `ApiServer`, `HttpProofs` about `HttpConnection` with `SendText` and `Base64` |
| `MC*` | the module for TLC: sets of inputs and symmetry |

A definition has the name of the function it translates, or of the statement when a
function is several steps; a variable has the name of the code's variable. What has
another name is a program counter, WeChat's own state or marked *history*. Operators
marked *Mutant* are no part of a specification: each is a plausible mistake in the
definition below it, which a property is known to notice.

Correspondence, module by module:

* **MsgBuffer.** A hook thread is at `pushMsg`'s test of the size, its `push_back`
  or its `unlock`; a worker is in the copying loop, the erasing loop or at the
  `unlock`. Messages are their arrival numbers. `mute` is a variable, and only
  `PushLock` and `PopLock` look at it: it is the mutex that keeps the others apart.
  The refinement to `MsgQueue` counts a push when its message is in the list or
  its predecessor has been trimmed (`landed`), and a `popMsg` when its copying loop
  is over (`headBar`, `gotBar`).
* **MsgMonitor.** `MyAddChatMsg` and `MyOnDownloadImageSuccessed` push at most one
  message and touch no other shared state, so each is one step; the two chat-room
  callbacks lock the table for one member at a time and are one step per member and
  access. `Reply` and `ReplyLost` end a request: the second stands for a broken
  connection, a dead client, and for `dump` throwing at `ApiServer.cpp:217`, which
  answers 500 after the messages have been popped; in each case `sync_msg` raises an
  exception that nobody catches (`webot.py:42`), so that the client is gone until
  somebody starts it (`Start`, perhaps never). The room has members when the DLL is
  loaded (`present`). WeChat handles one change list
  of a room at a time (its callbacks for one room come from one queue of its own);
  responses may come at any time on other threads.
* **AccountFunction.** `AccountService_login` is `SetEvent`, the beginning of the
  assignment and its end; a worker that copies the string in between gets the old
  value, the new one or neither (`WxidCopies`), which is what a data race on a
  `std::wstring` can produce short of a crash. The event is manual-reset:
  `SetEvent` releases all that wait, at that moment.
* **SnsFunction.** `gCv.wait` releases the mutex and sleeps in one step, as the
  standard promises, and may wake spuriously. A page is its number; it holds
  `PageLen` copies of it, so that a mixture of two pages would show. WeChat fetches
  pages on request and of its own accord.
* **InlineHook.** An instruction is its kind, length and destination. The loop ends
  at five bytes. Offsets are numbers modulo the address space, as the code's
  `unsigned int`. `Garbage` is the `dwRetAddr` that was never computed.
* **Startup.** The remote thread runs `LoadLibrary`, and in it `DllMain` and
  `InitDLL`; the server thread starts when `DllMain` has returned (loader lock).
  Every Windows call that can fail may fail. httplib on Windows binds with
  exclusive use (`httplib.h:1593`), so a port has one listener. `StartApiServer`
  calls `listen` twice and looks at the second result.
* **ApiServer.** `enqueue`, `worker` and `shutdown` statement by statement where a
  lock is held or a wait begins; a handler is one step unless it blocks. The pool
  has at least eight workers in the code (`httplib.h:97-102`).
* **HttpConnection.** A request is a sequence of parts: its line, its headers, the
  blank line, the parts of a body. The client sends them one by one, so that it may
  pause or go away between any two; a read takes one or more of those that have
  arrived (`Receive`). A time-out can strike whenever nothing more has arrived
  (`NothingMore`). The `SocketStream` and its buffer live for one request
  (`httplib.h:2538-2542`), so what a request leaves in the buffer is gone, and what it
  leaves in the socket is the beginning of the next. The stages `line`, `headers`,
  `content`, `dispatch`, `handler` and `respond` are the calls of `process_request` in
  their order; `ApiServer` sees the connection in a worker's hands all along, a
  request from the moment that its handler or its error is known, and an answer when
  it is written. The refinement has one worker and one connection, and maps the
  answers 400 and 404 to the route `noHandler`.
* **SendText.** A string is the number of its buffer, the heap a function from the
  live buffers to what they hold. `assign` and the copying constructor allocate,
  destructors free. `Grow` is `reallocate_insert`, which every first `push_back` runs
  since a new vector has no space (`vector.h:544-561`). Texts and wxids are values.
* **Base64.** A digit is its index in the table; shifts and masks are divisions and
  remainders of bytes. `Reference` is the definition of the RFC.

## 3. What TLC checks

| Run | Specification | What it shows | Distinct states |
|---|---|---|---|
| `msg_buffer` | 2 hook threads, 2 workers, list of 3, batches of 2, 6 messages | the list is always the newest messages; `MsgBuffer` implements `MsgQueue` | 3 683 |
| `msg_delivery` | 1 hook thread, 2 clients that die and come back, 5 messages of all kinds, list of 3 | nothing vanishes without a cause, comes twice or out of order; every message is settled while some client polls | 439 932 |
| `msg_members` | 2 hook threads, 2 members, there before or not, 3 change lists, 2 responses | joins are real and not missed, each departure is reported once | 391 295 |
| `account` | 2 workers, 2 users, 2 logins, 2 images | the event and the wxid follow the session; no waiter stays; no half image | 187 406 |
| `account_wait` | the same | *violation*: a released worker returns another wxid than the user's | |
| `sns` | 2 workers, 3 pages of 2 posts | whole pages; a notified call gets a new page and ends | 50 089 |
| `sns_lost_wakeup` | 1 page, no spurious wakeups | *violation*: a call waits for ever | |
| `inline_hook` | all sequences of 16 instructions up to five bytes, 256 addresses | what the trampoline does, array sizes, offsets, order of the writes | 11 347 |
| `startup` | 2 WeChats, 3 loaders, 2 ports | patched while suspended; served whole; up or gone | 295 104 |
| `api` | 2 workers, 3 connections of 2 requests, 3 routes, with fairness | no job waits for a sleeper; one place per connection; a connection is taken up unless all workers are blocked; `listen` returns unless one is | 532 992 |
| `http` | 3 requests of 4 kinds, bodies of 2 parts; 53 bodies of `sendTextMsgEx`; 63 images | answers match, handlers get whole requests, the connection ends; `HttpConnection` implements `ApiServer`; what is sent and encoded; strings are freed once | 632 486 |
| `at_list_grows` | 1 request, 3 mentioned users, first space of 2 | *violation*: the list's strings point to freed buffers | |

**Bounds.** The capacity of 1000 and the batch of 10 are constants; with 3 and 2 the
list overflows, a batch is cut short by the end of the list and by its limit, and
two workers share the list, which are the cases of the code. Two hook threads, two
workers or two processes show every race of two; a third worker would meet nothing
new in a mutex, and where a third party matters (a connection more than workers) it
is there. `MaxPushed`, `MaxChanges`, `MaxDetails`, `MaxLogins` and `MaxPages` bound
the behaviours, `MaxRequests` the requests on a connection; the runs' properties need two or three rounds (a member joins,
leaves and joins again; two users log in one after the other; a request whose rest
is read as the next one, and the one after it). `KeepAliveMax` is 3 where the code
has 5: the first, a middle and the last turn differ. The first space of the list is
2 where the code has 16. The bodies have every kind of part at the beginning, in the
middle and at the end; the images have every remainder of three and bytes whose high
and low bits differ. Symmetry is used in safety runs only.

**Deadlock** is checked in `msg_buffer`, `msg_delivery`, `startup` and `api`. The
other runs stop when their bound is reached or when everything
waits for an event that WeChat need not raise, and say so in their `.cfg`.

**Fairness** is weak fairness of threads that are inside a function: Windows
schedules runnable threads. Strong fairness is asked for a mutex that several
threads want (`SnsFunction`), which is freed again and again: Windows' locks do not
starve a waiter for ever. Nothing is assumed of people (to log in, to quit), of
`accept` (to fail), of other programs, or of WeChat's own refreshes. WeChat is
assumed to answer a request for a page (`pending > 0`), and a client to go on
polling (`main.py:26`, `while True`) unless it dies or is stopped, with each of its
requests ending, with or without an answer; nobody has to start it again, which is
why `EventuallySettled` asks for one client that polls for good. In `HttpConnection`
the worker runs on, since a read waits five seconds at most and its handlers never
wait; the client may pause for ever at any place. `Joined` in `Startup` has no fairness: the workers that `listen`
joins may wait for a login for ever.

### Disagreements found

Three runs show the code doing other than what it, or its documentation, says:

1. `account_wait`: `SetEvent` comes before the wxid is stored
   (`AccountFunction.cpp:30` and `:33`).
2. `sns_lost_wakeup`: the wait on `gCv` has no predicate and begins after the
   request is out (`SnsFunction.cpp:83-92`).
3. `at_list_grows`: when the list of mentioned users outgrows its space, at the 17th
   user, its strings are copied bytewise and the old ones destroyed
   (`DLL/include/MyTinySTL/vector.h:740` and `:750`, `uninitialized.h:208`), because
   `mmStringX` has a destructor and no assignment (`DLL/WeChat/common.cpp:60-83`).
   WeChat then reads freed buffers, and they are freed again when the handler
   returns. `SendsWhatWasAsked` and `StringsFreed` are about shorter lists.

Seen in the code while modelling, modelled as it is, without a run of its own:

* `SyncSns` tests the address of the main window's pointer and not the pointer
  (`SnsFunction.cpp:73`): the test passes always.
* An empty page wakes a call and leaves the list alone (`SnsFunction.cpp:27`): the
  call returns an earlier page. `NotifiedIsFresh` excludes such calls by name.
* Nothing happens when the QR code expires (`AccountFunction.cpp:89`).
* On WeChat 3.7.6.44 the login window is not hooked (`AccountFunction.cpp:103-106`),
  so `/getLoginQRCode` answers 201 for ever; `AllHooks` in `Startup` says which hooks
  a version has.
* At `loop` and `jecxz`, `AddHook` breaks off, patches the target all the same,
  with a return to `0x90909090`, and returns true without having saved the hook's
  address (`InlineHook.cpp:110`). A near jcc of six bytes is written nowhere
  (`:114-121`). `TrampolineRunsOriginals` is about the instructions that `AddHook`
  moves.
* A path that is not ASCII is cut by the 32-bit client (`_utils.py:115`); then
  `LoadLibrary` fails and WeChat runs without the DLL.
* An exception in the client leaves the suspended process behind; `InjectRaises`.
* Nobody looks at `AddHook`'s result.
* The entry of a join is never erased (`MsgMonitor.cpp:183`): each later response that
  names the member reports the join again. `NoJoinMissed` and `JoinsAreReal` say that
  a join is reported, and that what is reported took place.
* A request that times out within its headers or its body is answered with 400 and
  the connection goes on (`httplib.h:5775-5780`, `:3533`): what arrives of it later is
  read as the next request, and the answers no longer match. `AnswersMatch` is about
  clients that do not pause so long; `HandledWhole` holds for all: no handler ever
  sees such a rest.
* A first line that cannot be parsed is answered before its headers are read, which
  are then answered one by one.
* What a client sends ahead of an answer may be in the buffer that goes with the
  request, and is lost. webot does not send ahead, nor do the clients modelled here.
* `sendTextMsgEx` does not test for empty parameters as its siblings do
  (`ApiServer.cpp:54`, `:90`, `:126`): without a `msg_list` it sends an empty text.
* Workers that wait in `waitForLogin` hold up `getLoginQRCode`, which the login may
  need, and the shutdown of the server. `TakenUnlessAllBlocked` and
  `ListenReturnsUnlessBlocked` say that nothing else does.

## 4. What is proved

| Theorem | Property |
|---|---|
| `MsgBufferProofs`: `QueueBounded`, `QueueLosesOnlyOldest`, `QueueHandsOutOnce` | the abstract queue keeps its promises |
| `MsgBufferProofs`: `BufferTypeCorrect`, `MutexHeld`, `BufferKeepsNewest`, `BufferHandsOutOnce`, `BufferImplementsQueue`, `BufferLosesOnlyOldest` | so does the code, because it implements the queue |
| `MsgMonitorProofs`: `MonitorTypeCorrect`, `MonitorAccounted`, `MonitorDeliveredOnceInOrder`, `MonitorNoJoinMissed`, `MonitorJoinsAreReal`, `MonitorLeavesReported`, `MonitorUsesQueue` | nothing vanishes without a cause, comes twice or out of order; joins are real and not missed, departures are reported once; the list is used as a queue |
| `AccountProofs`: `AccountTypeCorrect`, `AccountAgrees`, `AccountReleasesAll`, `AccountQRCodeWhole` | the event follows the session, no waiter stays, no half image |
| `SnsProofs`: `SnsTypeCorrect`, `SnsReturnsWholePage`, `SnsNotifiedIsFresh` | whole pages; a notified call gets a new page |
| `InlineHookProofs`: `HookTypeCorrect`, `HookStaysInArrays`, `HookWritesTrampolineFirst`, `HookRemovalRestores`, `HookBranchesKeepTargets`, `HookTrampolineRunsOriginals` | array sizes, order of the writes, restoring, what the trampoline does |
| `StartupProofs`: `StartupTypeCorrect`, `StartupPatchesSuspended`, `StartupServesWhole` | patched while suspended, served whole |
| `ApiProofs`: `ApiTypeCorrect`, `ApiNoIdleHands`, `ApiOnePlace`, `ApiNobodySleepsOn` | no job waits for a sleeper, one place per connection, a shutdown reaches all workers |
| `HttpProofs`: `HttpTypeCorrect`, `HttpAnswersMatch`, `HttpHandledWhole`, `HttpImplementsServe` | answers match, handlers get whole requests, `HttpConnection` implements `ApiServer` |
| `HttpProofs`: `HttpSendsWhatWasAsked`, `HttpStringsFreed`, `HttpEncodesRight` | what is sent and encoded; strings are freed once |

Every invariant, the action property and both refinements that the passing runs check
are theorems of the whole specification. They hold for every number of threads,
workers, clients, members, users, processes and ports, every capacity, batch size and
page length, every set of instructions and every address space, every body, image and
length of a request.

**Assumptions.** They are those that the modules name; TLC evaluates them in the runs.
`LimitsAssumption`, `BufferAssumption`, `AccountAssumption`, `HookAssumption`,
`StartupAssumption`, `SnsAssumption`, `Base64Assumption` and `HttpAssumption` say that
numbers are positive, that inputs have their types, and that threads, images and the
values that stand for "none" are different things. Beyond this

* `ApiAssumption` has finitely many workers (the constructor of the pool counts them),
  because `NoIdleHands` counts those that are on their way;
* `MonitorAssumption` has finitely many members of a room, whose reports are counted,
  and messages of WeChat that differ in their numbers, none of which is a wxid: the
  properties tell messages apart by them;
* `SendTextAssumption` says that the name for everyone is not empty. It is a literal
  (`DLL/ApiServer.cpp:176`).

Each proof has an inductive invariant and the three steps *Init implies it*, *every
action keeps it*, *it implies the property*.

* `MsgBufferProofs`: `NewestRun` alone is not inductive. A push that has trimmed
  must know that there is room (`PushInv`), a `popMsg` that copies must hold the
  front of the list (`CopyInv`), one that erases must have as many messages left to
  erase as the list has (`EraseInv`), and all of it rests on one owner of the mutex
  (`LockInv`). The same invariant carries the refinement: a statement is either a
  step of `MsgQueue` or invisible.
* `MsgMonitorProofs`: two invariants that meet in `AddMsg` only. `MailInv` follows a
  message: what has been handed out has left the list (`LeftTheList`), batches are
  newer than what their client has (`InOrder`), and a message is in one response,
  with one client or lost (`OneWay`). `RoomInv` follows the chat room: at most one
  change list is under way (`OneChangeList`), a member that has joined has an entry of
  that join or a later one (`TableFilled`), the entry that a response has copied is of
  a join that took place, and late enough (`Copied`), and the reports of departures are
  as many as joins less those who are in the room or still to be reported
  (`LeavesCounted`). `MonitorUsesQueue` joins it to `MsgBufferProofs`: the queue
  is used by the steps of `MsgQueue` only.
* `AccountProofs`: what holds between two hooks has to be said of the middle of a
  login too: the event is set, the session is there and the wxid is due.
* `SnsProofs`: `LockInv` says at which statements a thread has `gMutex`, `ListInv` what
  the list is at each statement of the hook, and `WokenInv` what a notified call will
  find: its own page, once the hook has stored it, or a later one.
* `InlineHookProofs`: at most four bytes have been passed while the loop runs, and
  no instruction grows to more than three times its length, so `CmdLen` is at most
  12 + 15 when it ends. For the trampoline, `BranchInv` says of every moved instruction
  that it is one of those scanned and leads where it led, `OrderInv` that it begins
  where the one before it ends, and `SumInv` that the return address is the sum of
  their lengths.
* `StartupProofs`: what each thread's statement says of the other threads and of
  the hooks; the main thread is suspended until the loader waits no longer.
* `ApiProofs`: the pool's condition variable has a predicate, and a worker that sleeps
  has found it false under the lock. `NoIdleHands` is inductive with it: each
  notification brings a worker to the list, and one that takes a job takes one of those
  counted. `Places` gives each open connection one job or one worker.
* `HttpProofs`: the parts that have been read, wait in the buffer, are on their way or
  are still to be sent are one sequence, `Stream`, and most steps move its cuts and
  leave it as it is. In it every request line is followed by the rest of its request,
  and lines come in their order (`StreamInv`). This alone gives `HandledWhole` when a
  time-out has put the server out of step: from a line on, it reads one request.
  `Sync` is for the clients that do not pause so long: all is answered and the stream is
  empty, or it is exactly one request. `TakenInv` adds to it what `ApiServer` wants to
  know of an answer under way. `EncInv` knows the index of the next digit from that of
  the byte, `3 * len = 4 * pos - s`, and that the digits written are right; `TextInv`
  that each live buffer has one owner until the list grows (`HeapOwned`) and that the
  strings show what they were assigned (`HeapShown`).

**Only model-checked**, because the prover cannot do it: liveness under fairness
(`WokenReturns`, `EventuallySettled`, `LoaderLeavesNoneSuspended`, `ServesOrExits`,
`TakenUnlessAllBlocked`, `ListenReturnsUnlessBlocked`, `ConnectionEnds`), and the three
violations of section 3. Induction over data is not at hand either, since the provers
take no theorem with an operator as a parameter. What a recursive function or a fold
computes is therefore proved here of one step: `LengthOf` from the sums of one
instruction less (`HasLength`), the flattened text of a body from its next part. Where
a proof needs an induction on a number it uses the least counterexample (`LeastNumber` in
`HttpProofs`).

## 5. What is not modelled

* ContactFunction and the copies of WeChat's structures, but for what
  `sendTextMsgEx` uses: lookups at fixed offsets of another program's memory, without
  state. That WeChat frees what the DLL's `new` has allocated is taken as it is: both
  use the heap of the process.
* `Patch_微信多开`: one write of constant bytes while WeChat is suspended.
* LogFunction: not installed by `InitDLL`. `MySetCurrentUserWxid`: installed nowhere.
* Code pages, hexadecimal and file versions: calls of Windows, or one expression.
  `RWMutex`: included in two files, used by nothing.
* The contents of messages and answers, but for the text of `sendTextMsgEx`. Failure
  of memory allocation, such as an exception of `push_back` between `mute.lock()` and
  `mute.unlock()`.
* Requests of other programs than HTTP clients that wait for their answers: sending
  ahead, HTTP/1.0, `Expect`, ranges, chunked or multipart bodies, lines and bodies
  above httplib's limits (413, 414, 416). A write that fails or times out while the
  client is still there.
* Vendored and generated code (BeaEngine, MinHook, TinyXml, JSON, protobuf,
  containers other than the vector of `SendText`). Of httplib, its client, its TLS and
  its file serving, none of which the DLL uses. They are nearly all the lines of the
  repository, and none of its own logic.

## 6. Plan

The order of the modules, the most important first: the message list and its
abstract queue, MsgMonitor on top of it, AccountFunction, SnsFunction, InlineHook,
Startup, ApiServer, and below it HttpConnection with SendText and Base64. These are
done, and their safety properties are proved. To come:

1. Facts that the proofs would give and no theorem states yet: that no message is in the
   responses of two clients, from `MonitorUsesQueue` and the theorems on `MsgQueue`; that
   `gMutex` is free when no call and no hook is at work; that a worker of the pool
   serves no connection that has been closed.
2. The exact condition of `at_list_grows`: that the strings of the list are sound at
   every step before the list grows is proved, as a part of `TextInv`, but not stated
   by itself.
3. A shorter `HttpProofs`, by lemmas on sequences that `StreamInv` and `HandledBefore`
   can share.
