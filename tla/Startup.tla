------------------------------- MODULE Startup -------------------------------
(***************************************************************************)
(* From a loader's CreateProcess to a WeChat that serves HTTP: the loading *)
(* programs (WeChatLoader.cpp, webot.py and _utils.py), WeChatDLL::InitDLL *)
(* with the modules' Init functions, and StartApiServer.                   *)
(*                                                                         *)
(* Each process p of WeChat has three threads of interest: its main        *)
(* thread, created suspended; the loader's remote thread, which runs       *)
(* LoadLibrary and, in DllMain, InitDLL; and the server thread that        *)
(* InitDLL creates, which Windows lets start once DllMain has returned.    *)
(*                                                                         *)
(* A loader is "cpp" (WeChatLoader), "py32" or "py64" (the client under a  *)
(* 32-bit or a 64-bit Python).                                             *)
(***************************************************************************)
EXTENDS Integers

CONSTANTS
  Procs,        \* processes of WeChat
  Ports,        \* ports of the machine that are used here
  DefaultPort   \* 5000 in the code

ASSUME StartupAssumption ==
  /\ DefaultPort \in Ports
  /\ Ports \subseteq Nat \ {0}

VARIABLES
  kind,      \* kind[p]: the loader that starts p
  loader,    \* loader[p]: the loader's statement
  main,      \* main[p]: p's main thread
  path,      \* path[p]: the DLL's path in p's memory
  dll,       \* dll[p]: the remote thread's statement
  version,   \* version[p]: the version of WeChatWin.dll, as InitDLL reads it
  hooked,    \* hooked[p]: the functions of WeChat that AddHook was called for
  port,      \* port[p]: listenPort
  server,    \* server[p]: the server thread's statement
  taken      \* the ports that other programs listen on

load == <<kind, loader, path>>
initDLL == <<dll, version, hooked>>
listen == <<port, server, taken>>
vars == <<load, main, initDLL, listen>>

Init ==
  /\ kind = [p \in Procs |-> "none"]
  /\ loader = [p \in Procs |-> "start"]
  /\ main = [p \in Procs |-> "none"]
  /\ path = [p \in Procs |-> "none"]
  /\ dll = [p \in Procs |-> "none"]
  /\ version = [p \in Procs |-> "none"]
  /\ hooked = [p \in Procs |-> {}]
  /\ port = [p \in Procs |-> DefaultPort]
  /\ server = [p \in Procs |-> "none"]
  /\ taken = {}

-----------------------------------------------------------------------------
(* InjectWeChatDLL, injectDll and injectDll_py64 *)

\* The process is created suspended.  Its command line is the port that the
\* client asks for, 0 for none; WeChatLoader passes no command line.
CreateProcess(p, k, n) ==
  /\ loader[p] = "start"
  /\ k = "cpp" => n = 0
  /\ kind' = [kind EXCEPT ![p] = k]
  /\ port' = [port EXCEPT ![p] = IF n = 0 THEN DefaultPort ELSE n]
  /\ main' = [main EXCEPT ![p] = "suspended"]
  /\ loader' = [loader EXCEPT ![p] = "write"]
  /\ UNCHANGED <<path, initDLL, server, taken>>

\* VirtualAllocEx and WriteProcessMemory.  py32 writes as many bytes as the path
\* has characters: a path that is not ASCII is cut.
WritePath(p) ==
  /\ loader[p] = "write"
  /\ \/ path' = [path EXCEPT ![p] = "whole"]
     \/ kind[p] = "py32" /\ path' = [path EXCEPT ![p] = "cut"]
  /\ loader' = [loader EXCEPT ![p] = "remote"]
  /\ UNCHANGED <<kind, main, initDLL, listen>>

\* VirtualAllocEx or WriteProcessMemory fails, and the client does not look.
WritePathIgnored(p) ==
  /\ loader[p] = "write"
  /\ kind[p] # "cpp"
  /\ loader' = [loader EXCEPT ![p] = "remote"]
  /\ UNCHANGED <<kind, path, main, initDLL, listen>>

\* CreateRemoteThread: LoadLibrary runs, and with it DllMain and InitDLL.
CreateRemoteThread(p) ==
  /\ loader[p] = "remote"
  /\ loader' = [loader EXCEPT ![p] = "wait"]
  /\ dll' = [dll EXCEPT ![p] = "load"]
  /\ UNCHANGED <<kind, path, main, version, hooked, listen>>

\* Mutant: InjectWeChatDLL returns false and leaves the process as it is.
InjectAbandons(p) ==
  /\ kind[p] = "cpp"
  /\ loader[p] \in {"write", "remote"}
  /\ loader' = [loader EXCEPT ![p] = "failed"]
  /\ UNCHANGED <<kind, path, main, initDLL, listen>>

\* Mutant: the wait for LoadLibrary has a time limit, after which the loader gives
\* up on a process that runs InitDLL.
InjectTimesOut(p) ==
  /\ kind[p] = "cpp"
  /\ loader[p] \in {"write", "remote", "wait"}
  /\ loader' = [loader EXCEPT ![p] = "failed"]
  /\ main' = [main EXCEPT ![p] = "gone"]
  /\ UNCHANGED <<kind, path, initDLL, listen>>

\* A call of InjectWeChatDLL fails: TerminateProcess.
InjectFails(p) ==
  /\ kind[p] = "cpp"
  /\ loader[p] \in {"write", "remote"}
  /\ loader' = [loader EXCEPT ![p] = "failed"]
  /\ main' = [main EXCEPT ![p] = "gone"]
  /\ UNCHANGED <<kind, path, initDLL, listen>>

\* CreateRemoteThread fails under the client: win32process raises an exception
\* that nothing handles.
InjectRaises(p) ==
  /\ kind[p] # "cpp"
  /\ loader[p] = "remote"
  /\ loader' = [loader EXCEPT ![p] = "failed"]
  /\ UNCHANGED <<kind, path, main, initDLL, listen>>

\* Mutant: the main thread is resumed at once, without waiting for LoadLibrary.
ResumeAtOnce(p) ==
  /\ loader[p] = "wait"
  /\ main' = [main EXCEPT ![p] = IF @ = "suspended" THEN "running" ELSE @]
  /\ loader' = [loader EXCEPT ![p] = "done"]
  /\ UNCHANGED <<kind, path, initDLL, listen>>

\* The remote thread has ended, whatever came of it: ResumeThread.
Resume(p) ==
  /\ loader[p] = "wait"
  /\ dll[p] = "returned"
  /\ main' = [main EXCEPT ![p] = IF @ = "suspended" THEN "running" ELSE @]
  /\ loader' = [loader EXCEPT ![p] = "done"]
  /\ UNCHANGED <<kind, path, initDLL, listen>>

-----------------------------------------------------------------------------
(* DllMain, InitDLL and the Init functions *)

Supported == {"3.7.6.44", "3.8.0.33"}

AccountHooks(v) == {"login", "logout"} \cup (IF v = "3.8.0.33" THEN {"LoginWnd"} ELSE {})

MsgHooks(v) ==
  {"AddChatMsg", "ImageDownload"}
    \cup IF v = "3.8.0.33" THEN {"GetChatroomMemberDetail", "AddChatroomChangeList"} ELSE {}

AllHooks(v) == AccountHooks(v) \cup {"OnSnsTimeLineSceneFinish"} \cup MsgHooks(v)

\* LoadLibrary fails: the path is missing or cut, or the file cannot be loaded.
LoadFails(p) ==
  /\ dll[p] = "load"
  /\ dll' = [dll EXCEPT ![p] = "returned"]
  /\ UNCHANGED <<load, main, version, hooked, listen>>

\* py64's remote thread is code of its own: without memory, or when
\* getLoadLibraryOffset returned -1, it jumps nowhere and the process crashes.
LoadCrashes(p) ==
  /\ dll[p] = "load"
  /\ kind[p] = "py64"
  /\ dll' = [dll EXCEPT ![p] = "returned"]
  /\ main' = [main EXCEPT ![p] = "gone"]
  /\ UNCHANGED <<load, version, hooked, listen>>

\* InitDLL reads the version of WeChatWin.dll and returns unless it is supported.
\* Patch and InitContactModule hook nothing.
InitVersion(p, v) ==
  /\ dll[p] = "load"
  /\ path[p] = "whole"
  /\ version' = [version EXCEPT ![p] = v]
  /\ dll' = [dll EXCEPT ![p] = IF v \in Supported THEN "account" ELSE "returned"]
  /\ UNCHANGED <<load, main, hooked, listen>>

\* AddHook for the functions fs by a module's Init function, which looks at no
\* result: that AddHook was called is all that the code knows.
AddHooks(p, fs) == hooked' = [hooked EXCEPT ![p] = @ \cup fs]

InitAccountModule(p) ==
  /\ dll[p] = "account"
  /\ AddHooks(p, AccountHooks(version[p]))
  /\ dll' = [dll EXCEPT ![p] = "sns"]
  /\ UNCHANGED <<load, main, version, listen>>

InitSnsModule(p) ==
  /\ dll[p] = "sns"
  /\ AddHooks(p, {"OnSnsTimeLineSceneFinish"})
  /\ dll' = [dll EXCEPT ![p] = "msg"]
  /\ UNCHANGED <<load, main, version, listen>>

InitMsgMonitor(p) ==
  /\ dll[p] = "msg"
  /\ AddHooks(p, MsgHooks(version[p]))
  /\ dll' = [dll EXCEPT ![p] = "server"]
  /\ UNCHANGED <<load, main, version, listen>>

\* Mutant: the server thread is created before InitMsgMonitor has run.
CreateServerThreadEarly(p) ==
  /\ dll[p] \in {"msg", "server"}
  /\ server' = [server EXCEPT ![p] = "listen"]
  /\ dll' = [dll EXCEPT ![p] = "returned"]
  /\ UNCHANGED <<load, main, version, hooked, port, taken>>

\* CreateThread(StartApiServer), and DllMain returns.
CreateServerThread(p) ==
  /\ dll[p] = "server"
  /\ server' = [server EXCEPT ![p] = "listen"]
  /\ dll' = [dll EXCEPT ![p] = "returned"]
  /\ UNCHANGED <<load, main, version, hooked, port, taken>>

-----------------------------------------------------------------------------
(* StartApiServer, Server::listen and listen_internal *)

Serving(p) == server[p] \in {"first", "second"}

\* httplib binds with SO_EXCLUSIVEADDRUSE: a port has one listener.
Free(n) == n \notin taken /\ \A q \in Procs : Serving(q) => port[q] # n

\* The process is gone, with all of its threads and its listening socket.
Gone(p) ==
  /\ main' = [main EXCEPT ![p] = "gone"]
  /\ server' = [server EXCEPT ![p] = "none"]

\* The first call of listen: its result is not looked at.
Listen(p) ==
  /\ server[p] = "listen"
  /\ server' = [server EXCEPT ![p] = IF Free(port[p]) THEN "first" ELSE "again"]
  /\ UNCHANGED <<load, main, initDLL, port, taken>>

\* listen_internal's accept fails: it closes the socket and shuts its workers down.
AcceptFails(p) ==
  /\ Serving(p)
  /\ server' = [server EXCEPT ![p] = IF @ = "first" THEN "joinFirst" ELSE "joinSecond"]
  /\ UNCHANGED <<load, main, initDLL, port, taken>>

\* The last worker has ended, and listen returns false.
Joined(p) ==
  /\ server[p] \in {"joinFirst", "joinSecond"}
  /\ server' = [server EXCEPT ![p] = IF @ = "joinFirst" THEN "again" ELSE "exit"]
  /\ UNCHANGED <<load, main, initDLL, port, taken>>

\* The second call of listen, whose result decides.
ListenAgain(p) ==
  /\ server[p] = "again"
  /\ server' = [server EXCEPT ![p] = IF Free(port[p]) THEN "second" ELSE "exit"]
  /\ UNCHANGED <<load, main, initDLL, port, taken>>

\* Mutant: StartApiServer returns when it cannot listen.
ExitSilently(p) ==
  /\ server[p] = "exit"
  /\ server' = [server EXCEPT ![p] = "none"]
  /\ UNCHANGED <<load, main, initDLL, port, taken>>

\* ExitProcess(0xdead).
Exit(p) ==
  /\ server[p] = "exit"
  /\ Gone(p)
  /\ UNCHANGED <<load, initDLL, port, taken>>

-----------------------------------------------------------------------------
(* The user and the other programs of the machine *)

\* WeChat's user quits it.
Quit(p) ==
  /\ main[p] = "running"
  /\ Gone(p)
  /\ UNCHANGED <<load, initDLL, port, taken>>

\* Another program starts or stops listening on n.
OtherListens(n) ==
  /\ n \notin taken => Free(n)
  /\ taken' = IF n \in taken THEN taken \ {n} ELSE taken \cup {n}
  /\ UNCHANGED <<load, main, initDLL, port, server>>

-----------------------------------------------------------------------------
Versions == Supported \cup {"other"}

Load(p) ==
  \/ WritePath(p) \/ WritePathIgnored(p) \/ CreateRemoteThread(p)
  \/ InjectFails(p) \/ InjectRaises(p) \/ Resume(p)

InitDLL(p) ==
  \/ LoadFails(p) \/ LoadCrashes(p) \/ \E v \in Versions : InitVersion(p, v)
  \/ InitAccountModule(p) \/ InitSnsModule(p) \/ InitMsgMonitor(p)
  \/ CreateServerThread(p)

StartApiServer(p) == Listen(p) \/ ListenAgain(p) \/ Exit(p)

Next ==
  \/ \E p \in Procs :
       \/ \E k \in {"cpp", "py32", "py64"}, n \in Ports \cup {0} : CreateProcess(p, k, n)
       \/ Load(p) \/ InitDLL(p) \/ StartApiServer(p)
       \/ AcceptFails(p) \/ Joined(p) \/ Quit(p)
  \/ \E n \in Ports : OtherListens(n)

Spec == Init /\ [][Next]_vars

\* A loader, InitDLL and StartApiServer run on; nobody has to start a process,
\* to quit one or to use a port, and a worker in waitForLogin may never end.
Fairness ==
  \A p \in Procs : WF_vars(Load(p)) /\ WF_vars(InitDLL(p)) /\ WF_vars(StartApiServer(p))

FairSpec == Spec /\ Fairness

-----------------------------------------------------------------------------
(* Properties *)

\* Every variable has its type; the main thread, the remote thread and the server
\* thread exist only once the loader, or InitDLL, has come that far.
TypeOK ==
  /\ kind \in [Procs -> {"none", "cpp", "py32", "py64"}]
  /\ loader \in [Procs -> {"start", "write", "remote", "wait", "done", "failed"}]
  /\ main \in [Procs -> {"none", "suspended", "running", "gone"}]
  /\ path \in [Procs -> {"none", "whole", "cut"}]
  /\ dll \in [Procs -> {"none", "load", "account", "sns", "msg", "server", "returned"}]
  /\ version \in [Procs -> Versions \cup {"none"}]
  /\ hooked \in [Procs -> SUBSET AllHooks("3.8.0.33")]
  /\ port \in [Procs -> Ports]
  /\ server \in [Procs -> {"none", "listen", "first", "joinFirst", "again",
                        "second", "joinSecond", "exit"}]
  /\ taken \subseteq Ports
  /\ \A p \in Procs :
       /\ loader[p] = "start" <=> main[p] = "none"
       /\ dll[p] # "none" => loader[p] \in {"wait", "done"}
       /\ dll[p] = "none" => loader[p] \notin {"wait", "done"}
       /\ server[p] # "none" => dll[p] = "returned" /\ main[p] \in {"suspended", "running"}

\* WeChat's own code runs only after the Init functions have overwritten the
\* functions that they hook: AddHook writes five bytes one after the other, and a
\* thread that ran through them meanwhile would execute half of a jump.
NoRunWhilePatching == \A p \in Procs : main[p] = "running" => dll[p] = "returned"

\* A process that has a server thread has a supported WeChat, and AddHook was
\* called for everything the API rests on in that version: no request is answered
\* by a module whose Init function has not run.
ServesWhole ==
  \A p \in Procs :
    server[p] # "none" => version[p] \in Supported /\ hooked[p] = AllHooks(version[p])

\* WeChatLoader leaves no suspended process behind, whichever call fails.
LoaderLeavesNoneSuspended ==
  \A p \in Procs : kind[p] = "cpp" ~> main[p] \in {"running", "gone"}

\* A server thread that has been created, and one of whose calls of listen has
\* returned, comes to serve its port or takes WeChat down: no port that is taken
\* leaves a WeChat without its API.
ServesOrExits ==
  \A p \in Procs : server[p] \in {"listen", "again", "exit"} ~> (Serving(p) \/ main[p] = "gone")

=============================================================================
