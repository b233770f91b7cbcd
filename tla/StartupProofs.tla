---------------------------- MODULE StartupProofs ----------------------------
(***************************************************************************)
(* What holds while any number of WeChats are started, for every set of    *)
(* ports.  Neither NoRunWhilePatching nor ServesWhole is inductive: Stages *)
(* says how far InitDLL has come at each of its statements.                *)
(***************************************************************************)
EXTENDS Startup, TLAPS

InInit(p) == dll[p] \in {"load", "account", "sns", "msg", "server"}

\* Until InitDLL has returned, the main thread is suspended, and each statement of InitDLL
\* finds the hooks of the modules before it.
Stages ==
  \A p \in Procs :
    /\ InInit(p) \/ loader[p] \in {"write", "remote"} => main[p] = "suspended"
    /\ InInit(p) /\ dll[p] # "load" => version[p] \in Supported
    /\ dll[p] \in {"none", "load", "account"} => hooked[p] = {}
    /\ dll[p] = "sns" => hooked[p] = AccountHooks(version[p])
    /\ dll[p] = "msg" =>
         hooked[p] = AccountHooks(version[p]) \cup {"OnSnsTimeLineSceneFinish"}
    /\ dll[p] = "server" => hooked[p] = AllHooks(version[p])

IInv == TypeOK /\ NoRunWhilePatching /\ ServesWhole /\ Stages

\* A supported version has no hook that 3.8.0.33 lacks.
LEMMA HooksOfVersion ==
  ASSUME NEW v \in Supported
  PROVE  /\ AllHooks(v) \subseteq AllHooks("3.8.0.33")
         /\ AccountHooks(v) \subseteq AllHooks(v)
         /\ MsgHooks(v) \subseteq AllHooks(v)
         /\ "OnSnsTimeLineSceneFinish" \in AllHooks(v)
  BY DEF Supported, AllHooks, AccountHooks, MsgHooks

LEMMA InitIInv == Init => IInv
  BY StartupAssumption
     DEF Init, IInv, TypeOK, NoRunWhilePatching, ServesWhole, Stages, InInit

\* The loaders' statements.
LEMMA LoadIInv ==
  ASSUME IInv, NEW p \in Procs
  PROVE  /\ \A k \in {"cpp", "py32", "py64"}, n \in Ports \cup {0} :
              CreateProcess(p, k, n) => IInv'
         /\ Load(p) => IInv'
<1> USE StartupAssumption
       DEF IInv, TypeOK, NoRunWhilePatching, ServesWhole, Stages, InInit,
           load, initDLL, listen
<1>1. ASSUME NEW k \in {"cpp", "py32", "py64"}, NEW n \in Ports \cup {0},
             CreateProcess(p, k, n)
      PROVE  IInv'
  BY <1>1 DEF CreateProcess
<1>2. WritePath(p) => IInv'
  BY DEF WritePath
<1>3. WritePathIgnored(p) => IInv'
  BY DEF WritePathIgnored
<1>4. CreateRemoteThread(p) => IInv'
  BY DEF CreateRemoteThread
<1>5. InjectFails(p) => IInv'
  BY DEF InjectFails
<1>6. InjectRaises(p) => IInv'
  BY DEF InjectRaises
<1>7. Resume(p) => IInv'
  BY DEF Resume
<1> HIDE DEF IInv, TypeOK, NoRunWhilePatching, ServesWhole, Stages, InInit
<1> QED
  BY <1>1, <1>2, <1>3, <1>4, <1>5, <1>6, <1>7 DEF Load

\* InitDLL's statements.
LEMMA InitDLLIInv ==
  ASSUME IInv, NEW p \in Procs, InitDLL(p)
  PROVE  IInv'
<1> USE HooksOfVersion
       DEF IInv, TypeOK, NoRunWhilePatching, ServesWhole, Stages, InInit,
           load, listen
<1>1. LoadFails(p) => IInv'
  BY DEF LoadFails
<1>2. LoadCrashes(p) => IInv'
  BY DEF LoadCrashes
<1>3. ASSUME NEW v \in Versions, InitVersion(p, v)
      PROVE  IInv'
  BY <1>3 DEF InitVersion, Versions
<1>4. InitAccountModule(p) => IInv'
  BY DEF InitAccountModule, AddHooks
<1>5. InitSnsModule(p) => IInv'
  BY DEF InitSnsModule, AddHooks
<1>6. InitMsgMonitor(p) => IInv'
  BY DEF InitMsgMonitor, AddHooks, AllHooks
<1>7. CreateServerThread(p) => IInv'
  BY DEF CreateServerThread
<1> HIDE DEF IInv, TypeOK, NoRunWhilePatching, ServesWhole, Stages, InInit
<1> QED
  BY <1>1, <1>2, <1>3, <1>4, <1>5, <1>6, <1>7 DEF InitDLL

\* The server thread's statements, and what users and other programs do.
LEMMA ServerIInv ==
  ASSUME IInv
  PROVE  /\ \A p \in Procs : StartApiServer(p) \/ AcceptFails(p) \/ Joined(p) \/ Quit(p) => IInv'
         /\ \A n \in Ports : OtherListens(n) => IInv'
<1> USE DEF IInv, TypeOK, NoRunWhilePatching, ServesWhole, Stages, InInit,
            load, initDLL
<1>1. ASSUME NEW p \in Procs, Listen(p)
      PROVE  IInv'
  BY <1>1 DEF Listen
<1>2. ASSUME NEW p \in Procs, ListenAgain(p)
      PROVE  IInv'
  BY <1>2 DEF ListenAgain
<1>3. ASSUME NEW p \in Procs, Exit(p)
      PROVE  IInv'
  BY <1>3 DEF Exit, Gone
<1>4. ASSUME NEW p \in Procs, AcceptFails(p)
      PROVE  IInv'
  BY <1>4 DEF AcceptFails, Serving
<1>5. ASSUME NEW p \in Procs, Joined(p)
      PROVE  IInv'
  BY <1>5 DEF Joined
<1>6. ASSUME NEW p \in Procs, Quit(p)
      PROVE  IInv'
  BY <1>6 DEF Quit, Gone
<1>7. ASSUME NEW n \in Ports, OtherListens(n)
      PROVE  IInv'
  BY <1>7 DEF OtherListens
<1> HIDE DEF IInv, TypeOK, NoRunWhilePatching, ServesWhole, Stages, InInit
<1> QED
  BY <1>1, <1>2, <1>3, <1>4, <1>5, <1>6, <1>7 DEF StartApiServer

LEMMA NextIInv == IInv /\ [Next]_vars => IInv'
<1> SUFFICES ASSUME IInv, [Next]_vars
             PROVE  IInv'
  OBVIOUS
<1>1. CASE Next
  BY <1>1, LoadIInv, InitDLLIInv, ServerIInv DEF Next
<1>2. CASE UNCHANGED vars
  BY <1>2 DEF vars, load, initDLL, listen, IInv, TypeOK, NoRunWhilePatching,
              ServesWhole, Stages, InInit
<1> QED
  BY <1>1, <1>2

LEMMA SpecIInv == Spec => []IInv
  BY InitIInv, NextIInv, PTL DEF Spec

\* Every variable keeps its type, and no thread of a process is ahead of the thread
\* that creates it.
THEOREM StartupTypeCorrect == Spec => []TypeOK
  BY SpecIInv, PTL DEF IInv

\* No thread of WeChat runs while the Init functions overwrite its code, whichever
\* loader started the process and however loading ended.
THEOREM StartupPatchesSuspended == Spec => []NoRunWhilePatching
  BY SpecIInv, PTL DEF IInv

\* Whatever is started, and in whichever order, a server thread finds all hooks of
\* its supported version in place.
THEOREM StartupServesWhole == Spec => []ServesWhole
  BY SpecIInv, PTL DEF IInv
=============================================================================
