---------------------------- MODULE AccountProofs ----------------------------
(***************************************************************************)
(* What AccountFunction keeps for every number of workers, users, logins   *)
(* and QR codes: the event and the wxid agree with WeChat's session, no    *)
(* worker is left waiting, and a QR code is served whole.                  *)
(*                                                                         *)
(* The inductive invariant adds what the hooks know half way: while the    *)
(* login hook runs the event is set for a user who is not in session yet   *)
(* (LoginInv), and a QR code is incomplete only while the login window     *)
(* holds the mutex (QRCodeInv).                                            *)
(***************************************************************************)
EXTENDS AccountFunction, TLAPS

LoginInv ==
  /\ AgreesWithSession
  /\ svc # "idle" => gLoginEvent /\ session = NoUser /\ pWxid \in Users
  /\ gLoginEvent => \A c \in Workers : pc[c] # "wait"

QRCodeInv ==
  /\ newQRCode # NoImage <=> qrcodeMutex = Window
  /\ currentQRCode = Partial => qrcodeMutex = Window
  /\ \A c \in Workers : pc[c] = "copyqr" <=> qrcodeMutex = c
  /\ QRCodeWhole

IInv == TypeOK /\ LoginInv /\ QRCodeInv

-----------------------------------------------------------------------------
\* The invariant holds when the module is initialised.
LEMMA InitIInv == Init => IInv
<1> SUFFICES ASSUME Init
             PROVE  IInv
  OBVIOUS
<1> USE AccountAssumption DEF Init
<1>1. TypeOK
  BY DEF TypeOK
<1>2. LoginInv
  BY DEF LoginInv, AgreesWithSession
<1>3. QRCodeInv
  BY DEF QRCodeInv, QRCodeWhole
<1> QED BY <1>1, <1>2, <1>3 DEF IInv

\* Every statement of the login and logout hooks keeps the invariant.
LEMMA AccountServiceInv == IInv /\ AccountService => IInv'
<1> SUFFICES ASSUME IInv, AccountService
             PROVE  IInv'
  OBVIOUS
<1> USE AccountAssumption DEF IInv
<1>1. ASSUME NEW u \in Users, LoginSetEvent(u)
      PROVE  IInv'
  <2>1. TypeOK'
    BY <1>1 DEF LoginSetEvent, Released, qrcode, TypeOK
  <2>2. LoginInv'
    BY <1>1 DEF LoginSetEvent, Released, LoginInv, AgreesWithSession, TypeOK
  <2>3. QRCodeInv'
    BY <1>1 DEF LoginSetEvent, Released, qrcode, QRCodeInv, QRCodeWhole, TypeOK
  <2> QED BY <2>1, <2>2, <2>3
<1>2. CASE LoginAssign
  BY <1>2 DEF LoginAssign, qrcode, TypeOK, LoginInv, AgreesWithSession, QRCodeInv, QRCodeWhole
<1>3. CASE LoginReturn
  BY <1>3 DEF LoginReturn, qrcode, TypeOK, LoginInv, AgreesWithSession, QRCodeInv, QRCodeWhole
<1>4. CASE Logout
  BY <1>4 DEF Logout, qrcode, TypeOK, LoginInv, AgreesWithSession, QRCodeInv, QRCodeWhole
<1> QED BY <1>1, <1>2, <1>3, <1>4 DEF AccountService

\* Every statement of the login window's hook keeps the invariant.
LEMMA LoginWindowInv == IInv /\ LoginWindow => IInv'
<1> SUFFICES ASSUME IInv, LoginWindow
             PROVE  IInv'
  OBVIOUS
<1> USE AccountAssumption DEF IInv
<1>1. LoginInv'
  BY DEF LoginWindow, QRCodeEvent, QRCodeResize, QRCodeCopy,
         account, LoginInv, AgreesWithSession
<1>2. ASSUME NEW img \in Images, QRCodeEvent(img)
      PROVE  TypeOK' /\ QRCodeInv'
  BY <1>2 DEF QRCodeEvent, account, TypeOK, QRCodeInv, QRCodeWhole
<1>3. CASE QRCodeResize
  <2>1. TypeOK'
    BY <1>3 DEF QRCodeResize, account, TypeOK
  <2>2. QRCodeInv'
    BY <1>3 DEF QRCodeResize, account, TypeOK, QRCodeInv, QRCodeWhole
  <2> QED BY <1>1, <2>1, <2>2
<1>4. CASE QRCodeCopy
  <2>1. TypeOK'
    BY <1>4 DEF QRCodeCopy, account, TypeOK
  <2>2. QRCodeInv'
    BY <1>4 DEF QRCodeCopy, account, TypeOK, QRCodeInv, QRCodeWhole
  <2> QED BY <1>1, <2>1, <2>2
<1> QED BY <1>1, <1>2, <1>3, <1>4 DEF LoginWindow

\* Every statement of WaitUtilLogin and getLoginQRCode keeps the invariant.
LEMMA WorkerInv ==
  ASSUME IInv, NEW c \in Workers, Worker(c)
  PROVE  IInv'
<1> USE AccountAssumption DEF IInv
<1>1. CASE WaitCall(c)
  <2>1. TypeOK'
    BY <1>1 DEF WaitCall, Announced, account, qrcode, TypeOK
  <2>2. LoginInv'
    BY <1>1 DEF WaitCall, account, LoginInv, AgreesWithSession, TypeOK
  <2>3. QRCodeInv'
    BY <1>1 DEF WaitCall, account, qrcode, QRCodeInv, QRCodeWhole, TypeOK
  <2> QED BY <2>1, <2>2, <2>3
<1>2. CASE WaitReturn(c)
  <2>1. WxidCopies \subseteq Users \cup {NoUser, Torn}
    BY DEF WxidCopies, TypeOK
  <2>2. TypeOK'
    BY <1>2, <2>1 DEF WaitReturn, account, qrcode, TypeOK
  <2>3. LoginInv'
    BY <1>2 DEF WaitReturn, account, LoginInv, AgreesWithSession, TypeOK
  <2>4. QRCodeInv'
    BY <1>2 DEF WaitReturn, account, qrcode, QRCodeInv, QRCodeWhole, TypeOK
  <2> QED BY <2>2, <2>3, <2>4
<1>3. CASE GetQRCodeLock(c)
  BY <1>3 DEF GetQRCodeLock, account, qrcode, TypeOK, LoginInv, AgreesWithSession,
              QRCodeInv, QRCodeWhole
<1>4. CASE GetQRCodeReturn(c)
  BY <1>4 DEF GetQRCodeReturn, account, qrcode, TypeOK, LoginInv, AgreesWithSession,
              QRCodeInv, QRCodeWhole
<1> QED BY <1>1, <1>2, <1>3, <1>4 DEF Worker

\* The invariant is inductive.
LEMMA NextIInv == IInv /\ [Next]_vars => IInv'
<1>1. IInv /\ UNCHANGED vars => IInv'
  BY DEF vars, account, qrcode, IInv, TypeOK, LoginInv, AgreesWithSession,
         QRCodeInv, QRCodeWhole
<1> QED BY <1>1, AccountServiceInv, LoginWindowInv, WorkerInv DEF Next

LEMMA SpecIInv == Spec => []IInv
BY InitIInv, NextIInv, PTL DEF Spec

-----------------------------------------------------------------------------
\* Every variable keeps its type.
THEOREM AccountTypeCorrect == Spec => []TypeOK
<1>1. IInv => TypeOK
  BY DEF IInv
<1> QED BY SpecIInv, <1>1, PTL

\* Between two hooks the event and the wxid tell WeChat's session.
THEOREM AccountAgrees == Spec => []AgreesWithSession
<1>1. IInv => AgreesWithSession
  BY DEF IInv, LoginInv
<1> QED BY SpecIInv, <1>1, PTL

\* Nobody waits for a login while a user is logged in.
THEOREM AccountReleasesAll == Spec => []NoWaiterLeftBehind
<1>1. IInv => NoWaiterLeftBehind
  BY DEF IInv, LoginInv, AgreesWithSession, NoWaiterLeftBehind, TypeOK
<1> QED BY SpecIInv, <1>1, PTL

\* No QR code is served that is half stored.
THEOREM AccountQRCodeWhole == Spec => []QRCodeWhole
<1>1. IInv => QRCodeWhole
  BY DEF IInv, QRCodeInv
<1> QED BY SpecIInv, <1>1, PTL

=============================================================================
