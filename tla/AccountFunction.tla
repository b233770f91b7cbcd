--------------------------- MODULE AccountFunction ---------------------------
(***************************************************************************)
(* AccountFunction (Function/AccountFunction.cpp): who is logged in, who   *)
(* waits for it, and the login QR code.                                    *)
(*                                                                         *)
(* Three kinds of threads meet here: WeChat's account service, whose login *)
(* and logout functions are hooked at their heads; WeChat's login window,  *)
(* whose eventProc is hooked; and the Workers, the threads of the HTTP     *)
(* server, which run WaitUtilLogin and getLoginQRCode.                     *)
(*                                                                         *)
(* currentUserWxid is a std::wstring that the login hook assigns and the   *)
(* workers copy without a lock.  The assignment is two steps: a copy made  *)
(* between them may return the old value, the new one or Torn, a mixture.  *)
(***************************************************************************)
EXTENDS Integers, FiniteSets

CONSTANTS
  Workers,    \* threads of the HTTP server
  Users,      \* wxids that log in
  NoUser,     \* the empty wxid
  Torn,       \* a wxid copied while it is assigned
  Images,     \* QR codes, each shown once by the login window
  NoImage,    \* no QR code: the empty vector
  Partial,    \* a vector resized for a QR code that is not copied in yet
  Window,     \* the thread of the login window
  NoThread,   \* the owner of a free mutex
  MaxLogins   \* bound of the model: number of logins in a behaviour

ASSUME AccountAssumption ==
  /\ NoUser \notin Users
  /\ Torn \notin Users \cup {NoUser}
  /\ NoImage \notin Images
  /\ Partial \notin Images \cup {NoImage}
  /\ Window \notin Workers
  /\ NoThread \notin Workers \cup {Window}
  /\ MaxLogins \in Nat

VARIABLES
  gLoginEvent,      \* the manual-reset event
  currentUserWxid,
  svc,              \* statement of the account service's hook
  pWxid,            \* argument of the login that is being hooked
  session,          \* WeChat's own state: the user logged in, or NoUser
  logins,           \* number of logins so far
  pc,               \* pc[c]: what worker c is doing
  due,              \* history: due[c] is the user whose login released c
  userWxid,         \* userWxid[c]: what c's latest WaitUtilLogin returned
  currentQRCode,
  qrcodeMutex,      \* the thread that holds qrcodeMutex, or NoThread
  newQRCode,        \* the image the window's hook is storing
  shown,            \* the QR codes the window has shown
  outQRCode         \* outQRCode[c]: what c's latest getLoginQRCode returned

account == <<gLoginEvent, currentUserWxid, svc, pWxid, session, logins>>
qrcode == <<currentQRCode, newQRCode, shown>>
vars == <<account, pc, due, userWxid, qrcode, qrcodeMutex, outQRCode>>

\* InitAccountModule, before WeChat's first login: the DLL is loaded into a
\* process that starts.
Init ==
  /\ gLoginEvent = FALSE
  /\ currentUserWxid = NoUser
  /\ svc = "idle"
  /\ pWxid = NoUser
  /\ session = NoUser
  /\ logins = 0
  /\ pc = [c \in Workers |-> "idle"]
  /\ due = [c \in Workers |-> NoUser]
  /\ userWxid = [c \in Workers |-> NoUser]
  /\ currentQRCode = NoImage
  /\ qrcodeMutex = NoThread
  /\ newQRCode = NoImage
  /\ shown = {}
  /\ outQRCode = [c \in Workers |-> NoImage]

-----------------------------------------------------------------------------
(* AccountService_login and AccountService_logout *)

\* SetEvent on a manual-reset event releases every waiting thread at once.
Released(u) ==
  /\ pc' = [c \in Workers |-> IF pc[c] = "wait" THEN "read" ELSE pc[c]]
  /\ due' = [c \in Workers |-> IF pc[c] = "wait" THEN u ELSE due[c]]

\* Mutant: the event resets itself when it has released one thread
\* (CreateEventA(NULL, false, ...)).
LoginSetEventAutoReset(u) ==
  /\ svc = "idle"
  /\ session = NoUser
  /\ logins < MaxLogins
  /\ logins' = logins + 1
  /\ pWxid' = u
  /\ svc' = "assign"
  /\ IF \E c \in Workers : pc[c] = "wait"
     THEN \E c \in Workers :
            /\ pc[c] = "wait"
            /\ pc' = [pc EXCEPT ![c] = "read"]
            /\ due' = [due EXCEPT ![c] = u]
            /\ UNCHANGED gLoginEvent
     ELSE /\ gLoginEvent' = TRUE
          /\ UNCHANGED <<pc, due>>
  /\ UNCHANGED <<currentUserWxid, session, userWxid, qrcode, qrcodeMutex, outQRCode>>

\* Mutant: the hook is not at the head of login, where [ESP + 4] is the wxid.
LoginSetEventOffHead(u) ==
  /\ svc = "idle"
  /\ session = NoUser
  /\ logins < MaxLogins
  /\ logins' = logins + 1
  /\ pWxid' = Torn
  /\ svc' = "assign"
  /\ gLoginEvent' = TRUE
  /\ Released(u)
  /\ UNCHANGED <<currentUserWxid, session, userWxid, qrcode, qrcodeMutex, outQRCode>>

\* SetEvent(gLoginEvent), the first statement of the login hook.
LoginSetEvent(u) ==
  /\ svc = "idle"
  /\ session = NoUser
  /\ logins < MaxLogins
  /\ logins' = logins + 1
  /\ pWxid' = u
  /\ svc' = "assign"
  /\ gLoginEvent' = TRUE
  /\ Released(u)
  /\ UNCHANGED <<currentUserWxid, session, userWxid, qrcode, qrcodeMutex, outQRCode>>

\* The assignment to currentUserWxid begins.
LoginAssign ==
  /\ svc = "assign"
  /\ svc' = "assigning"
  /\ UNCHANGED <<gLoginEvent, currentUserWxid, pWxid, session, logins>>
  /\ UNCHANGED <<pc, due, userWxid, qrcode, qrcodeMutex, outQRCode>>

\* The assignment ends, the hook returns and WeChat's own login runs on.
LoginReturn ==
  /\ svc = "assigning"
  /\ currentUserWxid' = pWxid
  /\ session' = pWxid
  /\ svc' = "idle"
  /\ UNCHANGED <<gLoginEvent, pWxid, logins>>
  /\ UNCHANGED <<pc, due, userWxid, qrcode, qrcodeMutex, outQRCode>>

\* Mutant: the logout hook does not reset the event.
LogoutKeepsEvent ==
  /\ svc = "idle"
  /\ session # NoUser
  /\ session' = NoUser
  /\ UNCHANGED <<gLoginEvent, currentUserWxid, svc, pWxid, logins>>
  /\ UNCHANGED <<pc, due, userWxid, qrcode, qrcodeMutex, outQRCode>>

\* ResetEvent(gLoginEvent): all the logout hook does.
Logout ==
  /\ svc = "idle"
  /\ session # NoUser
  /\ session' = NoUser
  /\ gLoginEvent' = FALSE
  /\ UNCHANGED <<currentUserWxid, svc, pWxid, logins>>
  /\ UNCHANGED <<pc, due, userWxid, qrcode, qrcodeMutex, outQRCode>>

-----------------------------------------------------------------------------
(* WaitUtilLogin *)

\* The user whose login set the event.
Announced == IF svc = "idle" THEN session ELSE pWxid

\* WaitForSingleObject is called: it returns at once when the event is set.
WaitCall(c) ==
  /\ pc[c] = "idle"
  /\ pc' = [pc EXCEPT ![c] = IF gLoginEvent THEN "read" ELSE "wait"]
  /\ due' = [due EXCEPT ![c] = IF gLoginEvent THEN Announced ELSE NoUser]
  /\ UNCHANGED <<account, userWxid, qrcode, qrcodeMutex, outQRCode>>

\* What a copy of currentUserWxid may return now.
WxidCopies ==
  IF svc = "assigning" THEN {currentUserWxid, pWxid, Torn} ELSE {currentUserWxid}

\* WaitUtilLogin copies currentUserWxid and returns it.
WaitReturn(c) ==
  /\ pc[c] = "read"
  /\ \E w \in WxidCopies : userWxid' = [userWxid EXCEPT ![c] = w]
  /\ pc' = [pc EXCEPT ![c] = "idle"]
  /\ UNCHANGED <<account, due, qrcode, qrcodeMutex, outQRCode>>

-----------------------------------------------------------------------------
(* MyLoginWndEventProc, setLoginQRCode and getLoginQRCode *)

\* Mutant: setLoginQRCode without its lock_guard.
QRCodeEventUnguarded(img) ==
  /\ newQRCode = NoImage
  /\ img \notin shown
  /\ shown' = shown \cup {img}
  /\ newQRCode' = img
  /\ qrcodeMutex' = Window
  /\ UNCHANGED <<account, pc, due, userWxid, currentQRCode, outQRCode>>

\* Event 0x300 brings a QR code; setLoginQRCode locks.  On event 0x302, the code
\* has expired, the hook does nothing.
QRCodeEvent(img) ==
  /\ newQRCode = NoImage
  /\ img \notin shown
  /\ qrcodeMutex = NoThread
  /\ shown' = shown \cup {img}
  /\ newQRCode' = img
  /\ qrcodeMutex' = Window
  /\ UNCHANGED <<account, pc, due, userWxid, currentQRCode, outQRCode>>

\* currentQRCode.resize(imgLen).
QRCodeResize ==
  /\ newQRCode # NoImage
  /\ currentQRCode # Partial
  /\ currentQRCode' = Partial
  /\ UNCHANGED <<account, pc, due, userWxid, newQRCode, shown>>
  /\ UNCHANGED <<qrcodeMutex, outQRCode>>

\* The memcpy into currentQRCode; setLoginQRCode returns and unlocks.
QRCodeCopy ==
  /\ newQRCode # NoImage
  /\ currentQRCode = Partial
  /\ currentQRCode' = newQRCode
  /\ newQRCode' = NoImage
  /\ qrcodeMutex' = NoThread
  /\ UNCHANGED <<account, pc, due, userWxid, shown, outQRCode>>

\* getLoginQRCode locks.
GetQRCodeLock(c) ==
  /\ pc[c] = "idle"
  /\ qrcodeMutex = NoThread
  /\ qrcodeMutex' = c
  /\ pc' = [pc EXCEPT ![c] = "copyqr"]
  /\ UNCHANGED <<account, due, userWxid, qrcode, outQRCode>>

\* getLoginQRCode copies the vector (NoImage stands for its false), unlocks
\* and returns.
GetQRCodeReturn(c) ==
  /\ pc[c] = "copyqr"
  /\ outQRCode' = [outQRCode EXCEPT ![c] = currentQRCode]
  /\ qrcodeMutex' = NoThread
  /\ pc' = [pc EXCEPT ![c] = "idle"]
  /\ UNCHANGED <<account, due, userWxid, qrcode>>

-----------------------------------------------------------------------------
AccountService == (\E u \in Users : LoginSetEvent(u)) \/ LoginAssign \/ LoginReturn \/ Logout

LoginWindow ==
  (\E img \in Images : QRCodeEvent(img)) \/ QRCodeResize \/ QRCodeCopy

Worker(c) == WaitCall(c) \/ WaitReturn(c) \/ GetQRCodeLock(c) \/ GetQRCodeReturn(c)

Next == AccountService \/ LoginWindow \/ \E c \in Workers : Worker(c)

Spec == Init /\ [][Next]_vars

-----------------------------------------------------------------------------
(* Properties *)

TypeOK ==
  /\ gLoginEvent \in BOOLEAN
  /\ currentUserWxid \in Users \cup {NoUser}
  /\ svc \in {"idle", "assign", "assigning"}
  /\ pWxid \in Users \cup {NoUser}
  /\ session \in Users \cup {NoUser}
  /\ logins \in Nat
  /\ pc \in [Workers -> {"idle", "wait", "read", "copyqr"}]
  /\ due \in [Workers -> Users \cup {NoUser}]
  /\ userWxid \in [Workers -> Users \cup {NoUser, Torn}]
  /\ currentQRCode \in Images \cup {NoImage, Partial}
  /\ qrcodeMutex \in Workers \cup {Window, NoThread}
  /\ newQRCode \in Images \cup {NoImage}
  /\ shown \in SUBSET Images
  /\ outQRCode \in [Workers -> Images \cup {NoImage, Partial}]

\* Between two hooks the event and the wxid both tell WeChat's own state: a
\* logout and a second login leave no trace of the first user.
AgreesWithSession ==
  svc = "idle" =>
    /\ gLoginEvent <=> session # NoUser
    /\ session # NoUser => currentUserWxid = session

\* A login leaves nobody behind: no worker waits while a user is logged in,
\* however many of them wait and however late they came.
NoWaiterLeftBehind ==
  session # NoUser => \A c \in Workers : pc[c] # "wait"

\* getLoginQRCode returns an image as the login window drew it, never one
\* that setLoginQRCode is halfway through.
QRCodeWhole == \A c \in Workers : outQRCode[c] # Partial

\* What a caller of WaitUtilLogin may expect: the wxid of the user whose
\* login ended its wait.
WaitReturnsUser ==
  [][\A c \in Workers : pc[c] = "read" /\ pc'[c] = "idle" => userWxid'[c] = due[c]]_vars

=============================================================================
