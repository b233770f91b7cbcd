----------------------------- MODULE MsgMonitor -----------------------------
(***************************************************************************)
(* MsgMonitor (Function/MsgMonitor.cpp) from WeChat's hooks to the client  *)
(* that polls /syncMsg (ApiServer.cpp, webot.py): which of WeChat's events *)
(* become messages, and what becomes of every message.                     *)
(*                                                                         *)
(* The Hooks are the threads of WeChat that run a hook callback; the       *)
(* Clients are the programs that poll, one request at a time, each served  *)
(* by one worker of the HTTP server.  The message list is the queue of     *)
(* module MsgQueue, which module MsgBuffer implements; the table of join   *)
(* events is locked by setAddMemberEventMsg and getAddMemberEventMsg one   *)
(* access at a time, so an access is a step and a callback is many steps.  *)
(*                                                                         *)
(* One chat room stands for all: the keys of the table and the reports     *)
(* hold the room's name.  The n-th time that m enters the room is join n   *)
(* of m; an entry of the table or a report of a join is identified by n.   *)
(***************************************************************************)
EXTENDS Integers, Sequences, FiniteSets

CONSTANTS
  Hooks,       \* threads of WeChat that run a hook callback
  Clients,     \* programs that poll /syncMsg
  Members,     \* wxids that enter and leave the chat room
  Inbox,       \* messages that WeChat receives: records [id, msgType]
  Cap,         \* 1000 in the code
  Batch,       \* 10 in the code
  MaxChanges,  \* bound of the model: number of change lists in a behaviour
  MaxDetails   \* bound of the model: number of member-detail responses

\* A room has finitely many members; WeChat numbers its messages, and no number is a
\* wxid.
ASSUME MonitorAssumption ==
  /\ IsFiniteSet(Members)
  /\ \A m \in Inbox : m.id \notin Members
  /\ \A m, n \in Inbox : m.id = n.id => m = n
  /\ Cap \in Nat \ {0}
  /\ Batch \in Nat \ {0}
  /\ MaxChanges \in Nat
  /\ MaxDetails \in Nat

VARIABLES
  log,                \* history: every message ever pushed, in order
  head, got, taken,   \* the state of MsgQueue
  addMemberEventMap,  \* addMemberEventMap[m]: the join in m's entry, 0 if none
  pc,                 \* pc[h]: where hook thread h is
  addUserList, delelteUserList,  \* what h's change list still holds
  memberList,         \* what h's member-detail response still holds
  addMemberMsg,       \* the entry that h has copied out of the table
  joins,              \* WeChat's own state: joins[m] is m's number of joins
  room,               \* WeChat's own state: who is in the room
  present,            \* history: who was in the room when the DLL was loaded
  changes, details,   \* number of change lists and of responses so far
  registered,         \* history: joins whose change list has been handled
  awaited,            \* history: registered when h's response arrived
  answered,           \* history: joins whose member details have been handled
  received, loaded,   \* the messages of Inbox, the downloaded images so far
  program,            \* program[c]: client c is "idle", has "asked" or is "gone"
  delivered,          \* delivered[c]: what client c has received
  lost                \* the messages whose response did not arrive

queue == <<log, head, got, taken>>
table == <<addMemberEventMap, addUserList, delelteUserList, memberList, addMemberMsg>>
chatroom == <<joins, room, present, changes, details, registered, awaited, answered>>
inbox == <<received, loaded>>
client == <<program, delivered, lost>>
vars == <<queue, table, pc, chatroom, inbox, client>>

Pushes == Cardinality(Inbox) + (MaxChanges + MaxDetails) * Cardinality(Members)

Queue == INSTANCE MsgQueue
           WITH pushed <- Len(log), Workers <- Clients, MaxPushed <- Pushes

\* The lists that a callback can hold: some of S in some order.
Lists(S) == {s \in UNION {[1 .. n -> S] : n \in 0 .. Cardinality(S)} :
               \A i, j \in DOMAIN s : s[i] = s[j] => i = j}

Listed(s) == {s[i] : i \in DOMAIN s}

Init ==
  /\ log = << >>
  /\ Queue!QInit
  /\ addMemberEventMap = [m \in Members |-> 0]
  /\ pc = [h \in Hooks |-> "idle"]
  /\ addUserList = [h \in Hooks |-> << >>]
  /\ delelteUserList = [h \in Hooks |-> << >>]
  /\ memberList = [h \in Hooks |-> << >>]
  /\ addMemberMsg = [h \in Hooks |-> 0]
  /\ joins = [m \in Members |-> 0]
  /\ room \in SUBSET Members
  /\ present = room
  /\ changes = 0
  /\ details = 0
  /\ registered = joins
  /\ awaited = [h \in Hooks |-> joins]
  /\ answered = joins
  /\ received = {}
  /\ loaded = {}
  /\ program = [c \in Clients |-> "idle"]
  /\ delivered = [c \in Clients |-> << >>]
  /\ lost = {}

\* AddMsg.
AddMsg(msg) == log' = Append(log, msg) /\ Queue!Push

-----------------------------------------------------------------------------
(* MyAddChatMsg and MyOnDownloadImageSuccessed *)

\* Text, name card, video, emoticon and application messages.
Forwarded == {1, 42, 43, 47, 49}

\* Mutant: the report holds the message itself for its id.
ChatReportWhole(m) == [msg_type |-> m.msgType, about |-> m, join |-> 0]

\* AddJsonMsg_Normal.
ChatReport(m) == [msg_type |-> m.msgType, about |-> m.id, join |-> 0]

\* Mutant: the case of images falls into the case that reports.
MyAddChatMsgFallsThrough(h, m) ==
  /\ pc[h] = "idle"
  /\ m \notin received
  /\ received' = received \cup {m}
  /\ IF m.msgType \in Forwarded \cup {3}
     THEN AddMsg(ChatReport(m))
     ELSE UNCHANGED queue
  /\ UNCHANGED <<table, pc, chatroom, loaded, client>>

\* A message arrives: system messages, operations (51) and images are not
\* reported here.
MyAddChatMsg(h, m) ==
  /\ pc[h] = "idle"
  /\ m \notin received
  /\ received' = received \cup {m}
  /\ IF m.msgType \in Forwarded
     THEN AddMsg(ChatReport(m))
     ELSE UNCHANGED queue
  /\ UNCHANGED <<table, pc, chatroom, loaded, client>>

\* The image of a message has been downloaded.
MyOnDownloadImageSuccessed(h, m) ==
  /\ pc[h] = "idle"
  /\ m.msgType = 3
  /\ m \in received \ loaded
  /\ loaded' = loaded \cup {m}
  /\ AddMsg(ChatReport(m))
  /\ UNCHANGED <<table, pc, chatroom, received, client>>

-----------------------------------------------------------------------------
(* MyAddChatroomChangeList *)

\* WeChat handles one change list of the room at a time.
ChangeListBegin(h, adds, dels) ==
  /\ pc[h] = "idle"
  /\ \A g \in Hooks : pc[g] \notin {"add", "delete"}
  /\ changes < MaxChanges
  /\ changes' = changes + 1
  /\ Listed(adds) \cap room = {} /\ Listed(dels) \subseteq room
  /\ adds # << >> \/ dels # << >>
  /\ joins' = [m \in Members |-> IF m \in Listed(adds) THEN joins[m] + 1 ELSE joins[m]]
  /\ room' = (room \cup Listed(adds)) \ Listed(dels)
  /\ addUserList' = [addUserList EXCEPT ![h] = adds]
  /\ delelteUserList' = [delelteUserList EXCEPT ![h] = dels]
  /\ pc' = [pc EXCEPT ![h] = "add"]
  /\ UNCHANGED <<queue, addMemberEventMap, memberList, addMemberMsg>>
  /\ UNCHANGED <<present, details, registered, awaited, answered, inbox, client>>

\* setAddMemberEventMsg for the next member of addUserList.
ChangeListAdd(h) ==
  /\ pc[h] = "add"
  /\ addUserList[h] # << >>
  /\ LET m == Head(addUserList[h])
     IN  addMemberEventMap' = [addMemberEventMap EXCEPT ![m] = joins[m]]
  /\ addUserList' = [addUserList EXCEPT ![h] = Tail(@)]
  /\ UNCHANGED <<queue, delelteUserList, memberList, addMemberMsg, pc>>
  /\ UNCHANGED <<chatroom, inbox, client>>

\* The loop over addUserList is over.
ChangeListAdded(h) ==
  /\ pc[h] = "add"
  /\ addUserList[h] = << >>
  /\ pc' = [pc EXCEPT ![h] = "delete"]
  /\ UNCHANGED <<queue, table, chatroom, inbox, client>>

\* AddMsg for the next member of delelteUserList.
ChangeListDelete(h) ==
  /\ pc[h] = "delete"
  /\ delelteUserList[h] # << >>
  /\ LET m == Head(delelteUserList[h])
     IN  AddMsg([msg_type |-> 20002, about |-> m, join |-> joins[m]])
  /\ delelteUserList' = [delelteUserList EXCEPT ![h] = Tail(@)]
  /\ UNCHANGED <<addMemberEventMap, addUserList, memberList, addMemberMsg, pc>>
  /\ UNCHANGED <<chatroom, inbox, client>>

\* Mutant: the deleting loop runs to the wrong bound and skips the last one.
ChangeListReturnEarly(h) ==
  /\ pc[h] = "delete"
  /\ Len(delelteUserList[h]) <= 1
  /\ delelteUserList' = [delelteUserList EXCEPT ![h] = << >>]
  /\ pc' = [pc EXCEPT ![h] = "idle"]
  /\ registered' = joins
  /\ UNCHANGED <<queue, addMemberEventMap, addUserList, memberList, addMemberMsg>>
  /\ UNCHANGED <<joins, room, present, changes, details, awaited, answered, inbox, client>>

\* The callback returns, and WeChat goes on to ask for the details of the
\* new members.
ChangeListReturn(h) ==
  /\ pc[h] = "delete"
  /\ delelteUserList[h] = << >>
  /\ pc' = [pc EXCEPT ![h] = "idle"]
  /\ registered' = joins
  /\ UNCHANGED <<queue, table, joins, room, present, changes, details, awaited, answered>>
  /\ UNCHANGED <<inbox, client>>

-----------------------------------------------------------------------------
(* MyGetChatroomMemberDetail *)

\* A response arrives.  It names the new members of a change list, or members
\* whose details WeChat asked for on some other occasion.
DetailBegin(h, list) ==
  /\ pc[h] = "idle"
  /\ details < MaxDetails
  /\ details' = details + 1
  /\ list # << >>
  /\ memberList' = [memberList EXCEPT ![h] = list]
  /\ awaited' = [awaited EXCEPT ![h] = registered]
  /\ pc' = [pc EXCEPT ![h] = "lookup"]
  /\ UNCHANGED <<queue, addMemberEventMap, addUserList, delelteUserList, addMemberMsg>>
  /\ UNCHANGED <<joins, room, present, changes, registered, answered, inbox, client>>

\* The details of m, which h's response names, have been handled.
Answer(h, m) ==
  answered' = [answered EXCEPT ![m] = IF awaited[h][m] > @ THEN awaited[h][m] ELSE @]

\* getAddMemberEventMsg finds the next member's entry and copies it.
DetailFound(h) ==
  /\ pc[h] = "lookup"
  /\ memberList[h] # << >>
  /\ addMemberEventMap[Head(memberList[h])] # 0
  /\ addMemberMsg' = [addMemberMsg EXCEPT ![h] = addMemberEventMap[Head(memberList[h])]]
  /\ pc' = [pc EXCEPT ![h] = "report"]
  /\ UNCHANGED <<queue, addMemberEventMap, addUserList, delelteUserList, memberList>>
  /\ UNCHANGED <<chatroom, inbox, client>>

\* Mutant: the callback breaks at a member without an entry.
DetailAbsentBreaks(h) ==
  /\ pc[h] = "lookup"
  /\ memberList[h] # << >>
  /\ addMemberEventMap[Head(memberList[h])] = 0
  /\ memberList' = [memberList EXCEPT ![h] = << >>]
  /\ answered' = [m \in Members |-> IF m \in Listed(memberList[h])
                                    THEN awaited[h][m] ELSE answered[m]]
  /\ UNCHANGED <<queue, addMemberEventMap, addUserList, delelteUserList, addMemberMsg>>
  /\ UNCHANGED <<pc, joins, room, present, changes, details, registered, awaited>>
  /\ UNCHANGED <<inbox, client>>

\* Mutant: the table is read with operator[], which makes an empty entry.
DetailAbsentReports(h) ==
  /\ pc[h] = "lookup"
  /\ memberList[h] # << >>
  /\ addMemberEventMap[Head(memberList[h])] = 0
  /\ addMemberMsg' = [addMemberMsg EXCEPT ![h] = 0]
  /\ pc' = [pc EXCEPT ![h] = "report"]
  /\ UNCHANGED <<queue, addMemberEventMap, addUserList, delelteUserList, memberList>>
  /\ UNCHANGED <<chatroom, inbox, client>>

\* getAddMemberEventMsg does not find the next member: continue.
DetailAbsent(h) ==
  /\ pc[h] = "lookup"
  /\ memberList[h] # << >>
  /\ addMemberEventMap[Head(memberList[h])] = 0
  /\ memberList' = [memberList EXCEPT ![h] = Tail(@)]
  /\ Answer(h, Head(memberList[h]))
  /\ UNCHANGED <<queue, addMemberEventMap, addUserList, delelteUserList, addMemberMsg>>
  /\ UNCHANGED <<pc, joins, room, present, changes, details, registered, awaited>>
  /\ UNCHANGED <<inbox, client>>

\* The inviter is filled in and the event is reported: the entry stays.
DetailReport(h) ==
  /\ pc[h] = "report"
  /\ AddMsg([msg_type |-> 20001, about |-> Head(memberList[h]), join |-> addMemberMsg[h]])
  /\ memberList' = [memberList EXCEPT ![h] = Tail(@)]
  /\ Answer(h, Head(memberList[h]))
  /\ pc' = [pc EXCEPT ![h] = "lookup"]
  /\ UNCHANGED <<addMemberEventMap, addUserList, delelteUserList, addMemberMsg>>
  /\ UNCHANGED <<joins, room, present, changes, details, registered, awaited, inbox, client>>

\* The loop over the response is over.
DetailReturn(h) ==
  /\ pc[h] = "lookup"
  /\ memberList[h] = << >>
  /\ pc' = [pc EXCEPT ![h] = "idle"]
  /\ UNCHANGED <<queue, table, chatroom, inbox, client>>

-----------------------------------------------------------------------------
(* Api_syncMsg and its client *)

\* Mutant: the last message of the list is never taken.
SyncMsgShort(c) ==
  /\ program[c] = "idle"
  /\ program' = [program EXCEPT ![c] = "asked"]
  /\ Len(log) - head > 1
  /\ UNCHANGED log
  /\ Queue!Pop(c)
  /\ UNCHANGED <<table, pc, chatroom, inbox, delivered, lost>>

\* The client sends a request and a worker pops a batch.
SyncMsg(c) ==
  /\ program[c] = "idle"
  /\ program' = [program EXCEPT ![c] = "asked"]
  /\ UNCHANGED log
  /\ Queue!Pop(c)
  /\ UNCHANGED <<table, pc, chatroom, inbox, delivered, lost>>

\* Mutant: the response leaves out the last message of the batch.
ReplyShort(c) ==
  /\ program[c] = "asked"
  /\ program' = [program EXCEPT ![c] = "idle"]
  /\ delivered' = [delivered EXCEPT ![c] = @ \o SubSeq(got[c], 1, Len(got[c]) - 1)]
  /\ UNCHANGED <<queue, table, pc, chatroom, inbox, lost>>

\* The response arrives.
Reply(c) ==
  /\ program[c] = "asked"
  /\ program' = [program EXCEPT ![c] = "idle"]
  /\ delivered' = [delivered EXCEPT ![c] = @ \o got[c]]
  /\ UNCHANGED <<queue, table, pc, chatroom, inbox, lost>>

\* The response does not arrive, or is a 500 because dump has thrown: sync_msg raises
\* an exception, which nobody catches, and the client dies.
ReplyLost(c) ==
  /\ program[c] = "asked"
  /\ program' = [program EXCEPT ![c] = "gone"]
  /\ lost' = lost \cup Listed(got[c])
  /\ UNCHANGED <<queue, table, pc, chatroom, inbox, delivered>>

\* The client is stopped between two polls, and one is started, now or later.
Stop(c) ==
  /\ program[c] = "idle"
  /\ program' = [program EXCEPT ![c] = "gone"]
  /\ UNCHANGED <<queue, table, pc, chatroom, inbox, delivered, lost>>

Start(c) ==
  /\ program[c] = "gone"
  /\ program' = [program EXCEPT ![c] = "idle"]
  /\ UNCHANGED <<queue, table, pc, chatroom, inbox, delivered, lost>>

-----------------------------------------------------------------------------
Hook(h) ==
  \/ \E m \in Inbox : MyAddChatMsg(h, m) \/ MyOnDownloadImageSuccessed(h, m)
  \/ \E adds, dels \in Lists(Members) : ChangeListBegin(h, adds, dels)
  \/ ChangeListAdd(h) \/ ChangeListAdded(h) \/ ChangeListDelete(h) \/ ChangeListReturn(h)
  \/ \E list \in Lists(Members) : DetailBegin(h, list)
  \/ DetailFound(h) \/ DetailAbsent(h) \/ DetailReport(h) \/ DetailReturn(h)

Client(c) == SyncMsg(c) \/ Reply(c) \/ ReplyLost(c) \/ Stop(c) \/ Start(c)

Next == (\E h \in Hooks : Hook(h)) \/ (\E c \in Clients : Client(c))

Spec == Init /\ [][Next]_vars

\* A client polls for ever ("while True" in main.py) unless it dies, and every request
\* ends.  Nobody has to start a client.
Fairness == \A c \in Clients : WF_vars(SyncMsg(c)) /\ WF_vars(Reply(c) \/ ReplyLost(c))

FairSpec == Spec /\ Fairness

-----------------------------------------------------------------------------
(* Properties *)

TypeOK ==
  /\ log \in Seq([msg_type : Nat, about : Members \cup {m.id : m \in Inbox}, join : Nat])
  /\ Queue!QTypeOK
  /\ addMemberEventMap \in [Members -> Nat]
  /\ pc \in [Hooks -> {"idle", "add", "delete", "lookup", "report"}]
  /\ addUserList \in [Hooks -> Seq(Members)]
  /\ delelteUserList \in [Hooks -> Seq(Members)]
  /\ memberList \in [Hooks -> Seq(Members)]
  /\ addMemberMsg \in [Hooks -> Nat]
  /\ {joins, registered, answered} \subseteq [Members -> Nat]
  /\ awaited \in [Hooks -> [Members -> Nat]]
  /\ room \in SUBSET Members /\ present \in SUBSET Members
  /\ changes \in Nat /\ details \in Nat
  /\ loaded \in SUBSET received /\ received \in SUBSET Inbox
  /\ program \in [Clients -> {"idle", "asked", "gone"}]
  /\ delivered \in [Clients -> Seq(1 .. Len(log))]
  /\ lost \in SUBSET (1 .. Len(log))

\* The reports of kind t about x.
Reports(t, x) == {i \in 1 .. Len(log) : log[i].msg_type = t /\ log[i].about = x}

\* Once the details of a member have been handled, every join whose change
\* list had been handled when they arrived is reported: the join itself or a
\* later one of the same member.
NoJoinMissed ==
  \A m \in Members :
    answered[m] > 0 => \E i \in Reports(20001, m) : log[i].join >= answered[m]

\* A report of a join is about a join that took place: details of members who
\* were in the room all along report nothing.
JoinsAreReal ==
  \A m \in Members :
    \A i \in Reports(20001, m) : log[i].join \in 1 .. joins[m]

\* Every departure whose change list has been handled is reported once, also of the
\* members who came before the DLL.
LeavesReported ==
  (\A h \in Hooks : pc[h] \notin {"add", "delete"}) =>
    \A m \in Members :
      Cardinality(Reports(20002, m)) =
        joins[m] + (IF m \in present THEN 1 ELSE 0) - (IF m \in room THEN 1 ELSE 0)

\* What became of message i is known.
Kept(i) == i > head
InFlight(i) == \E c \in Clients : program[c] = "asked" /\ i \in Listed(got[c])
Arrived(i) == \E c \in Clients : i \in Listed(delivered[c])
Evicted(i) == i + Cap <= Len(log)

\* No message vanishes between the hook and the client, except in a response
\* that did not arrive or under Cap newer messages.
Accounted ==
  \A i \in 1 .. Len(log) : Kept(i) \/ InFlight(i) \/ Arrived(i) \/ i \in lost \/ Evicted(i)

\* The reports that clients have received, each with the one who received it.
Received == {d \in Clients \X (1 .. Len(log)) : d[2] \in Listed(delivered[d[1]])}

\* A client receives messages in the order in which WeChat raised them, and no
\* message of WeChat reaches the clients twice, or once after it was lost: neither
\* because two hooks report it, nor because two workers pop it.
DeliveredOnceInOrder ==
  /\ \A c \in Clients : \A i, j \in DOMAIN delivered[c] :
       i < j => delivered[c][i] < delivered[c][j]
  /\ \A m \in Inbox :
       Cardinality({d \in Received : log[d[2]].about = m.id})
         + Cardinality({i \in lost : log[i].about = m.id}) <= 1

\* If some client polls for good, whichever of them that is and whoever dies or is
\* stopped, every message reaches its end: it does not stay in the list for ever.
EventuallySettled ==
  (\E c \in Clients : <>[](program[c] # "gone")) =>
    \A i \in 1 .. Pushes :
      Len(log) >= i ~> (Arrived(i) \/ i \in lost \/ Evicted(i))

=============================================================================
