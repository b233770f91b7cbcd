--------------------------- MODULE MsgMonitorProofs ---------------------------
(***************************************************************************)
(* What becomes of every message, and which joins and departures are       *)
(* reported, for every number of hooks, clients, members and messages.     *)
(*                                                                         *)
(* Two inductive invariants.  MailInv is about the messages: the queue is  *)
(* bounded, what a client has asked for has left the list, and every       *)
(* message that has left it went one way only.  RoomInv is about the chat  *)
(* room: what the table of joins holds at each statement of the callbacks  *)
(* and which departures are still to be reported.  They meet in AddMsg     *)
(* only: HookMail and ClientMail say what a step does to the messages,     *)
(* whatever the room is.                                                   *)
(***************************************************************************)
EXTENDS MsgMonitor, FiniteSetTheorems, SequenceTheorems, TLAPS

Message == [msg_type : Nat, about : Members \cup {m.id : m \in Inbox}, join : Nat]

\* The types of what the hooks keep about the room and the messages that arrived; a
\* callback that reports has a member to report.
RoomTypeOK ==
  /\ addMemberEventMap \in [Members -> Nat]
  /\ pc \in [Hooks -> {"idle", "add", "delete", "lookup", "report"}]
  /\ addUserList \in [Hooks -> Seq(Members)]
  /\ delelteUserList \in [Hooks -> Seq(Members)]
  /\ memberList \in [Hooks -> Seq(Members)]
  /\ addMemberMsg \in [Hooks -> Nat]
  /\ joins \in [Members -> Nat]
  /\ registered \in [Members -> Nat]
  /\ answered \in [Members -> Nat]
  /\ awaited \in [Hooks -> [Members -> Nat]]
  /\ room \in SUBSET Members /\ present \in SUBSET Members
  /\ changes \in Nat /\ details \in Nat
  /\ loaded \in SUBSET received /\ received \in SUBSET Inbox
  /\ \A h \in Hooks : pc[h] = "report" => memberList[h] # << >>

\* The types of the list, of the clients and of what they received.
MailTypeOK ==
  /\ log \in Seq(Message)
  /\ Queue!QTypeOK
  /\ program \in [Clients -> {"idle", "asked", "gone"}]
  /\ delivered \in [Clients -> Seq(1 .. Len(log))]
  /\ lost \in SUBSET (1 .. Len(log))

\* What has been taken, received or lost has left the list.
LeftTheList ==
  /\ head <= Len(log) /\ Len(log) - head <= Cap
  /\ \A c \in Clients : \A i \in DOMAIN got[c] : got[c][i] \in 1 .. head
  /\ \A c \in Clients : \A i \in DOMAIN delivered[c] : delivered[c][i] <= head
  /\ \A i \in lost : i <= head
  /\ \A i \in taken : i \in 1 .. head

\* A client receives in order; its batch is newer than all it has received.
InOrder ==
  \A c \in Clients :
    /\ \A i, j \in DOMAIN delivered[c] : i < j => delivered[c][i] < delivered[c][j]
    /\ \A i, j \in DOMAIN got[c] : i < j => got[c][i] < got[c][j]
    /\ program[c] = "asked" =>
         \A i \in DOMAIN delivered[c], j \in DOMAIN got[c] : delivered[c][i] < got[c][j]

\* A message that has left the list went one way only: it is lost, or received by one
\* client, or in the response to one client.
OneWay ==
  /\ \A c, d \in Clients : \A i \in DOMAIN delivered[c], j \in DOMAIN delivered[d] :
       delivered[c][i] = delivered[d][j] => c = d
  /\ \A c \in Clients : \A i \in DOMAIN delivered[c] : delivered[c][i] \notin lost
  /\ \A c \in Clients : program[c] = "asked" =>
       \A i \in DOMAIN got[c] :
         /\ got[c][i] \notin lost
         /\ \A d \in Clients : \A j \in DOMAIN delivered[d] : delivered[d][j] # got[c][i]
         /\ \A d \in Clients \ {c} : program[d] = "asked" =>
              \A j \in DOMAIN got[d] : got[d][j] # got[c][i]

MailInv == MailTypeOK /\ LeftTheList /\ InOrder /\ OneWay /\ Accounted

-----------------------------------------------------------------------------
(* What a step does to the messages *)

LEMMA ListsAreSeqs ==
  ASSUME NEW s \in Lists(Members)
  PROVE  /\ s \in Seq(Members)
         /\ \A i, j \in DOMAIN s : s[i] = s[j] => i = j
<1>1. Cardinality(Members) \in Nat
  BY MonitorAssumption, FS_CardinalityType
<1>2. PICK n \in 0 .. Cardinality(Members) : s \in [1 .. n -> Members]
  BY DEF Lists
<1>3. n \in Nat
  BY <1>1
<1> QED
  BY <1>2, <1>3, SeqDef DEF Lists

\* A hook touches no client, and the list only by adding a message.
LEMMA HookMail ==
  ASSUME RoomTypeOK, NEW h \in Hooks, Hook(h)
  PROVE  /\ UNCHANGED client
         /\ UNCHANGED queue \/ \E msg \in Message : AddMsg(msg)
<1>1. ASSUME NEW m \in Inbox, MyAddChatMsg(h, m) \/ MyOnDownloadImageSuccessed(h, m)
      PROVE  /\ UNCHANGED client
             /\ UNCHANGED queue \/ \E msg \in Message : AddMsg(msg)
  <2>1. m.msgType \in Forwarded \cup {3} => ChatReport(m) \in Message
    BY DEF Forwarded, ChatReport, Message
  <2> QED
    BY <1>1, <2>1 DEF MyAddChatMsg, MyOnDownloadImageSuccessed
<1>2. ASSUME NEW adds \in Lists(Members), NEW dels \in Lists(Members), ChangeListBegin(h, adds, dels)
      PROVE  UNCHANGED client /\ UNCHANGED queue
  BY <1>2 DEF ChangeListBegin
<1>3. ASSUME ChangeListAdd(h) \/ ChangeListAdded(h) \/ ChangeListReturn(h)
      PROVE  UNCHANGED client /\ UNCHANGED queue
  BY <1>3 DEF ChangeListAdd, ChangeListAdded, ChangeListReturn
<1>4. ASSUME ChangeListDelete(h)
      PROVE  UNCHANGED client /\ \E msg \in Message : AddMsg(msg)
  <2>1. Head(delelteUserList[h]) \in Members
    BY <1>4, HeadTailProperties DEF ChangeListDelete, RoomTypeOK
  <2>2. [msg_type |-> 20002, about |-> Head(delelteUserList[h]),
         join |-> joins[Head(delelteUserList[h])]] \in Message
    BY <2>1 DEF RoomTypeOK, Message
  <2> QED
    BY <1>4, <2>2 DEF ChangeListDelete
<1>5. ASSUME NEW list \in Lists(Members), DetailBegin(h, list)
      PROVE  UNCHANGED client /\ UNCHANGED queue
  BY <1>5 DEF DetailBegin
<1>6. ASSUME DetailFound(h) \/ DetailAbsent(h) \/ DetailReturn(h)
      PROVE  UNCHANGED client /\ UNCHANGED queue
  BY <1>6 DEF DetailFound, DetailAbsent, DetailReturn
<1>7. ASSUME DetailReport(h)
      PROVE  UNCHANGED client /\ \E msg \in Message : AddMsg(msg)
  <2>1. Head(memberList[h]) \in Members
    BY <1>7, HeadTailProperties DEF DetailReport, RoomTypeOK
  <2>2. [msg_type |-> 20001, about |-> Head(memberList[h]), join |-> addMemberMsg[h]] \in Message
    BY <2>1 DEF RoomTypeOK, Message
  <2> QED
    BY <1>7, <2>2 DEF DetailReport
<1> QED
  BY <1>1, <1>2, <1>3, <1>4, <1>5, <1>6, <1>7 DEF Hook

\* A client leaves the hooks' variables alone, and adds nothing to the log.
LEMMA ClientMail ==
  ASSUME NEW c \in Clients, Client(c)
  PROVE  UNCHANGED <<log, table, pc, chatroom, inbox>>
  BY DEF Client, SyncMsg, Reply, ReplyLost, Stop, Start, queue

-----------------------------------------------------------------------------
(* MailInv *)

LEMMA LogMonotone ==
  ASSUME NEW p \in Nat, NEW q \in Nat, p <= q, NEW s \in Seq(1 .. p)
  PROVE  s \in Seq(1 .. q)
<1>1. \A i \in 1 .. Len(s) : s[i] \in 1 .. q
  BY ElementOfSeq
<1> QED
  BY <1>1, LenProperties, SeqDef

\* AddMsg keeps the invariant: only the oldest message can be evicted, and then there
\* are Cap newer ones.
LEMMA AddMsgMail ==
  ASSUME MailInv, NEW msg \in Message, AddMsg(msg), UNCHANGED client
  PROVE  MailInv'
<1> USE MonitorAssumption DEF MailInv, AddMsg, Queue!Push, client
<1>1. Len(log) \in Nat /\ Len(log') = Len(log) + 1 /\ log' \in Seq(Message)
  BY AppendProperties, LenProperties DEF MailTypeOK
<1>2. \A c \in Clients : delivered[c] \in Seq(1 .. Len(log'))
  BY <1>1, LogMonotone DEF MailTypeOK
<1>3. MailTypeOK'
  BY <1>1, <1>2 DEF MailTypeOK, Queue!QTypeOK
<1>4. head \in Nat /\ head <= head'
  BY DEF MailTypeOK, Queue!QTypeOK
<1>5. LeftTheList'
  BY <1>1, <1>4 DEF MailTypeOK, Queue!QTypeOK, LeftTheList
<1>6. InOrder' /\ OneWay'
  BY DEF InOrder, OneWay
<1>7. Accounted'
  <2> SUFFICES ASSUME NEW i \in 1 .. Len(log)', ~Kept(i)', ~Evicted(i)'
               PROVE  InFlight(i)' \/ Arrived(i)' \/ i \in lost'
    BY DEF Accounted
  <2>1. i \in 1 .. Len(log) /\ ~Kept(i) /\ ~Evicted(i)
    BY <1>1, <1>4 DEF Kept, Evicted, LeftTheList
  <2>2. InFlight(i) \/ Arrived(i) \/ i \in lost
    BY <2>1 DEF Accounted
  <2> QED
    BY <2>2 DEF InFlight, Arrived
<1> QED
  BY <1>3, <1>5, <1>6, <1>7

\* A batch is what is at the front of the list.
LEMMA PopTakes ==
  ASSUME MailInv, NEW c \in Clients, Queue!Pop(c)
  PROVE  /\ Queue!BatchSize \in Nat /\ head' = head + Queue!BatchSize /\ head' <= Len(log)
         /\ got' = [got EXCEPT ![c] = [i \in 1 .. Queue!BatchSize |-> head + i]]
         /\ got' \in [Clients -> Seq(Nat)]
<1> USE MonitorAssumption DEF MailInv, MailTypeOK, LeftTheList, Queue!Pop, Queue!QTypeOK
<1>1. Len(log) \in Nat
  BY LenProperties
<1>2. Queue!BatchSize \in Nat /\ head + Queue!BatchSize <= Len(log)
  BY <1>1 DEF Queue!BatchSize
<1>3. [i \in 1 .. Queue!BatchSize |-> head + i] \in Seq(Nat)
  BY <1>2
<1> QED
  BY <1>2, <1>3

\* A request keeps the invariant: the batch leaves the list for the response.
LEMMA SyncMsgMail ==
  ASSUME MailInv, NEW c \in Clients, SyncMsg(c)
  PROVE  MailInv'
<1> DEFINE n == Queue!BatchSize
<1> USE DEF MailInv
<1>1. /\ n \in Nat /\ head' = head + n /\ head' <= Len(log) /\ head \in Nat /\ Len(log) \in Nat
      /\ \A d \in Clients : got'[d] = IF d = c THEN [i \in 1 .. n |-> head + i] ELSE got[d]
      /\ \A d \in Clients : program'[d] = IF d = c THEN "asked" ELSE program[d]
      /\ got' \in [Clients -> Seq(Nat)]
      /\ UNCHANGED <<log, delivered, lost>>
  BY PopTakes, LenProperties DEF SyncMsg, MailTypeOK, Queue!QTypeOK
<1>2. taken' = taken \cup (head + 1 .. head + n)
  BY DEF SyncMsg, Queue!Pop
<1> HIDE DEF n
<1>3. DOMAIN got'[c] = 1 .. n /\ \A i \in 1 .. n : got'[c][i] = head + i
  BY <1>1
<1>4. MailTypeOK'
  <2>1. head' \in Nat /\ taken' \in SUBSET Nat
    BY <1>1, <1>2 DEF MailTypeOK, Queue!QTypeOK
  <2>2. program' \in [Clients -> {"idle", "asked", "gone"}]
    BY DEF SyncMsg, MailTypeOK
  <2>3. got' \in [Clients -> Seq(Nat)]
    BY <1>1
  <2> QED
    BY <1>1, <2>1, <2>2, <2>3 DEF MailTypeOK, Queue!QTypeOK
<1>5. \A d \in Clients : \A i \in DOMAIN delivered[d] : delivered[d][i] \in Nat /\ delivered[d][i] <= head
  BY <1>1, ElementOfSeq, LenProperties DEF MailTypeOK, LeftTheList
<1>6. LeftTheList'
  <2>1. head' <= Len(log) /\ Len(log) - head' <= Cap
    BY <1>1, MonitorAssumption DEF LeftTheList
  <2>2. ASSUME NEW d \in Clients, NEW i \in DOMAIN got'[d]
        PROVE  got'[d][i] \in 1 .. head'
    <3>1. CASE d = c
      <4>1. i \in 1 .. n /\ got'[d][i] = head + i
        BY <1>3, <2>2, <3>1
      <4>2. head + i \in 1 .. head'
        BY <1>1, <4>1
      <4> QED
        BY <4>1, <4>2
    <3>2. CASE d # c
      <4>1. got'[d] = got[d]
        BY <1>1, <3>2
      <4>2. got'[d][i] \in 1 .. head
        BY <4>1 DEF LeftTheList
      <4> QED
        BY <1>1, <4>2
    <3> QED
      BY <3>1, <3>2
  <2>3. \A d \in Clients : \A i \in DOMAIN delivered[d] : delivered[d][i] <= head'
    BY <1>1, <1>5
  <2>4. \A i \in lost : i <= head'
    BY <1>1 DEF LeftTheList, MailTypeOK
  <2>5. \A i \in taken' : i \in 1 .. head'
    BY <1>1, <1>2 DEF LeftTheList
  <2> QED
    BY <1>1, <2>1, <2>2, <2>3, <2>4, <2>5 DEF LeftTheList
<1>7. InOrder'
  <2> SUFFICES ASSUME NEW d \in Clients
               PROVE  /\ \A i, j \in DOMAIN delivered[d] : i < j => delivered[d][i] < delivered[d][j]
                      /\ \A i, j \in DOMAIN got'[d] : i < j => got'[d][i] < got'[d][j]
                      /\ program'[d] = "asked" =>
                           \A i \in DOMAIN delivered[d], j \in DOMAIN got'[d] :
                             delivered[d][i] < got'[d][j]
    BY <1>1 DEF InOrder
  <2>1. CASE d = c
    BY <1>1, <1>3, <1>5, <2>1 DEF InOrder
  <2>2. CASE d # c
    BY <1>1, <2>2 DEF InOrder
  <2> QED
    BY <2>1, <2>2
<1>8. OneWay'
  <2>1. \A d \in Clients : \A i \in DOMAIN got[d] : got[d][i] \in Nat /\ got[d][i] <= head
    BY <1>1 DEF LeftTheList
  <2>2. \A i \in lost : i \in Nat /\ i <= head
    BY <1>1 DEF MailTypeOK, LeftTheList
  <2>3. \A i \in 1 .. n : got'[c][i] \in Nat /\ got'[c][i] > head
    BY <1>1, <1>3
  <2>4. ASSUME NEW d \in Clients, program'[d] = "asked", NEW i \in DOMAIN got'[d]
        PROVE  /\ got'[d][i] \notin lost
               /\ \A e \in Clients : \A j \in DOMAIN delivered[e] : delivered[e][j] # got'[d][i]
               /\ \A e \in Clients \ {d} : program'[e] = "asked" =>
                    \A j \in DOMAIN got'[e] : got'[e][j] # got'[d][i]
    <3>1. CASE d = c
      <4>1. got'[c][i] \in Nat /\ got'[c][i] > head
        BY <1>3, <2>3, <2>4, <3>1
      <4>2. \A e \in Clients : \A j \in DOMAIN delivered[e] : delivered[e][j] # got'[c][i]
        BY <1>1, <1>5, <4>1
      <4>3. \A e \in Clients \ {c} : \A j \in DOMAIN got[e] : got[e][j] # got'[c][i]
        BY <1>1, <2>1, <4>1
      <4>4. got'[c][i] \notin lost
        BY <1>1, <2>2, <4>1
      <4> QED
        BY <1>1, <3>1, <4>2, <4>3, <4>4
    <3>2. CASE d # c
      <4>1. got'[d] = got[d] /\ program[d] = "asked" /\ i \in DOMAIN got[d]
        BY <1>1, <2>4, <3>2
      <4>2. \A j \in DOMAIN got'[c] : got'[c][j] # got[d][i]
        BY <1>1, <1>3, <2>1, <2>3, <4>1
      <4>3. \A e \in Clients \ {d} : program'[e] = "asked" =>
              \A j \in DOMAIN got'[e] : got'[e][j] # got[d][i]
        <5>1. \A e \in Clients \ {c, d} : program'[e] = program[e] /\ got'[e] = got[e]
          BY <1>1
        <5> QED
          BY <4>1, <4>2, <5>1 DEF OneWay
      <4> QED
        BY <1>1, <4>1, <4>3 DEF OneWay
    <3> QED
      BY <3>1, <3>2
  <2> QED
    BY <1>1, <2>4 DEF OneWay
<1>9. Accounted'
  <2> SUFFICES ASSUME NEW i \in 1 .. Len(log), ~(i > head'), ~Evicted(i)
               PROVE  InFlight(i)' \/ Arrived(i)' \/ i \in lost'
    BY <1>1 DEF Accounted, Kept, Evicted
  <2>1. CASE i > head
    <3>1. i - head \in 1 .. n /\ got'[c][i - head] = i
      BY <1>1, <1>3, <2>1
    <3> QED
      BY <1>1, <1>3, <3>1 DEF InFlight, Listed
  <2>2. CASE ~(i > head)
    <3>1. InFlight(i) \/ Arrived(i) \/ i \in lost
      BY <2>2 DEF Accounted, Kept
    <3>2. ASSUME NEW d \in Clients, program[d] = "asked", i \in Listed(got[d])
          PROVE  InFlight(i)'
      <4>1. d # c
        BY <3>2 DEF SyncMsg
      <4> QED
        BY <1>1, <3>2, <4>1 DEF InFlight, Listed
    <3> QED
      BY <1>1, <3>1, <3>2 DEF InFlight, Arrived
  <2> QED
    BY <2>1, <2>2
<1> QED
  BY <1>4, <1>6, <1>7, <1>8, <1>9

\* A response that arrives keeps the invariant.
LEMMA ReplyMail ==
  ASSUME MailInv, NEW c \in Clients, Reply(c)
  PROVE  MailInv'
<1> DEFINE m == Len(delivered[c])
           n == Len(got[c])
           s == delivered[c] \o got[c]
<1> USE DEF MailInv
<1>1. /\ program[c] = "asked" /\ UNCHANGED <<queue, lost>>
      /\ \A d \in Clients : program'[d] = IF d = c THEN "idle" ELSE program[d]
      /\ \A d \in Clients : delivered'[d] = IF d = c THEN s ELSE delivered[d]
  BY DEF Reply, MailTypeOK
<1>2. head \in Nat /\ Len(log) \in Nat /\ head <= Len(log)
  BY LenProperties DEF MailTypeOK, Queue!QTypeOK, LeftTheList
<1>3. got[c] \in Seq(1 .. Len(log))
  <2>1. got[c] \in Seq(Nat)
    BY DEF MailTypeOK, Queue!QTypeOK
  <2>2. \A i \in 1 .. n : got[c][i] \in 1 .. Len(log)
    BY <1>2, <2>1, LenProperties DEF LeftTheList
  <2>3. n \in Nat /\ got[c] \in [1 .. n -> 1 .. Len(log)]
    BY <2>1, <2>2, LenProperties
  <2> QED
    BY <2>3, SeqDef
<1>4. /\ m \in Nat /\ DOMAIN delivered[c] = 1 .. m /\ n \in Nat /\ DOMAIN got[c] = 1 .. n
      /\ s \in Seq(1 .. Len(log)) /\ DOMAIN s = 1 .. m + n
      /\ \A i \in 1 .. m + n : s[i] = IF i <= m THEN delivered[c][i] ELSE got[c][i - m]
  <2>1. delivered[c] \in Seq(1 .. Len(log))
    BY DEF MailTypeOK
  <2>2. m \in Nat /\ DOMAIN delivered[c] = 1 .. m /\ n \in Nat /\ DOMAIN got[c] = 1 .. n
    BY <1>3, <2>1, LenProperties
  <2>3. /\ s \in Seq(1 .. Len(log)) /\ Len(s) = m + n
        /\ \A i \in 1 .. m + n : s[i] = IF i <= m THEN delivered[c][i] ELSE got[c][i - m]
    <3> HIDE DEF MailInv
    <3> QED
      BY <1>3, <2>1, ConcatProperties
  <2>4. DOMAIN s = 1 .. m + n
    BY <2>3, LenProperties
  <2> QED
    BY <2>2, <2>3, <2>4
<1> HIDE DEF m, n, s
<1>5. ASSUME NEW i \in DOMAIN s
      PROVE  \/ i \in DOMAIN delivered[c] /\ s[i] = delivered[c][i]
             \/ i - m \in DOMAIN got[c] /\ s[i] = got[c][i - m]
  <2>1. CASE i <= m
    BY <1>4, <1>5, <2>1
  <2>2. CASE ~ i <= m
    BY <1>4, <1>5, <2>2
  <2> QED
    BY <2>1, <2>2
<1>6. /\ \A i \in DOMAIN delivered[c] : i \in DOMAIN s /\ s[i] = delivered[c][i]
      /\ \A i \in DOMAIN got[c] : i + m \in DOMAIN s /\ s[i + m] = got[c][i]
  <2>1. ASSUME NEW i \in DOMAIN delivered[c] PROVE i \in DOMAIN s /\ s[i] = delivered[c][i]
    BY <1>4, <2>1
  <2>2. ASSUME NEW i \in DOMAIN got[c] PROVE i + m \in DOMAIN s /\ s[i + m] = got[c][i]
    <3>1. i \in 1 .. n /\ i + m \in 1 .. m + n /\ ~(i + m <= m) /\ i + m - m = i
      BY <1>4, <2>2
    <3> QED
      BY <1>4, <3>1
  <2> QED
    BY <2>1, <2>2
<1>7. MailTypeOK'
  <2>1. /\ delivered' \in [Clients -> Seq(1 .. Len(log))]
        /\ program' \in [Clients -> {"idle", "asked", "gone"}]
    BY <1>4 DEF Reply, MailTypeOK, s
  <2> QED
    BY <1>1, <2>1 DEF MailTypeOK, Queue!QTypeOK, queue
<1>8. LeftTheList'
  <2>1. ASSUME NEW d \in Clients, NEW i \in DOMAIN delivered'[d]
        PROVE  delivered'[d][i] <= head
    <3>1. CASE d = c
      <4>1. \A j \in DOMAIN got[c] : got[c][j] <= head
        BY <1>2 DEF LeftTheList
      <4>2. s[i] <= head
        BY <1>1, <1>5, <2>1, <3>1, <4>1 DEF LeftTheList
      <4> QED
        BY <1>1, <3>1, <4>2
    <3>2. CASE d # c
      BY <1>1, <2>1, <3>2 DEF LeftTheList
    <3> QED
      BY <3>1, <3>2
  <2> QED
    BY <1>1, <2>1 DEF LeftTheList, queue
<1>9. InOrder'
  <2>1. ASSUME NEW i \in DOMAIN s, NEW j \in DOMAIN s, i < j
        PROVE  s[i] < s[j]
    <3>1. CASE j <= m
      <4>1. i \in DOMAIN delivered[c] /\ j \in DOMAIN delivered[c] /\ i <= m
        BY <1>4, <2>1, <3>1
      <4>2. delivered[c][i] < delivered[c][j]
        BY <2>1, <4>1 DEF InOrder
      <4>3. s[i] = delivered[c][i] /\ s[j] = delivered[c][j]
        BY <1>6, <4>1
      <4> QED
        BY <4>2, <4>3
    <3>2. CASE i <= m /\ m < j
      <4>1. i \in DOMAIN delivered[c] /\ j - m \in DOMAIN got[c]
        BY <1>4, <2>1, <3>2
      <4>2. delivered[c][i] < got[c][j - m]
        BY <1>1, <4>1 DEF InOrder
      <4>3. s[i] = delivered[c][i]
        BY <1>6, <4>1
      <4>4. s[j] = got[c][j - m]
        BY <1>4, <2>1, <3>2
      <4> QED
        BY <4>2, <4>3, <4>4
    <3>3. CASE m < i
      <4>1. i - m \in DOMAIN got[c] /\ j - m \in DOMAIN got[c] /\ i - m < j - m
        BY <1>4, <2>1, <3>3
      <4>2. got[c][i - m] < got[c][j - m]
        BY <4>1 DEF InOrder
      <4>3. s[i] = got[c][i - m] /\ s[j] = got[c][j - m]
        BY <1>4, <2>1, <3>3
      <4> QED
        BY <4>2, <4>3
    <3> QED
      BY <1>4, <2>1, <3>1, <3>2, <3>3
  <2> QED
    BY <1>1, <2>1 DEF InOrder, queue
<1>10. OneWay'
  <2>1. ASSUME NEW d \in Clients \ {c}, NEW i \in DOMAIN delivered[d], NEW j \in DOMAIN s
        PROVE  delivered[d][i] # s[j]
    BY <1>1, <1>5, <2>1 DEF OneWay
  <2>2. ASSUME NEW j \in DOMAIN s
        PROVE  s[j] \notin lost
    BY <1>1, <1>5, <2>2 DEF OneWay
  <2>3. ASSUME NEW d \in Clients \ {c}, program[d] = "asked", NEW i \in DOMAIN got[d], NEW j \in DOMAIN s
        PROVE  s[j] # got[d][i]
    BY <1>1, <1>5, <2>3 DEF OneWay
  <2>4. \A d, e \in Clients : \A i \in DOMAIN delivered'[d], j \in DOMAIN delivered'[e] :
          delivered'[d][i] = delivered'[e][j] => d = e
    BY <1>1, <2>1 DEF OneWay
  <2>5. \A d \in Clients : \A i \in DOMAIN delivered'[d] : delivered'[d][i] \notin lost'
    BY <1>1, <2>2 DEF OneWay
  <2>6. ASSUME NEW d \in Clients, program'[d] = "asked", NEW i \in DOMAIN got'[d]
        PROVE  /\ got'[d][i] \notin lost'
               /\ \A e \in Clients : \A j \in DOMAIN delivered'[e] : delivered'[e][j] # got'[d][i]
               /\ \A e \in Clients \ {d} : program'[e] = "asked" =>
                    \A j \in DOMAIN got'[e] : got'[e][j] # got'[d][i]
    <3>1. d # c /\ program[d] = "asked" /\ got' = got
      BY <1>1, <2>6 DEF queue
    <3>2. \A e \in Clients \ {d} : program'[e] = "asked" => program[e] = "asked"
      BY <1>1
    <3>3. \A e \in Clients : \A j \in DOMAIN delivered'[e] : delivered'[e][j] # got[d][i]
      BY <1>1, <2>3, <2>6, <3>1 DEF OneWay
    <3> QED
      BY <1>1, <2>6, <3>1, <3>2, <3>3 DEF OneWay
  <2> QED
    BY <2>4, <2>5, <2>6 DEF OneWay
<1>11. Accounted'
  <2> SUFFICES ASSUME NEW i \in 1 .. Len(log), ~Kept(i), ~Evicted(i)
               PROVE  InFlight(i)' \/ Arrived(i)' \/ i \in lost'
    BY <1>1 DEF Accounted, Kept, Evicted, queue
  <2>1. CASE \E d \in Clients \ {c} : program[d] = "asked" /\ i \in Listed(got[d])
    BY <1>1, <2>1 DEF InFlight, Listed, queue
  <2>2. CASE i \in Listed(got[c])
    <3>1. i \in Listed(s)
      BY <1>6, <2>2 DEF Listed
    <3> QED
      BY <1>1, <3>1 DEF Arrived
  <2>3. CASE \E d \in Clients : i \in Listed(delivered[d])
    <3>1. \A d \in Clients : Listed(delivered[d]) \subseteq Listed(delivered'[d])
      BY <1>1, <1>6 DEF Listed
    <3> QED
      BY <2>3, <3>1 DEF Arrived
  <2>4. CASE i \in lost
    BY <1>1, <2>4
  <2> QED
    BY <2>1, <2>2, <2>3, <2>4 DEF Accounted, InFlight, Arrived
<1> QED
  BY <1>7, <1>8, <1>9, <1>10, <1>11

\* A response that does not arrive keeps the invariant: its messages are lost.
LEMMA ReplyLostMail ==
  ASSUME MailInv, NEW c \in Clients, ReplyLost(c)
  PROVE  MailInv'
<1> USE DEF MailInv
<1>1. /\ program[c] = "asked" /\ UNCHANGED <<queue, delivered>>
      /\ \A d \in Clients : program'[d] = IF d = c THEN "gone" ELSE program[d]
      /\ lost' = lost \cup {got[c][i] : i \in DOMAIN got[c]}
  BY DEF ReplyLost, MailTypeOK, Listed
<1>2. head \in Nat /\ Len(log) \in Nat /\ head <= Len(log)
  BY LenProperties DEF MailTypeOK, Queue!QTypeOK, LeftTheList
<1>3. \A i \in DOMAIN got[c] : got[c][i] \in 1 .. head
  BY DEF LeftTheList
<1>4. MailTypeOK'
  <2>1. program' \in [Clients -> {"idle", "asked", "gone"}]
    BY DEF ReplyLost, MailTypeOK
  <2>2. lost' \in SUBSET (1 .. Len(log))
    <3>1. \A i \in DOMAIN got[c] : got[c][i] \in 1 .. Len(log)
      BY <1>2, <1>3
    <3> QED
      BY <1>1, <3>1 DEF MailTypeOK
  <2> QED
    BY <1>1, <2>1, <2>2 DEF MailTypeOK, Queue!QTypeOK, queue
<1>5. LeftTheList'
  <2>1. \A i \in lost' : i <= head
    BY <1>1, <1>2, <1>3 DEF LeftTheList
  <2> QED
    BY <1>1, <2>1 DEF LeftTheList, queue
<1>6. InOrder'
  BY <1>1 DEF InOrder, queue
<1>7. OneWay'
  <2>1. \A d \in Clients : \A i \in DOMAIN delivered[d] : delivered[d][i] \notin lost'
    BY <1>1 DEF OneWay
  <2>2. ASSUME NEW d \in Clients \ {c}, program[d] = "asked", NEW i \in DOMAIN got[d]
        PROVE  got[d][i] \notin lost'
    BY <1>1, <2>2 DEF OneWay
  <2>3. \A d \in Clients : program'[d] = "asked" => d # c /\ program[d] = "asked"
    BY <1>1
  <2> QED
    BY <1>1, <2>1, <2>2, <2>3 DEF OneWay, queue
<1>8. Accounted'
  <2> SUFFICES ASSUME NEW i \in 1 .. Len(log), ~Kept(i), ~Evicted(i)
               PROVE  InFlight(i)' \/ Arrived(i)' \/ i \in lost'
    BY <1>1 DEF Accounted, Kept, Evicted, queue
  <2>1. CASE \E d \in Clients \ {c} : program[d] = "asked" /\ i \in Listed(got[d])
    BY <1>1, <2>1 DEF InFlight, Listed, queue
  <2>2. CASE i \in Listed(got[c]) \cup lost
    BY <1>1, <2>2 DEF Listed
  <2>3. CASE Arrived(i)
    BY <1>1, <2>3 DEF Arrived
  <2> QED
    BY <2>1, <2>2, <2>3 DEF Accounted, InFlight
<1> QED
  BY <1>4, <1>5, <1>6, <1>7, <1>8

\* A client that is stopped or started between two polls has no response under way.
LEMMA StopStartMail ==
  ASSUME MailInv, NEW c \in Clients, Stop(c) \/ Start(c)
  PROVE  MailInv'
<1> USE DEF MailInv
<1>1. /\ UNCHANGED <<queue, delivered, lost>>
      /\ program' \in [Clients -> {"idle", "asked", "gone"}]
      /\ \A d \in Clients : program'[d] = "asked" <=> program[d] = "asked"
  BY DEF Stop, Start, MailTypeOK
<1>2. MailTypeOK' /\ LeftTheList' /\ InOrder' /\ OneWay'
  BY <1>1 DEF MailTypeOK, Queue!QTypeOK, LeftTheList, InOrder, OneWay, queue
<1>3. Accounted'
  BY <1>1 DEF Accounted, Kept, InFlight, Arrived, Evicted, queue
<1> QED
  BY <1>2, <1>3

LEMMA UnchangedMail ==
  ASSUME MailInv, UNCHANGED queue, UNCHANGED client
  PROVE  MailInv'
<1> USE DEF MailInv, queue, client
<1>1. MailTypeOK' /\ LeftTheList' /\ InOrder' /\ OneWay'
  BY DEF MailTypeOK, Queue!QTypeOK, LeftTheList, InOrder, OneWay
<1>2. Accounted'
  BY DEF Accounted, Kept, InFlight, Arrived, Evicted
<1> QED
  BY <1>1, <1>2

LEMMA InitMail == Init => MailInv
<1> SUFFICES ASSUME Init
             PROVE  MailInv
  OBVIOUS
<1> USE MonitorAssumption DEF Init, Queue!QInit
<1>1. MailTypeOK
  BY DEF MailTypeOK, Queue!QTypeOK
<1>2. LeftTheList /\ InOrder /\ OneWay
  BY DEF LeftTheList, InOrder, OneWay
<1>3. Accounted
  BY DEF Accounted
<1> QED
  BY <1>1, <1>2, <1>3 DEF MailInv

LEMMA NextMail == RoomTypeOK /\ MailInv /\ [Next]_vars => MailInv'
<1> SUFFICES ASSUME RoomTypeOK, MailInv, [Next]_vars
             PROVE  MailInv'
  OBVIOUS
<1>1. ASSUME NEW h \in Hooks, Hook(h)
      PROVE  MailInv'
  BY <1>1, HookMail, AddMsgMail, UnchangedMail
<1>2. ASSUME NEW c \in Clients, Client(c)
      PROVE  MailInv'
  BY <1>2, SyncMsgMail, ReplyMail, ReplyLostMail, StopStartMail DEF Client
<1>3. CASE UNCHANGED vars
  BY <1>3, UnchangedMail DEF vars
<1> QED
  BY <1>1, <1>2, <1>3 DEF Next

-----------------------------------------------------------------------------
(* RoomInv *)

\* WeChat handles one change list at a time.
OneChangeList ==
  \A g, h \in Hooks : pc[g] \in {"add", "delete"} /\ pc[h] \in {"add", "delete"} => g = h

\* The table has everyone's last join, but for the joins that a change list still has
\* to enter; a change list is handled when all of its joins have been entered.
TableFilled ==
  \A m \in Members :
    /\ registered[m] <= addMemberEventMap[m] /\ addMemberEventMap[m] <= joins[m]
    /\ addMemberEventMap[m] < joins[m] => \E h \in Hooks : pc[h] = "add" /\ m \in Listed(addUserList[h])

\* What a response answers was handled before it, and the entry that its callback has
\* copied is of a join that took place, no older than the response has to report.
Copied ==
  \A h \in Hooks :
    /\ \A m \in Members : awaited[h][m] <= registered[m]
    /\ pc[h] = "report" =>
         /\ addMemberMsg[h] \in 1 .. joins[Head(memberList[h])]
         /\ awaited[h][Head(memberList[h])] <= addMemberMsg[h]

\* m has left the room and the change list that says so has not reported it yet.
Leaving(m) == \E h \in Hooks : pc[h] \in {"add", "delete"} /\ m \in Listed(delelteUserList[h])

\* A departure is reported or going to be.
LeavesCounted ==
  \A m \in Members :
    Cardinality(Reports(20002, m)) + (IF Leaving(m) THEN 1 ELSE 0) =
      joins[m] + (IF m \in present THEN 1 ELSE 0) - (IF m \in room THEN 1 ELSE 0)

\* A change list names nobody twice.
NobodyTwice ==
  \A h \in Hooks : \A i, j \in DOMAIN delelteUserList[h] :
    delelteUserList[h][i] = delelteUserList[h][j] => i = j

\* A message of WeChat is reported once, an image not before it has been downloaded.
ReportedOnce ==
  \A m \in Inbox :
    /\ \A i \in 1 .. Len(log) :
         log[i].about = m.id => m \in received /\ (m.msgType = 3 => m \in loaded)
    /\ \A i, j \in 1 .. Len(log) : log[i].about = m.id /\ log[j].about = m.id => i = j

RoomInv ==
  /\ RoomTypeOK /\ OneChangeList /\ TableFilled /\ Copied /\ LeavesCounted /\ NobodyTwice
  /\ ReportedOnce /\ JoinsAreReal /\ NoJoinMissed

-----------------------------------------------------------------------------
(* How a step changes the reports *)

\* Reports of a log l: Reports(t, x) is about the log as it is.
ReportsIn(l, t, x) == {i \in 1 .. Len(l) : l[i].msg_type = t /\ l[i].about = x}

LEMMA ReportsNow ==
  ASSUME NEW t, NEW x
  PROVE  Reports(t, x) = ReportsIn(log, t, x) /\ Reports(t, x)' = ReportsIn(log', t, x)
  BY DEF Reports, ReportsIn

LEMMA ReportsFinite ==
  ASSUME NEW l \in Seq(Message), NEW t, NEW x
  PROVE  IsFiniteSet(ReportsIn(l, t, x)) /\ Cardinality(ReportsIn(l, t, x)) \in Nat
<1>1. Len(l) \in Nat
  BY LenProperties
<1>2. IsFiniteSet(1 .. Len(l))
  BY <1>1, FS_Interval
<1>3. ReportsIn(l, t, x) \subseteq 1 .. Len(l)
  BY DEF ReportsIn
<1>4. IsFiniteSet(ReportsIn(l, t, x))
  BY <1>2, <1>3, FS_Subset
<1> QED
  BY <1>4, FS_CardinalityType

\* The log is one message longer.
Added(msg) ==
  /\ Len(log) \in Nat /\ Len(log') = Len(log) + 1
  /\ \A i \in 1 .. Len(log) : log'[i] = log[i]
  /\ log'[Len(log) + 1] = msg

LEMMA AppendAdds ==
  ASSUME MailTypeOK, NEW msg \in Message, log' = Append(log, msg)
  PROVE  Added(msg)
  BY AppendProperties, LenProperties DEF MailTypeOK, Added

\* AddMsg adds the message to its own reports and changes no other.
LEMMA ReportsAdded ==
  ASSUME MailTypeOK, NEW msg, Added(msg), NEW t, NEW x
  PROVE  /\ msg.msg_type = t /\ msg.about = x =>
              /\ ReportsIn(log', t, x) = ReportsIn(log, t, x) \cup {Len(log) + 1}
              /\ Cardinality(ReportsIn(log', t, x)) = Cardinality(ReportsIn(log, t, x)) + 1
         /\ ~(msg.msg_type = t /\ msg.about = x) => ReportsIn(log', t, x) = ReportsIn(log, t, x)
         /\ \A i \in ReportsIn(log, t, x) : log'[i] = log[i]
<1>1. \A i : i \in 1 .. Len(log') <=> i \in 1 .. Len(log) \/ i = Len(log) + 1
  BY DEF Added
<1>2. msg.msg_type = t /\ msg.about = x =>
        ReportsIn(log', t, x) = ReportsIn(log, t, x) \cup {Len(log) + 1}
  BY <1>1 DEF Added, ReportsIn
<1>3. ~(msg.msg_type = t /\ msg.about = x) => ReportsIn(log', t, x) = ReportsIn(log, t, x)
  BY <1>1 DEF Added, ReportsIn
<1>4. \A i \in ReportsIn(log, t, x) : log'[i] = log[i]
  BY DEF Added, ReportsIn
<1>5. Len(log) + 1 \notin ReportsIn(log, t, x)
  BY DEF Added, ReportsIn
<1>6. IsFiniteSet(ReportsIn(log, t, x))
  BY ReportsFinite DEF MailTypeOK
<1>7. Cardinality(ReportsIn(log, t, x) \cup {Len(log) + 1}) = Cardinality(ReportsIn(log, t, x)) + 1
  BY <1>5, <1>6, FS_AddElement
<1> QED
  BY <1>2, <1>3, <1>4, <1>7

\* A step that adds no report of a join or a departure, and leaves the room alone.
LEMMA ReportsKept ==
  ASSUME JoinsAreReal, NoJoinMissed, LeavesCounted,
         \A m \in Members : Reports(20001, m)' = Reports(20001, m)
         /\ Reports(20002, m)' = Reports(20002, m)
         /\ \A i \in Reports(20001, m) : log'[i] = log[i],
         UNCHANGED <<joins, room, present, answered, pc, delelteUserList>>
  PROVE  JoinsAreReal' /\ NoJoinMissed' /\ LeavesCounted'
<1>1. JoinsAreReal' /\ NoJoinMissed'
  BY DEF JoinsAreReal, NoJoinMissed
<1>2. \A m \in Members : Leaving(m)' = Leaving(m)
  BY DEF Leaving
<1> QED
  BY <1>1, <1>2 DEF LeavesCounted

\* Messages of WeChat leave the room's reports alone.
LEMMA ChatRoom ==
  ASSUME RoomInv, MailTypeOK, NEW h \in Hooks, NEW m \in Inbox,
         MyAddChatMsg(h, m) \/ MyOnDownloadImageSuccessed(h, m)
  PROVE  RoomInv'
<1> USE MonitorAssumption DEF RoomInv
<1>1. UNCHANGED <<table, pc, chatroom>>
  BY DEF MyAddChatMsg, MyOnDownloadImageSuccessed
<1>2. RoomTypeOK' /\ OneChangeList' /\ TableFilled' /\ Copied' /\ NobodyTwice'
  BY <1>1
     DEF MyAddChatMsg, MyOnDownloadImageSuccessed, table, chatroom, RoomTypeOK, OneChangeList,
         TableFilled, Copied, NobodyTwice
<1>3. CASE log' = log
  <2>1. ReportedOnce'
    BY <1>3 DEF MyAddChatMsg, MyOnDownloadImageSuccessed, ReportedOnce
  <2>2. \A t, x : Reports(t, x)' = Reports(t, x)
    BY <1>3 DEF Reports
  <2> QED
    BY <1>1, <1>2, <1>3, <2>1, <2>2, ReportsKept DEF chatroom, table
<1>4. CASE /\ log' = Append(log, ChatReport(m))
           /\ \/ m.msgType \in Forwarded /\ MyAddChatMsg(h, m)
              \/ m.msgType = 3 /\ MyOnDownloadImageSuccessed(h, m)
  <2>1. ChatReport(m) \in Message /\ ChatReport(m).about = m.id
        /\ ChatReport(m).msg_type \notin {20001, 20002}
    BY <1>4 DEF Forwarded, ChatReport, Message
  <2>2. JoinsAreReal' /\ NoJoinMissed' /\ LeavesCounted'
    <3>1. ASSUME NEW x \in Members
          PROVE  /\ Reports(20001, x)' = Reports(20001, x)
                 /\ Reports(20002, x)' = Reports(20002, x)
                 /\ \A i \in Reports(20001, x) : log'[i] = log[i]
      <4>1. Added(ChatReport(m))
        BY <1>4, <2>1, AppendAdds
      <4> QED
        BY <2>1, <4>1, ReportsAdded, ReportsNow
    <3> QED
      BY <1>1, <3>1, ReportsKept DEF chatroom, table
  <2>3. ReportedOnce'
    <3>1. /\ Len(log) \in Nat /\ Len(log') = Len(log) + 1
          /\ \A i \in 1 .. Len(log) : log'[i] = log[i]
          /\ log'[Len(log) + 1].about = m.id
      BY <1>4, <2>1, AppendProperties, LenProperties DEF MailTypeOK
    <3>2. m \in received' /\ (m.msgType = 3 => m \in loaded')
      BY <1>4 DEF MyAddChatMsg, MyOnDownloadImageSuccessed, Forwarded
    <3>3. received \subseteq received' /\ loaded \subseteq loaded'
      BY DEF MyAddChatMsg, MyOnDownloadImageSuccessed
    <3>4. \A i \in 1 .. Len(log) : log[i].about # m.id
      BY DEF ReportedOnce, MyAddChatMsg, MyOnDownloadImageSuccessed
    <3>5. \A i \in 1 .. Len(log') : i \in 1 .. Len(log) \/ i = Len(log) + 1
      BY <3>1
    <3> QED
      BY <3>1, <3>2, <3>3, <3>4, <3>5 DEF ReportedOnce
  <2> QED
    BY <1>2, <2>2, <2>3
<1> QED
  BY <1>3, <1>4 DEF MyAddChatMsg, MyOnDownloadImageSuccessed, AddMsg, queue, Forwarded

\* A step without a message keeps the reports.
LEMMA Silent ==
  ASSUME RoomInv, UNCHANGED <<log, inbox>>
  PROVE  /\ ReportedOnce'
         /\ \A m \in Members :
              /\ Reports(20001, m)' = Reports(20001, m)
              /\ Reports(20002, m)' = Reports(20002, m)
              /\ \A i \in Reports(20001, m) : log'[i] = log[i]
<1>1. ReportedOnce'
  BY DEF RoomInv, ReportedOnce, inbox
<1>2. \A t, x : Reports(t, x)' = Reports(t, x)
  BY DEF Reports
<1> QED
  BY <1>1, <1>2

\* The first member of a list, and the others.
LEMMA HeadAndOthers ==
  ASSUME NEW s \in Seq(Members), s # << >>
  PROVE  /\ Head(s) \in Members /\ Tail(s) \in Seq(Members)
         /\ Listed(s) = {Head(s)} \cup Listed(Tail(s))
         /\ (\A i, j \in DOMAIN s : s[i] = s[j] => i = j) =>
              /\ Head(s) \notin Listed(Tail(s))
              /\ \A i, j \in DOMAIN Tail(s) : Tail(s)[i] = Tail(s)[j] => i = j
<1>1. /\ Head(s) \in Members /\ Tail(s) \in Seq(Members) /\ Head(s) = s[1]
      /\ Len(s) \in Nat /\ Len(s) > 0 /\ Len(Tail(s)) = Len(s) - 1
      /\ DOMAIN s = 1 .. Len(s) /\ DOMAIN Tail(s) = 1 .. Len(Tail(s))
  BY EmptySeq, HeadTailProperties, LenProperties
<1>2. \A i \in DOMAIN Tail(s) : i + 1 \in DOMAIN s /\ i + 1 # 1 /\ Tail(s)[i] = s[i + 1]
  BY <1>1, HeadTailProperties
<1>3. \A i \in DOMAIN s : i = 1 \/ (i - 1 \in DOMAIN Tail(s) /\ Tail(s)[i - 1] = s[i])
  BY <1>1, <1>2
<1>4. 1 \in DOMAIN s
  BY <1>1
<1>5. Listed(s) = {Head(s)} \cup Listed(Tail(s))
  BY <1>1, <1>2, <1>3, <1>4 DEF Listed
<1>6. ASSUME \A i, j \in DOMAIN s : s[i] = s[j] => i = j
      PROVE  /\ Head(s) \notin Listed(Tail(s))
             /\ \A i, j \in DOMAIN Tail(s) : Tail(s)[i] = Tail(s)[j] => i = j
  <2>1. Head(s) \notin Listed(Tail(s))
    BY <1>1, <1>2, <1>4, <1>6 DEF Listed
  <2>2. ASSUME NEW i \in DOMAIN Tail(s), NEW j \in DOMAIN Tail(s), Tail(s)[i] = Tail(s)[j]
        PROVE  i = j
    <3>1. i + 1 = j + 1
      BY <1>2, <1>6, <2>2
    <3> QED
      BY <1>1, <3>1
  <2> QED
    BY <2>1, <2>2
<1> QED
  BY <1>1, <1>5, <1>6

-----------------------------------------------------------------------------
\* A change list arrives: its joins are to be entered, its departures to be reported.
LEMMA ChangeListBeginRoom ==
  ASSUME RoomInv, MailTypeOK, NEW h \in Hooks, NEW adds \in Lists(Members), NEW dels \in Lists(Members),
         ChangeListBegin(h, adds, dels)
  PROVE  RoomInv'
<1> USE DEF RoomInv, ChangeListBegin
<1>1. /\ adds \in Seq(Members) /\ dels \in Seq(Members)
      /\ \A i, j \in DOMAIN dels : dels[i] = dels[j] => i = j
  BY ListsAreSeqs
<1>2. \A m \in Members : joins'[m] = IF m \in Listed(adds) THEN joins[m] + 1 ELSE joins[m]
  OBVIOUS
<1>3. \A m \in Members : joins[m] \in Nat /\ joins'[m] \in Nat /\ joins[m] <= joins'[m]
  BY <1>2 DEF RoomTypeOK
<1>4. RoomTypeOK'
  <2>1. joins' \in [Members -> Nat]
    BY DEF RoomTypeOK
  <2>2. room' \in SUBSET Members
    BY <1>1, ElementOfSeq, LenProperties DEF RoomTypeOK, Listed
  <2>3. changes' \in Nat
    BY DEF RoomTypeOK
  <2> QED
    BY <1>1, <2>1, <2>2, <2>3 DEF RoomTypeOK, queue, inbox, client
<1>5. /\ pc' = [pc EXCEPT ![h] = "add"]
      /\ \A g \in Hooks : pc'[g] = IF g = h THEN "add" ELSE pc[g]
      /\ \A g \in Hooks : addUserList'[g] = IF g = h THEN adds ELSE addUserList[g]
      /\ \A g \in Hooks : delelteUserList'[g] = IF g = h THEN dels ELSE delelteUserList[g]
  BY DEF RoomTypeOK
<1>6. OneChangeList'
  BY <1>5 DEF OneChangeList
<1>7. TableFilled'
  <2>1. ASSUME NEW m \in Members
        PROVE  addMemberEventMap[m] = joins[m]
    <3>1. ~(addMemberEventMap[m] < joins[m]) /\ addMemberEventMap[m] <= joins[m]
      BY DEF TableFilled
    <3>2. addMemberEventMap[m] \in Nat /\ joins[m] \in Nat
      BY DEF RoomTypeOK
    <3> QED
      BY <3>1, <3>2
  <2>2. \A m \in Members : joins'[m] # joins[m] => pc'[h] = "add" /\ m \in Listed(addUserList'[h])
    BY <1>2, <1>5
  <2> QED
    BY <1>3, <2>1, <2>2 DEF TableFilled
<1>8. Copied'
  <2>1. ASSUME NEW g \in Hooks, pc'[g] = "report"
        PROVE  /\ addMemberMsg'[g] \in 1 .. joins'[Head(memberList'[g])]
               /\ awaited'[g][Head(memberList'[g])] <= addMemberMsg'[g]
    <3>1. pc[g] = "report"
      BY <1>5, <2>1
    <3>2. Head(memberList[g]) \in Members
      BY <3>1, HeadTailProperties DEF RoomTypeOK
    <3> QED
      BY <1>3, <3>1, <3>2 DEF Copied
  <2> QED
    BY <2>1 DEF Copied
<1>9. NobodyTwice'
  BY <1>1, <1>5 DEF NobodyTwice
<1>10. /\ ReportedOnce'
       /\ \A m \in Members : /\ Reports(20001, m)' = Reports(20001, m)
                             /\ Reports(20002, m)' = Reports(20002, m)
                             /\ \A i \in Reports(20001, m) : log'[i] = log[i]
  BY Silent DEF queue
<1>11. JoinsAreReal'
  BY <1>3, <1>10 DEF JoinsAreReal
<1>12. NoJoinMissed'
  BY <1>10 DEF NoJoinMissed
<1>13. LeavesCounted'
  <2>1. \A m \in Members : ~Leaving(m) /\ (Leaving(m)' <=> m \in Listed(dels))
    BY <1>5 DEF Leaving
  <2>2. \A m \in Members : Cardinality(Reports(20002, m)) \in Nat
    BY ReportsFinite, ReportsNow DEF MailTypeOK
  <2>3. Listed(adds) \cap room = {} /\ Listed(dels) \subseteq room /\ present' = present
        /\ room' = (room \cup Listed(adds)) \ Listed(dels)
    OBVIOUS
  <2> SUFFICES ASSUME NEW m \in Members
               PROVE  Cardinality(Reports(20002, m)') + (IF Leaving(m)' THEN 1 ELSE 0) =
                        joins'[m] + (IF m \in present' THEN 1 ELSE 0) - (IF m \in room' THEN 1 ELSE 0)
    BY DEF LeavesCounted
  <2>4. Cardinality(Reports(20002, m)) =
          joins[m] + (IF m \in present THEN 1 ELSE 0) - (IF m \in room THEN 1 ELSE 0)
    BY <2>1, <2>2 DEF LeavesCounted
  <2>5. Cardinality(Reports(20002, m)') = Cardinality(Reports(20002, m))
    BY <1>10
  <2> HIDE DEF RoomInv, ChangeListBegin
  <2> QED
    BY <1>2, <1>3, <2>1, <2>2, <2>3, <2>4, <2>5
<1> QED
  BY <1>4, <1>6, <1>7, <1>8, <1>9, <1>10, <1>11, <1>12, <1>13

\* The next join is entered in the table.
LEMMA ChangeListAddRoom ==
  ASSUME RoomInv, NEW h \in Hooks, ChangeListAdd(h)
  PROVE  RoomInv'
<1> DEFINE m == Head(addUserList[h])
<1> USE DEF RoomInv, ChangeListAdd
<1>1. /\ m \in Members /\ Tail(addUserList[h]) \in Seq(Members)
      /\ Listed(addUserList[h]) = {m} \cup Listed(Tail(addUserList[h]))
  BY HeadAndOthers DEF RoomTypeOK
<1>2. /\ pc[h] = "add" /\ UNCHANGED <<log, inbox, pc, chatroom, delelteUserList, memberList, addMemberMsg>>
      /\ \A x \in Members : addMemberEventMap'[x] = IF x = m THEN joins[x] ELSE addMemberEventMap[x]
      /\ \A g \in Hooks : addUserList'[g] = IF g = h THEN Tail(addUserList[h]) ELSE addUserList[g]
  BY DEF RoomTypeOK, queue
<1>3. RoomTypeOK'
  <2>1. addMemberEventMap' \in [Members -> Nat] /\ addUserList' \in [Hooks -> Seq(Members)]
    BY <1>1 DEF RoomTypeOK
  <2> QED
    BY <1>2, <2>1 DEF RoomTypeOK, chatroom, inbox
<1> HIDE DEF m, ChangeListAdd
<1>4. TableFilled'
  <2>1. ASSUME NEW x \in Members
        PROVE  /\ registered'[x] <= addMemberEventMap'[x] /\ addMemberEventMap'[x] <= joins'[x]
               /\ addMemberEventMap'[x] < joins'[x] =>
                    \E g \in Hooks : pc'[g] = "add" /\ x \in Listed(addUserList'[g])
    <3>1. /\ registered[x] \in Nat /\ addMemberEventMap[x] \in Nat /\ joins[x] \in Nat
          /\ registered[x] <= addMemberEventMap[x] /\ addMemberEventMap[x] <= joins[x]
      BY DEF RoomTypeOK, TableFilled
    <3>2. CASE x = m
      BY <1>2, <3>1, <3>2 DEF chatroom
    <3>3. CASE x # m
      <4>1. ASSUME NEW g \in Hooks, pc[g] = "add", x \in Listed(addUserList[g])
            PROVE  x \in Listed(addUserList'[g])
        BY <1>1, <1>2, <3>3, <4>1
      <4>2. addMemberEventMap[x] < joins[x] =>
              \E g \in Hooks : pc[g] = "add" /\ x \in Listed(addUserList[g])
        BY DEF TableFilled
      <4> QED
        BY <1>2, <3>1, <3>3, <4>1, <4>2 DEF chatroom
    <3> QED
      BY <3>2, <3>3
  <2> QED
    BY <2>1 DEF TableFilled
<1>5. OneChangeList' /\ Copied' /\ NobodyTwice'
  BY <1>2 DEF OneChangeList, Copied, NobodyTwice, chatroom
<1>6. ReportedOnce' /\ JoinsAreReal' /\ NoJoinMissed' /\ LeavesCounted'
  BY <1>2, Silent, ReportsKept DEF chatroom
<1> QED
  BY <1>3, <1>4, <1>5, <1>6

\* All joins have been entered.
LEMMA ChangeListAddedRoom ==
  ASSUME RoomInv, NEW h \in Hooks, ChangeListAdded(h)
  PROVE  RoomInv'
<1> USE DEF RoomInv, ChangeListAdded
<1>1. /\ pc[h] = "add" /\ addUserList[h] = << >>
      /\ UNCHANGED <<log, inbox, table, chatroom>>
      /\ pc' \in [Hooks -> {"idle", "add", "delete", "lookup", "report"}]
      /\ \A g \in Hooks : pc'[g] = IF g = h THEN "delete" ELSE pc[g]
  BY DEF RoomTypeOK, queue
<1>2. RoomTypeOK' /\ OneChangeList' /\ NobodyTwice' /\ Copied'
  BY <1>1 DEF RoomTypeOK, OneChangeList, NobodyTwice, Copied, table, chatroom, inbox
<1>3. TableFilled'
  <2>1. \A g \in Hooks, x \in Members :
          pc[g] = "add" /\ x \in Listed(addUserList[g]) => g # h
    BY <1>1 DEF Listed
  <2> QED
    BY <1>1, <2>1 DEF TableFilled, table, chatroom
<1>4. ReportedOnce' /\ JoinsAreReal' /\ NoJoinMissed'
  BY <1>1, Silent DEF JoinsAreReal, NoJoinMissed, chatroom
<1>5. LeavesCounted'
  <2>1. \A x \in Members : Leaving(x)' <=> Leaving(x)
    BY <1>1 DEF Leaving, table
  <2> QED
    BY <1>1, <2>1, Silent DEF LeavesCounted, chatroom
<1> QED
  BY <1>2, <1>3, <1>4, <1>5

\* The change list is handled.
LEMMA ChangeListReturnRoom ==
  ASSUME RoomInv, NEW h \in Hooks, ChangeListReturn(h)
  PROVE  RoomInv'
<1> USE DEF RoomInv, ChangeListReturn
<1>1. /\ pc[h] = "delete" /\ delelteUserList[h] = << >> /\ registered' = joins
      /\ UNCHANGED <<log, inbox, table, joins, room, present, changes, details, awaited, answered>>
      /\ pc' \in [Hooks -> {"idle", "add", "delete", "lookup", "report"}]
      /\ \A g \in Hooks : pc'[g] = IF g = h THEN "idle" ELSE pc[g]
  BY DEF RoomTypeOK, queue
<1>2. RoomTypeOK' /\ OneChangeList' /\ NobodyTwice'
  BY <1>1 DEF RoomTypeOK, OneChangeList, NobodyTwice, table, inbox
<1>3. ASSUME NEW x \in Members
      PROVE  /\ registered[x] \in Nat /\ joins[x] \in Nat /\ addMemberEventMap[x] = joins[x]
             /\ registered[x] <= joins[x]
  <2>1. \A g \in Hooks : pc[g] # "add"
    BY <1>1 DEF OneChangeList
  <2>2. /\ registered[x] <= addMemberEventMap[x] /\ addMemberEventMap[x] <= joins[x]
        /\ ~(addMemberEventMap[x] < joins[x])
    BY <2>1 DEF TableFilled
  <2>3. registered[x] \in Nat /\ joins[x] \in Nat /\ addMemberEventMap[x] \in Nat
    BY DEF RoomTypeOK
  <2> QED
    BY <2>2, <2>3
<1>4. TableFilled'
  BY <1>1, <1>3 DEF TableFilled, table
<1>5. Copied'
  <2>1. \A g \in Hooks, x \in Members : awaited[g][x] \in Nat /\ awaited[g][x] <= joins[x]
    BY <1>3 DEF Copied, RoomTypeOK
  <2> QED
    BY <1>1, <2>1 DEF Copied, table
<1>6. ReportedOnce' /\ JoinsAreReal' /\ NoJoinMissed'
  BY <1>1, Silent DEF JoinsAreReal, NoJoinMissed
<1>7. LeavesCounted'
  <2>1. \A x \in Members : Leaving(x)' <=> Leaving(x)
    BY <1>1 DEF Leaving, table, Listed
  <2> QED
    BY <1>1, <2>1, Silent DEF LeavesCounted
<1> QED
  BY <1>2, <1>4, <1>5, <1>6, <1>7

\* A report of a join or a departure is not about a message of WeChat.
LEMMA RoomReport ==
  ASSUME RoomInv, NEW msg, Added(msg), msg.about \in Members, UNCHANGED inbox
  PROVE  ReportedOnce'
<1>1. /\ Len(log) \in Nat /\ Len(log') = Len(log) + 1
      /\ \A i \in 1 .. Len(log) : log'[i] = log[i]
      /\ log'[Len(log) + 1].about = msg.about
  BY DEF Added
<1>2. \A i \in 1 .. Len(log') : i \in 1 .. Len(log) \/ i = Len(log) + 1
  BY <1>1
<1>3. \A x \in Inbox : x.id # msg.about
  BY MonitorAssumption
<1>4. ReportedOnce
  BY DEF RoomInv
<1> QED
  BY <1>1, <1>2, <1>3, <1>4 DEF ReportedOnce, inbox

\* The next departure is reported.
LEMMA ChangeListDeleteRoom ==
  ASSUME RoomInv, MailTypeOK, NEW h \in Hooks, ChangeListDelete(h)
  PROVE  RoomInv'
<1>1. PICK m \in Members :
        /\ m = Head(delelteUserList[h])
        /\ Tail(delelteUserList[h]) \in Seq(Members)
        /\ Listed(delelteUserList[h]) = {m} \cup Listed(Tail(delelteUserList[h]))
        /\ m \notin Listed(Tail(delelteUserList[h]))
        /\ \A i, j \in DOMAIN Tail(delelteUserList[h]) :
             Tail(delelteUserList[h])[i] = Tail(delelteUserList[h])[j] => i = j
  <2>1. /\ delelteUserList[h] \in Seq(Members) /\ delelteUserList[h] # << >>
        /\ \A i, j \in DOMAIN delelteUserList[h] :
             delelteUserList[h][i] = delelteUserList[h][j] => i = j
    BY DEF ChangeListDelete, RoomInv, RoomTypeOK, NobodyTwice
  <2> QED
    BY <2>1, HeadAndOthers
<1>2. PICK msg \in Message :
        msg.msg_type = 20002 /\ msg.about = m /\ log' = Append(log, msg)
  <2>1. [msg_type |-> 20002, about |-> m, join |-> joins[m]] \in Message
    BY <1>1 DEF Message, RoomInv, RoomTypeOK
  <2> QED
    BY <1>1, <2>1 DEF ChangeListDelete, AddMsg
<1>3. /\ pc[h] = "delete"
      /\ UNCHANGED <<inbox, pc, chatroom, addMemberEventMap, addUserList, memberList, addMemberMsg>>
      /\ delelteUserList' \in [Hooks -> Seq(Members)]
      /\ \A g \in Hooks : delelteUserList'[g] = IF g = h THEN Tail(delelteUserList[h]) ELSE delelteUserList[g]
  BY <1>1 DEF ChangeListDelete, RoomInv, RoomTypeOK
<1> USE DEF RoomInv
<1>4. Added(msg)
  BY <1>2, AppendAdds
<1>5. RoomTypeOK' /\ OneChangeList' /\ TableFilled' /\ Copied'
  BY <1>3 DEF RoomTypeOK, OneChangeList, TableFilled, Copied, chatroom, inbox
<1>6. NobodyTwice'
  BY <1>1, <1>3 DEF NobodyTwice
<1>7. ReportedOnce'
  BY <1>2, <1>3, <1>4, RoomReport
<1>8. \A x \in Members : /\ Reports(20001, x)' = Reports(20001, x)
                          /\ \A i \in Reports(20001, x) : log'[i] = log[i]
  <2> SUFFICES ASSUME NEW x \in Members
               PROVE  /\ ReportsIn(log', 20001, x) = ReportsIn(log, 20001, x)
                      /\ \A i \in ReportsIn(log, 20001, x) : log'[i] = log[i]
    BY ReportsNow
  <2>1. ReportsIn(log', 20001, x) = ReportsIn(log, 20001, x)
    BY <1>2, <1>4, ReportsAdded
  <2>2. \A i \in ReportsIn(log, 20001, x) : log'[i] = log[i]
    BY <1>4 DEF Added, ReportsIn
  <2> QED
    BY <2>1, <2>2
<1>9. JoinsAreReal' /\ NoJoinMissed'
  BY <1>3, <1>8 DEF JoinsAreReal, NoJoinMissed, chatroom
<1>10. LeavesCounted'
  <2>1. ASSUME NEW x \in Members
        PROVE  /\ Cardinality(Reports(20002, x)) \in Nat
               /\ Cardinality(Reports(20002, x)') = Cardinality(Reports(20002, x)) + (IF x = m THEN 1 ELSE 0)
    <3>1. Reports(20002, x) = ReportsIn(log, 20002, x) /\ Reports(20002, x)' = ReportsIn(log', 20002, x)
      BY ReportsNow
    <3>2. Cardinality(ReportsIn(log, 20002, x)) \in Nat
      BY ReportsFinite DEF MailTypeOK
    <3>3. Cardinality(ReportsIn(log', 20002, x)) =
            Cardinality(ReportsIn(log, 20002, x)) + (IF x = m THEN 1 ELSE 0)
      <4>1. CASE x = m
        BY <1>2, <1>4, <4>1, ReportsAdded
      <4>2. CASE x # m
        BY <1>2, <1>4, <3>2, <4>2, ReportsAdded
      <4> QED
        BY <4>1, <4>2
    <3> QED
      BY <3>1, <3>2, <3>3
  <2>2. \A g \in Hooks : pc[g] \in {"add", "delete"} => g = h
    BY <1>3 DEF OneChangeList
  <2>3. Leaving(m) /\ ~Leaving(m)'
    BY <1>1, <1>3, <2>2 DEF Leaving
  <2>4. \A x \in Members : x # m => (Leaving(x)' <=> Leaving(x))
    BY <1>1, <1>3 DEF Leaving
  <2> SUFFICES ASSUME NEW x \in Members
               PROVE  Cardinality(Reports(20002, x)') + (IF Leaving(x)' THEN 1 ELSE 0) =
                        Cardinality(Reports(20002, x)) + (IF Leaving(x) THEN 1 ELSE 0)
    BY <1>3 DEF LeavesCounted, chatroom
  <2>5. CASE x = m
    BY <2>1, <2>3, <2>5
  <2>6. CASE x # m
    BY <2>1, <2>4, <2>6
  <2> QED
    BY <2>5, <2>6
<1> QED
  BY <1>5, <1>6, <1>7, <1>9, <1>10

-----------------------------------------------------------------------------
\* A hook that handles no change list leaves what is said of the change lists alone.
LEMMA OtherHook ==
  ASSUME RoomInv, NEW h \in Hooks, pc[h] \notin {"add", "delete"}, pc'[h] \notin {"add", "delete"},
         \A g \in Hooks : g # h => pc'[g] = pc[g],
         UNCHANGED <<addMemberEventMap, addUserList, delelteUserList, joins, registered>>
  PROVE  /\ OneChangeList' /\ TableFilled' /\ NobodyTwice'
         /\ \A m \in Members : Leaving(m)' <=> Leaving(m)
<1> USE DEF RoomInv
<1>1. OneChangeList' /\ NobodyTwice'
  BY DEF OneChangeList, NobodyTwice
<1>2. TableFilled'
  <2>1. \A g \in Hooks : pc[g] = "add" => pc'[g] = "add"
    OBVIOUS
  <2> QED
    BY <2>1 DEF TableFilled
<1>3. \A m \in Members : Leaving(m)' <=> Leaving(m)
  BY DEF Leaving
<1> QED
  BY <1>1, <1>2, <1>3

\* It reports nothing: the reports are as they were.
LEMMA NothingReported ==
  ASSUME RoomInv, NEW h \in Hooks, pc[h] \notin {"add", "delete"}, pc'[h] \notin {"add", "delete"},
         \A g \in Hooks : g # h => pc'[g] = pc[g],
         UNCHANGED <<log, inbox, addMemberEventMap, addUserList, delelteUserList, joins, registered>>,
         UNCHANGED <<room, present, answered>>
  PROVE  /\ OneChangeList' /\ TableFilled' /\ NobodyTwice'
         /\ ReportedOnce' /\ JoinsAreReal' /\ NoJoinMissed' /\ LeavesCounted'
<1>1. OneChangeList' /\ TableFilled' /\ NobodyTwice' /\ \A m \in Members : Leaving(m)' <=> Leaving(m)
  BY OtherHook
<1>2. ReportedOnce' /\ \A m \in Members : /\ Reports(20001, m)' = Reports(20001, m)
                                           /\ Reports(20002, m)' = Reports(20002, m)
  BY Silent
<1>3. JoinsAreReal' /\ NoJoinMissed'
  BY <1>2 DEF RoomInv, JoinsAreReal, NoJoinMissed
<1>4. LeavesCounted'
  BY <1>1, <1>2 DEF RoomInv, LeavesCounted
<1> QED
  BY <1>1, <1>2, <1>3, <1>4

\* A response arrives: it has to report the joins that are registered.
LEMMA DetailBeginRoom ==
  ASSUME RoomInv, NEW h \in Hooks, NEW list \in Lists(Members), DetailBegin(h, list)
  PROVE  RoomInv'
<1> USE DEF RoomInv, DetailBegin
<1>1. /\ pc[h] = "idle" /\ list \in Seq(Members)
      /\ UNCHANGED <<log, inbox, addMemberEventMap, addUserList, delelteUserList, addMemberMsg>>
      /\ UNCHANGED <<joins, room, present, changes, registered, answered>>
      /\ details' \in Nat
      /\ memberList' = [memberList EXCEPT ![h] = list]
      /\ awaited' = [awaited EXCEPT ![h] = registered]
      /\ pc' = [pc EXCEPT ![h] = "lookup"]
  BY ListsAreSeqs DEF RoomTypeOK, queue
<1>2. /\ \A g \in Hooks : pc'[g] = IF g = h THEN "lookup" ELSE pc[g]
      /\ \A g \in Hooks : memberList'[g] = IF g = h THEN list ELSE memberList[g]
      /\ \A g \in Hooks : awaited'[g] = IF g = h THEN registered ELSE awaited[g]
  BY <1>1 DEF RoomTypeOK
<1> HIDE DEF DetailBegin
<1>3. RoomTypeOK'
  BY <1>1, <1>2 DEF RoomTypeOK, inbox
<1>4. Copied'
  <2>1. \A x \in Members : registered[x] <= registered[x]
    BY DEF RoomTypeOK
  <2> QED
    BY <1>1, <1>2, <2>1 DEF Copied
<1>5. /\ OneChangeList' /\ TableFilled' /\ NobodyTwice'
      /\ ReportedOnce' /\ JoinsAreReal' /\ NoJoinMissed' /\ LeavesCounted'
  BY <1>1, <1>2, NothingReported
<1> QED
  BY <1>3, <1>4, <1>5

\* The entry that is copied holds the last join that has been entered.
LEMMA DetailFoundRoom ==
  ASSUME RoomInv, NEW h \in Hooks, DetailFound(h)
  PROVE  RoomInv'
<1> USE DEF RoomInv, DetailFound
<1>1. PICK m \in Members : m = Head(memberList[h])
  BY HeadTailProperties DEF RoomTypeOK
<1>2. /\ pc[h] = "lookup" /\ memberList[h] # << >> /\ addMemberEventMap[m] # 0
      /\ UNCHANGED <<log, inbox, addMemberEventMap, addUserList, delelteUserList, memberList, chatroom>>
      /\ addMemberMsg' = [addMemberMsg EXCEPT ![h] = addMemberEventMap[m]]
      /\ pc' = [pc EXCEPT ![h] = "report"]
  BY <1>1 DEF queue
<1>3. /\ \A g \in Hooks : pc'[g] = IF g = h THEN "report" ELSE pc[g]
      /\ \A g \in Hooks : addMemberMsg'[g] = IF g = h THEN addMemberEventMap[m] ELSE addMemberMsg[g]
  BY <1>2 DEF RoomTypeOK
<1> HIDE DEF DetailFound
<1>4. RoomTypeOK'
  <2>1. addMemberMsg' \in [Hooks -> Nat]
    BY <1>2 DEF RoomTypeOK
  <2> QED
    BY <1>2, <1>3, <2>1 DEF RoomTypeOK, inbox, chatroom
<1>5. Copied'
  <2>1. addMemberEventMap[m] \in 1 .. joins[m] /\ awaited[h][m] <= addMemberEventMap[m]
    <3>1. /\ addMemberEventMap[m] \in Nat /\ joins[m] \in Nat /\ registered[m] \in Nat
          /\ awaited[h][m] \in Nat
      BY DEF RoomTypeOK
    <3>2. /\ awaited[h][m] <= registered[m]
          /\ registered[m] <= addMemberEventMap[m] /\ addMemberEventMap[m] <= joins[m]
      BY DEF Copied, TableFilled
    <3> QED
      BY <1>2, <3>1, <3>2
  <2> QED
    BY <1>1, <1>2, <1>3, <2>1 DEF Copied, chatroom
<1>6. /\ OneChangeList' /\ TableFilled' /\ NobodyTwice'
      /\ ReportedOnce' /\ JoinsAreReal' /\ NoJoinMissed' /\ LeavesCounted'
  BY <1>2, <1>3, NothingReported DEF chatroom
<1> QED
  BY <1>4, <1>5, <1>6

\* Of a member without an entry no join is registered: there is nothing to report.
LEMMA DetailAbsentRoom ==
  ASSUME RoomInv, NEW h \in Hooks, DetailAbsent(h)
  PROVE  RoomInv'
<1> USE DEF RoomInv, DetailAbsent
<1>1. PICK m \in Members : m = Head(memberList[h])
  BY HeadTailProperties DEF RoomTypeOK
<1>2. /\ pc[h] = "lookup" /\ memberList[h] # << >> /\ addMemberEventMap[m] = 0
      /\ UNCHANGED <<log, inbox, addMemberEventMap, addUserList, delelteUserList, addMemberMsg>>
      /\ UNCHANGED <<pc, joins, room, present, changes, details, registered, awaited>>
      /\ answered' = [answered EXCEPT ![m] = IF awaited[h][m] > @ THEN awaited[h][m] ELSE @]
      /\ memberList' = [memberList EXCEPT ![h] = Tail(@)]
  BY <1>1 DEF queue, Answer
<1>3. /\ Tail(memberList[h]) \in Seq(Members)
      /\ \A g \in Hooks : memberList'[g] = IF g = h THEN Tail(memberList[h]) ELSE memberList[g]
  BY <1>2, HeadTailProperties DEF RoomTypeOK
<1> HIDE DEF DetailAbsent
<1>4. UNCHANGED answered
  <2>1. /\ addMemberEventMap[m] \in Nat /\ answered[m] \in Nat /\ registered[m] \in Nat
        /\ awaited[h][m] \in Nat
    BY DEF RoomTypeOK
  <2>2. awaited[h][m] <= registered[m] /\ registered[m] <= addMemberEventMap[m]
    BY DEF Copied, TableFilled
  <2>3. ~(awaited[h][m] > answered[m])
    BY <1>2, <2>1, <2>2
  <2> QED
    BY <1>2, <2>3 DEF RoomTypeOK
<1>5. RoomTypeOK'
  <2>1. memberList' \in [Hooks -> Seq(Members)]
    BY <1>2, <1>3 DEF RoomTypeOK
  <2> QED
    BY <1>2, <1>3, <1>4, <2>1 DEF RoomTypeOK, inbox
<1>6. Copied'
  BY <1>2, <1>3 DEF Copied
<1>7. /\ OneChangeList' /\ TableFilled' /\ NobodyTwice'
      /\ ReportedOnce' /\ JoinsAreReal' /\ NoJoinMissed' /\ LeavesCounted'
  BY <1>2, <1>4, NothingReported
<1> QED
  BY <1>5, <1>6, <1>7

\* The loop over the response is over.
LEMMA DetailReturnRoom ==
  ASSUME RoomInv, NEW h \in Hooks, DetailReturn(h)
  PROVE  RoomInv'
<1> USE DEF RoomInv, DetailReturn
<1>1. /\ pc[h] = "lookup" /\ UNCHANGED <<log, inbox, table, chatroom>>
      /\ pc' = [pc EXCEPT ![h] = "idle"]
  BY DEF queue
<1>2. \A g \in Hooks : pc'[g] = IF g = h THEN "idle" ELSE pc[g]
  BY <1>1 DEF RoomTypeOK
<1>3. RoomTypeOK' /\ Copied'
  BY <1>1, <1>2 DEF RoomTypeOK, Copied, inbox, table, chatroom
<1>4. /\ OneChangeList' /\ TableFilled' /\ NobodyTwice'
      /\ ReportedOnce' /\ JoinsAreReal' /\ NoJoinMissed' /\ LeavesCounted'
  BY <1>1, <1>2, NothingReported DEF table, chatroom
<1> QED
  BY <1>3, <1>4

\* The join whose entry was copied is reported; it is no older than the joins that the
\* response has to report.
LEMMA DetailReportRoom ==
  ASSUME RoomInv, MailTypeOK, NEW h \in Hooks, DetailReport(h)
  PROVE  RoomInv'
<1>1. PICK m \in Members : m = Head(memberList[h]) /\ Tail(memberList[h]) \in Seq(Members)
  BY HeadTailProperties DEF RoomInv, RoomTypeOK, DetailReport
<1>2. PICK msg \in Message :
        /\ msg.msg_type = 20001 /\ msg.about = m /\ msg.join = addMemberMsg[h]
        /\ log' = Append(log, msg)
  <2>1. [msg_type |-> 20001, about |-> m, join |-> addMemberMsg[h]] \in Message
    BY <1>1 DEF Message, RoomInv, RoomTypeOK
  <2> QED
    BY <1>1, <2>1 DEF DetailReport, AddMsg
<1>3. /\ pc[h] = "report"
      /\ UNCHANGED <<inbox, addMemberEventMap, addUserList, delelteUserList, addMemberMsg>>
      /\ UNCHANGED <<joins, room, present, changes, details, registered, awaited>>
      /\ answered' = [answered EXCEPT ![m] = IF awaited[h][m] > @ THEN awaited[h][m] ELSE @]
      /\ memberList' = [memberList EXCEPT ![h] = Tail(@)]
      /\ pc' = [pc EXCEPT ![h] = "lookup"]
  BY <1>1 DEF DetailReport, Answer
<1> USE DEF RoomInv
<1>4. /\ \A g \in Hooks : pc'[g] = IF g = h THEN "lookup" ELSE pc[g]
      /\ \A g \in Hooks : memberList'[g] = IF g = h THEN Tail(memberList[h]) ELSE memberList[g]
      /\ \A x \in Members : answered'[x] = IF x = m /\ awaited[h][m] > answered[m]
                                           THEN awaited[h][m] ELSE answered[x]
  BY <1>3 DEF RoomTypeOK
<1>5. addMemberMsg[h] \in 1 .. joins[m] /\ awaited[h][m] <= addMemberMsg[h]
  BY <1>1, <1>3 DEF Copied
<1>6. Added(msg)
  BY <1>2, AppendAdds
<1>7. RoomTypeOK'
  <2>1. memberList' \in [Hooks -> Seq(Members)] /\ answered' \in [Members -> Nat]
    BY <1>1, <1>3 DEF RoomTypeOK
  <2> QED
    BY <1>3, <1>4, <2>1 DEF RoomTypeOK, inbox
<1>8. Copied'
  BY <1>3, <1>4 DEF Copied
<1>9. /\ OneChangeList' /\ TableFilled' /\ NobodyTwice'
      /\ \A x \in Members : Leaving(x)' <=> Leaving(x)
  BY <1>3, <1>4, OtherHook
<1>10. ReportedOnce'
  BY <1>2, <1>3, <1>6, RoomReport
<1>11. ASSUME NEW x \in Members
       PROVE  Reports(20002, x)' = Reports(20002, x)
  <2>1. ReportsIn(log', 20002, x) = ReportsIn(log, 20002, x)
    BY <1>2, <1>6, ReportsAdded
  <2> QED
    BY <2>1, ReportsNow
<1>12. LeavesCounted'
  BY <1>3, <1>9, <1>11 DEF LeavesCounted
<1>13. ASSUME NEW x \in Members
       PROVE  /\ x = m => ReportsIn(log', 20001, x) = ReportsIn(log, 20001, x) \cup {Len(log) + 1}
              /\ x # m => ReportsIn(log', 20001, x) = ReportsIn(log, 20001, x)
              /\ \A i \in ReportsIn(log, 20001, x) : log'[i] = log[i]
  <2>1. x = m => ReportsIn(log', 20001, x) = ReportsIn(log, 20001, x) \cup {Len(log) + 1}
    BY <1>2, <1>6, ReportsAdded
  <2>2. x # m => ReportsIn(log', 20001, x) = ReportsIn(log, 20001, x)
    BY <1>2, <1>6, ReportsAdded
  <2>3. \A i \in ReportsIn(log, 20001, x) : log'[i] = log[i]
    BY <1>6 DEF Added, ReportsIn
  <2> QED
    BY <2>1, <2>2, <2>3
<1>14. log'[Len(log) + 1].join = addMemberMsg[h]
  BY <1>2, <1>6 DEF Added
<1>15. \A x \in Members : /\ Reports(20001, x) = ReportsIn(log, 20001, x)
                          /\ Reports(20001, x)' = ReportsIn(log', 20001, x)
  BY ReportsNow
<1>16. JoinsAreReal'
  <2>1. \A x \in Members : \A i \in ReportsIn(log, 20001, x) : log[i].join \in 1 .. joins[x]
    BY <1>15 DEF JoinsAreReal
  <2>2. \A x \in Members : \A i \in ReportsIn(log', 20001, x) : log'[i].join \in 1 .. joins[x]
    BY <1>5, <1>13, <1>14, <2>1
  <2> QED
    BY <1>3, <1>15, <2>2 DEF JoinsAreReal
<1>17. NoJoinMissed'
  <2>1. ASSUME NEW x \in Members, answered'[x] > 0
        PROVE  \E i \in ReportsIn(log', 20001, x) : log'[i].join >= answered'[x]
    <3>1. CASE x = m /\ awaited[h][m] > answered[m]
      <4>1. addMemberMsg[h] >= answered'[x] /\ Len(log) + 1 \in ReportsIn(log', 20001, x)
        BY <1>4, <1>5, <1>13, <3>1 DEF RoomTypeOK
      <4> QED
        BY <1>14, <4>1
    <3>2. CASE ~(x = m /\ awaited[h][m] > answered[m])
      <4>1. answered'[x] = answered[x]
        BY <1>4, <3>2
      <4>2. PICK i \in ReportsIn(log, 20001, x) : log[i].join >= answered[x]
        BY <1>15, <2>1, <4>1 DEF NoJoinMissed
      <4> QED
        BY <1>13, <4>1, <4>2
    <3> QED
      BY <3>1, <3>2
  <2> QED
    BY <1>15, <2>1 DEF NoJoinMissed
<1> QED
  BY <1>7, <1>8, <1>9, <1>10, <1>12, <1>16, <1>17

-----------------------------------------------------------------------------
LEMMA UnchangedRoom ==
  ASSUME RoomInv, UNCHANGED <<log, table, pc, chatroom, inbox>>
  PROVE  RoomInv'
<1> USE DEF RoomInv, table, chatroom, inbox
<1>1. RoomTypeOK' /\ OneChangeList' /\ TableFilled' /\ Copied' /\ NobodyTwice'
  BY DEF RoomTypeOK, OneChangeList, TableFilled, Copied, NobodyTwice
<1>2. ReportedOnce' /\ JoinsAreReal' /\ NoJoinMissed' /\ LeavesCounted'
  BY Silent, ReportsKept
<1> QED
  BY <1>1, <1>2

LEMMA ClientRoom ==
  ASSUME NEW c \in Clients, Client(c)
  PROVE  UNCHANGED <<log, table, pc, chatroom, inbox>>
  BY DEF Client, SyncMsg, Reply, ReplyLost, Stop, Start, queue

LEMMA InitRoom == Init => RoomInv
<1> SUFFICES ASSUME Init
             PROVE  RoomInv
  OBVIOUS
<1>1. RoomTypeOK
  BY DEF Init, RoomTypeOK
<1>2. OneChangeList /\ TableFilled /\ Copied
  BY DEF Init, OneChangeList, TableFilled, Copied
<1>3. NobodyTwice /\ ReportedOnce
  BY DEF Init, NobodyTwice, ReportedOnce
<1>4. \A t, x : Reports(t, x) = {}
  BY DEF Init, Reports
<1>5. JoinsAreReal /\ NoJoinMissed
  BY <1>4 DEF Init, JoinsAreReal, NoJoinMissed
<1>6. LeavesCounted
  <2>1. \A m \in Members : ~Leaving(m) /\ joins[m] = 0
    BY DEF Init, Leaving
  <2>2. \A m \in Members : Cardinality(Reports(20002, m)) = 0
    BY <1>4, FS_EmptySet
  <2>3. present = room
    BY DEF Init
  <2> QED
    BY <2>1, <2>2, <2>3 DEF LeavesCounted
<1> QED
  BY <1>1, <1>2, <1>3, <1>5, <1>6 DEF RoomInv

LEMMA NextRoom == RoomInv /\ MailInv /\ [Next]_vars => RoomInv'
<1> SUFFICES ASSUME RoomInv, MailInv, [Next]_vars
             PROVE  RoomInv'
  OBVIOUS
<1>1. MailTypeOK
  BY DEF MailInv
<1>2. ASSUME NEW h \in Hooks, Hook(h)
      PROVE  RoomInv'
  <2>1. ASSUME NEW m \in Inbox, MyAddChatMsg(h, m) \/ MyOnDownloadImageSuccessed(h, m)
        PROVE  RoomInv'
    BY <1>1, <2>1, ChatRoom
  <2>2. ASSUME NEW adds \in Lists(Members), NEW dels \in Lists(Members), ChangeListBegin(h, adds, dels)
        PROVE  RoomInv'
    BY <1>1, <2>2, ChangeListBeginRoom
  <2>3. ASSUME ChangeListAdd(h) \/ ChangeListAdded(h) \/ ChangeListReturn(h)
        PROVE  RoomInv'
    BY <2>3, ChangeListAddRoom, ChangeListAddedRoom, ChangeListReturnRoom
  <2>4. CASE ChangeListDelete(h)
    BY <1>1, <2>4, ChangeListDeleteRoom
  <2>5. ASSUME NEW list \in Lists(Members), DetailBegin(h, list)
        PROVE  RoomInv'
    BY <2>5, DetailBeginRoom
  <2>6. ASSUME DetailFound(h) \/ DetailAbsent(h) \/ DetailReturn(h)
        PROVE  RoomInv'
    BY <2>6, DetailFoundRoom, DetailAbsentRoom, DetailReturnRoom
  <2>7. CASE DetailReport(h)
    BY <1>1, <2>7, DetailReportRoom
  <2> QED
    BY <1>2, <2>1, <2>2, <2>3, <2>4, <2>5, <2>6, <2>7 DEF Hook
<1>3. ASSUME NEW c \in Clients, Client(c)
      PROVE  RoomInv'
  BY <1>3, ClientRoom, UnchangedRoom
<1>4. CASE UNCHANGED vars
  BY <1>4, UnchangedRoom DEF vars, queue
<1> QED
  BY <1>2, <1>3, <1>4 DEF Next

LEMMA SpecInv == Spec => [](RoomInv /\ MailInv)
<1>1. Init => RoomInv /\ MailInv
  BY InitRoom, InitMail
<1>2. RoomInv /\ MailInv /\ [Next]_vars => (RoomInv /\ MailInv)'
  <2>1. RoomInv => RoomTypeOK
    BY DEF RoomInv
  <2> QED
    BY <2>1, NextRoom, NextMail
<1> QED
  BY <1>1, <1>2, PTL DEF Spec

-----------------------------------------------------------------------------
(* What holds of every behaviour *)

\* The variables of hooks, list and clients keep their types.
THEOREM MonitorTypeCorrect == Spec => []TypeOK
<1>1. RoomInv /\ MailInv => TypeOK
  BY DEF RoomInv, MailInv, RoomTypeOK, MailTypeOK, Message, TypeOK
<1> QED
  BY <1>1, SpecInv, PTL

\* Between the hook that adds a message and the client that receives it no message
\* vanishes, whatever threads add and poll and whoever dies: it is in the list, in a
\* response, received, in a response that was lost, or under Cap newer messages.
THEOREM MonitorAccounted == Spec => []Accounted
<1>1. MailInv => Accounted
  BY DEF MailInv
<1> QED
  BY <1>1, SpecInv, PTL

\* Once the details of a member have been handled, every join whose change list had been
\* handled before is reported, however change lists and responses interleave in the table.
THEOREM MonitorNoJoinMissed == Spec => []NoJoinMissed
<1>1. RoomInv => NoJoinMissed
  BY DEF RoomInv
<1> QED
  BY <1>1, SpecInv, PTL

\* Every report of a join is of a join that took place, also when its entry was copied out
\* of the table before others were entered.
THEOREM MonitorJoinsAreReal == Spec => []JoinsAreReal
<1>1. RoomInv => JoinsAreReal
  BY DEF RoomInv
<1> QED
  BY <1>1, SpecInv, PTL

\* When no change list is being handled, each member's departures have been reported, each
\* of them once: also of those who were in the room before the DLL.
THEOREM MonitorLeavesReported == Spec => []LeavesReported
<1>1. ASSUME RoomInv, MailInv, \A h \in Hooks : pc[h] \notin {"add", "delete"}, NEW m \in Members
      PROVE  Cardinality(Reports(20002, m)) =
               joins[m] + (IF m \in present THEN 1 ELSE 0) - (IF m \in room THEN 1 ELSE 0)
  <2>1. ~Leaving(m)
    BY <1>1 DEF Leaving
  <2>2. Cardinality(Reports(20002, m)) + (IF Leaving(m) THEN 1 ELSE 0) =
          joins[m] + (IF m \in present THEN 1 ELSE 0) - (IF m \in room THEN 1 ELSE 0)
    BY <1>1 DEF RoomInv, LeavesCounted
  <2>3. Cardinality(Reports(20002, m)) \in Nat
    BY <1>1, ReportsFinite, ReportsNow DEF MailInv, MailTypeOK
  <2> QED
    BY <2>1, <2>2, <2>3
<1>2. RoomInv /\ MailInv => LeavesReported
  BY <1>1 DEF LeavesReported
<1> QED
  BY <1>2, SpecInv, PTL

\* A client receives in order; a message of WeChat reaches one client once, or is lost
\* once, and never both.
THEOREM MonitorDeliveredOnceInOrder == Spec => []DeliveredOnceInOrder
<1>1. ASSUME RoomInv, MailInv, NEW m \in Inbox
      PROVE  Cardinality({d \in Received : log[d[2]].about = m.id})
               + Cardinality({i \in lost : log[i].about = m.id}) <= 1
  <2> DEFINE R == {d \in Received : log[d[2]].about = m.id}
             L == {i \in lost : log[i].about = m.id}
  <2>1. \A i, j \in 1 .. Len(log) : log[i].about = m.id /\ log[j].about = m.id => i = j
    BY <1>1 DEF RoomInv, ReportedOnce
  <2>2. \A i, j \in L : i = j
    BY <1>1, <2>1 DEF MailInv, MailTypeOK
  <2>3. \A d \in R : /\ d = <<d[1], d[2]>> /\ d[1] \in Clients /\ d[2] \in 1 .. Len(log)
                     /\ d[2] \in Listed(delivered[d[1]])
                     /\ log[d[2]].about = m.id
    BY DEF Received
  <2>4. \A d, e \in R : d = e
    <3>1. \A d, e \in R : d[2] = e[2]
      BY <2>1, <2>3
    <3>2. \A c, d \in Clients : \A i \in Listed(delivered[c]) : i \in Listed(delivered[d]) => c = d
      BY <1>1 DEF MailInv, OneWay, Listed
    <3>3. \A d, e \in R : d[1] = e[1]
      BY <2>3, <3>1, <3>2
    <3> QED
      BY <2>3, <3>1, <3>3
  <2>5. \A d \in R : L = {}
    <3>1. \A c \in Clients : \A i \in Listed(delivered[c]) : i \notin lost
      BY <1>1 DEF MailInv, OneWay, Listed
    <3>2. \A d \in R, i \in L : d[2] = i
      BY <1>1, <2>1, <2>3 DEF MailInv, MailTypeOK
    <3> QED
      BY <2>3, <3>1, <3>2
  <2> HIDE DEF R, L
  <2>6. R = {} \/ \E d : R = {d}
    BY <2>4
  <2>7. L = {} \/ \E i : L = {i}
    BY <2>2
  <2>8. Cardinality({}) = 0 /\ \A x : Cardinality({x}) = 1
    BY FS_EmptySet, FS_Singleton
  <2>9. R = {} \/ L = {}
    BY <2>5
  <2>10. Cardinality(R) \in {0, 1} /\ Cardinality(L) \in {0, 1}
    BY <2>6, <2>7, <2>8
  <2>11. Cardinality(R) = 0 \/ Cardinality(L) = 0
    BY <2>8, <2>9
  <2> QED
    BY <2>10, <2>11 DEF R, L
<1>2. RoomInv /\ MailInv => DeliveredOnceInOrder
  <2> SUFFICES ASSUME RoomInv, MailInv
               PROVE  DeliveredOnceInOrder
    OBVIOUS
  <2>1. \A c \in Clients : \A i, j \in DOMAIN delivered[c] :
          i < j => delivered[c][i] < delivered[c][j]
    BY DEF MailInv, InOrder
  <2> QED
    BY <1>1, <2>1 DEF DeliveredOnceInOrder
<1> QED
  BY <1>2, SpecInv, PTL

-----------------------------------------------------------------------------
(* The list of the messages *)

\* A step of a hook or a client is a push, a pop or no step of the queue.
LEMMA NextQueue == RoomTypeOK /\ [Next]_vars => [Queue!QNext]_(Queue!qvars)
<1> SUFFICES ASSUME RoomTypeOK, [Next]_vars
             PROVE  [Queue!QNext]_(Queue!qvars)
  OBVIOUS
<1>1. ASSUME UNCHANGED queue
      PROVE  UNCHANGED Queue!qvars
  BY <1>1 DEF queue, Queue!qvars
<1>2. ASSUME NEW h \in Hooks, Hook(h)
      PROVE  UNCHANGED queue \/ Queue!Push
  BY <1>2, HookMail DEF AddMsg
<1>3. ASSUME NEW c \in Clients, Client(c)
      PROVE  UNCHANGED queue \/ Queue!Pop(c)
  BY <1>3 DEF Client, SyncMsg, Reply, ReplyLost, Stop, Start
<1>4. ASSUME UNCHANGED vars
      PROVE  UNCHANGED queue
  BY <1>4 DEF vars
<1> QED
  BY <1>1, <1>2, <1>3, <1>4 DEF Next, Queue!QNext

\* Whatever hooks and clients do, the list of the messages is the queue that the statements
\* of pushMsg and popMsg implement under their mutex: WeChat's callbacks push, the workers
\* that serve /syncMsg pop, and nothing else touches it.
THEOREM MonitorUsesQueue == Spec => Queue!QSpec
<1>1. Init => Queue!QInit
  BY DEF Init, Queue!QInit
<1>2. RoomInv => RoomTypeOK
  BY DEF RoomInv
<1> QED
  BY <1>1, <1>2, SpecInv, NextQueue, PTL DEF Spec, Queue!QSpec

=============================================================================
