------------------------------- MODULE SendText -------------------------------
(***************************************************************************)
(* Api_sendTextMsgEx (ApiServer.cpp): one text is put together from the    *)
(* parts of msg_list, and the wxids it mentions go into a list of WeChat's *)
(* strings.  The list is a mystl::vector of mmStringX (WeChat/common.cpp), *)
(* whose elements own buffers on the heap.                                 *)
(*                                                                         *)
(* The concern is the heap: who owns which buffer when the list is handed  *)
(* to WeChat, when the handler returns, and when it throws half way.       *)
(* A text, a wxid and a nickname are values; what a string shows is what   *)
(* its buffer holds.                                                       *)
(***************************************************************************)
EXTENDS Integers, Sequences

LOCAL INSTANCE SequencesExt
LOCAL INSTANCE FiniteSetsExt

CONSTANTS
  Values,        \* texts, wxids and nicknames
  Empty,         \* the empty one among them
  Everyone,      \* L"notify@all"
  EveryoneName,  \* the name that it is shown by
  Contacts,      \* WeChat's contact table: the nicknames of the wxids that it has
  Bodies,        \* the request bodies: [readable, toWxid, parts]
  Freed,         \* what a freed buffer shows
  FirstCap       \* the first capacity that a vector gets: 16 in the code

\* A part of type 0 is the text value; one of type 1 mentions the wxid value under a
\* nickname; others are passed over.  A part that is not whole lacks a field.
Part == [type : Nat, value : Values, nickName : Values, whole : BOOLEAN]

\* The name that stands for everyone is a literal of the code and not empty.
ASSUME SendTextAssumption ==
  /\ {Empty, Everyone, EveryoneName} \subseteq Values
  /\ EveryoneName # Empty
  /\ DOMAIN Contacts \subseteq Values
  /\ \A u \in DOMAIN Contacts : Contacts[u] \in Values
  /\ \A b \in Bodies : /\ b.readable \in BOOLEAN
                       /\ b.toWxid \in Values
                       /\ b.parts \in Seq(Part)
  /\ FirstCap \in Nat \ {0}

VARIABLES
  textPc,        \* the handler's statement
  body,          \* req.body
  n,             \* index of the part under way
  msgContent,    \* the text so far
  toWxid, mmStrAtUser, sendMsg,  \* the buffers of these strings, 0 if none
  atUserList,    \* the buffers of the list's elements
  capacity,      \* of the list
  heap,          \* what every live buffer holds
  allocated,     \* number of buffers allocated so far; a buffer is its number
  badFree,       \* history: has a buffer been freed that was not live?
  sent           \* history: the messages that WeChat was told to send

strings == <<toWxid, mmStrAtUser, sendMsg>>
list == <<atUserList, capacity>>
memory == <<heap, allocated, badFree>>
textVars == <<textPc, body, n, msgContent, strings, list, memory, sent>>

NoBody == [readable |-> FALSE, toWxid |-> Empty, parts |-> << >>]

TextInit ==
  /\ textPc = "idle"
  /\ body = NoBody
  /\ n = 1
  /\ msgContent = << >>
  /\ toWxid = 0 /\ mmStrAtUser = 0 /\ sendMsg = 0
  /\ atUserList = << >> /\ capacity = 0
  /\ heap = << >> /\ allocated = 0 /\ badFree = FALSE
  /\ sent = << >>

-----------------------------------------------------------------------------
(* Strings and the heap *)

Live == DOMAIN heap

\* What a string with value v shows.
Characters(v) == IF v = Empty THEN << >> ELSE <<v>>

\* The buffer of the next string to hold content: WeChat allocates it in assign, new
\* in the copying constructor; an empty string has none.
Fresh(content) == IF content = << >> THEN 0 ELSE allocated + 1

Allocate(content) ==
  IF content = << >>
  THEN UNCHANGED <<heap, allocated>>
  ELSE /\ allocated' = allocated + 1
       /\ heap' = [b \in Live \cup {allocated + 1} |-> IF b \in Live THEN heap[b] ELSE content]

\* The destructors of the strings that have these buffers run.
Destroy(buffers) ==
  LET owners(b) == {i \in DOMAIN buffers : buffers[i] = b}
      freed == {buffers[i] : i \in DOMAIN buffers} \ {0}
  IN  /\ heap' = [b \in Live \ freed |-> heap[b]]
      /\ badFree' = \/ badFree
                    \/ \E b \in freed : b \notin Live \/ \E i, j \in owners(b) : i # j

\* What a string shows; nothing is known of a buffer that has been freed.
Shows(b) == IF b = 0 THEN << >> ELSE IF b \in Live THEN heap[b] ELSE <<Freed>>

-----------------------------------------------------------------------------
(* The handler *)

NextPart == body.parts[n]

AtWork == textPc = "loop" /\ n <= Len(body.parts)

\* The handler is called.
Begin(b) ==
  /\ textPc = "idle"
  /\ textPc' = "parse"
  /\ body' = b
  /\ UNCHANGED <<n, msgContent, strings, list, memory, sent>>

\* The body is not JSON, or names no receiver: an exception before any string.
ParseThrows ==
  /\ textPc = "parse"
  /\ ~body.readable
  /\ textPc' = "throw"
  /\ UNCHANGED <<body, n, msgContent, strings, list, memory, sent>>

\* toWxid.assignUTF8.
Parse ==
  /\ textPc = "parse"
  /\ body.readable
  /\ textPc' = "loop"
  /\ Allocate(Characters(body.toWxid))
  /\ toWxid' = Fresh(Characters(body.toWxid))
  /\ UNCHANGED <<body, n, msgContent, mmStrAtUser, sendMsg, list, badFree, sent>>

\* A part lacks one of its fields: the conversion throws.
PartThrows ==
  /\ AtWork
  /\ ~NextPart.whole
  /\ textPc' = "throw"
  /\ UNCHANGED <<body, n, msgContent, strings, list, memory, sent>>

\* A part of text is appended, one of another type passed over.
TextPart ==
  /\ AtWork
  /\ NextPart.whole
  /\ NextPart.type # 1
  /\ msgContent' = IF NextPart.type = 0
                   THEN msgContent \o Characters(NextPart.value) ELSE msgContent
  /\ n' = n + 1
  /\ UNCHANGED <<textPc, body, strings, list, memory, sent>>

\* ContactModule::GetContactInfoDynamic: who is not a contact, or has no nickname,
\* is called by the wxid.  Its own strings are gone when it returns.
GetContactInfoDynamic(wxid) ==
  IF wxid \in DOMAIN Contacts /\ Contacts[wxid] # Empty THEN Contacts[wxid] ELSE wxid

\* The name after the @.
NickName(part) ==
  IF part.value = Everyone THEN EveryoneName
  ELSE IF part.nickName = Empty THEN GetContactInfoDynamic(part.value)
  ELSE part.nickName

\* A user is mentioned: the name is appended, and mmStrAtUser is assigned.
AtUser ==
  /\ AtWork
  /\ NextPart.whole
  /\ NextPart.type = 1
  /\ msgContent' = msgContent \o <<"@">> \o Characters(NickName(NextPart))
  /\ Allocate(Characters(NextPart.value))
  /\ mmStrAtUser' = Fresh(Characters(NextPart.value))
  /\ textPc' = "push"
  /\ UNCHANGED <<body, n, toWxid, sendMsg, list, badFree, sent>>

\* Mutant: no copying constructor, the element takes over the pushed string's buffer.
PushBackShallow ==
  /\ textPc = "push"
  /\ Len(atUserList) < capacity
  /\ atUserList' = Append(atUserList, mmStrAtUser)
  /\ textPc' = "drop"
  /\ UNCHANGED <<body, n, msgContent, strings, capacity, memory, sent>>

\* push_back with room: the string is copied into the list.
PushBack ==
  /\ textPc = "push"
  /\ Len(atUserList) < capacity
  /\ Allocate(Shows(mmStrAtUser))
  /\ atUserList' = Append(atUserList, Fresh(Shows(mmStrAtUser)))
  /\ textPc' = "drop"
  /\ UNCHANGED <<body, n, msgContent, strings, capacity, badFree, sent>>

\* A vector has no space before its first element, and half as much again when full.
get_new_cap ==
  IF capacity = 0 THEN FirstCap ELSE Max({capacity + capacity \div 2, capacity + 1})

\* reallocate_insert.  mmStringX has no assignment of its own, so that
\* uninitialized_move copies the elements byte by byte, pointers included; then
\* destroy_and_recover destroys the old elements, and the buffers with them.
Grow ==
  LET value == Shows(mmStrAtUser)
      new == Fresh(value)
      freed == {atUserList[i] : i \in DOMAIN atUserList} \ {0}
  IN  /\ textPc = "push"
      /\ Len(atUserList) = capacity
      /\ capacity' = get_new_cap
      /\ atUserList' = Append(atUserList, new)
      /\ allocated' = IF new = 0 THEN allocated ELSE new
      /\ heap' = [b \in (Live \ freed) \cup ({new} \ {0}) |->
                    IF b = new THEN value ELSE heap[b]]
      /\ badFree' = (badFree \/ ~(freed \subseteq Live))
      /\ textPc' = "drop"
      /\ UNCHANGED <<body, n, msgContent, strings, sent>>

\* The block ends: mmStrAtUser is destroyed.
DropAtUser ==
  /\ textPc = "drop"
  /\ Destroy(<<mmStrAtUser>>)
  /\ mmStrAtUser' = 0
  /\ n' = n + 1
  /\ textPc' = "loop"
  /\ UNCHANGED <<body, msgContent, toWxid, sendMsg, list, allocated, sent>>

\* All parts are done: sendMsg is assigned.
AssignSendMsg ==
  /\ textPc = "loop"
  /\ n > Len(body.parts)
  /\ Allocate(msgContent)
  /\ sendMsg' = Fresh(msgContent)
  /\ textPc' = "send"
  /\ UNCHANGED <<body, n, msgContent, toWxid, mmStrAtUser, list, badFree, sent>>

\* WeChat is called and reads its arguments.
Send ==
  /\ textPc = "send"
  /\ sent' = Append(sent, [to |-> Shows(toWxid), text |-> Shows(sendMsg),
                           at |-> [i \in DOMAIN atUserList |-> Shows(atUserList[i])]])
  /\ textPc' = "return"
  /\ UNCHANGED <<body, n, msgContent, strings, list, memory>>

\* Mutant: an exception leaves the list behind.
UnwindKeepsList ==
  /\ textPc \in {"return", "throw"}
  /\ Destroy(IF textPc = "throw" THEN <<toWxid>> ELSE <<sendMsg>> \o atUserList \o <<toWxid>>)
  /\ toWxid' = 0 /\ sendMsg' = 0 /\ atUserList' = << >>
  /\ textPc' = IF textPc = "throw" THEN "thrown" ELSE "done"
  /\ UNCHANGED <<body, n, msgContent, mmStrAtUser, capacity, allocated, sent>>

\* The handler returns, or an exception leaves it: its strings are destroyed.
Unwind ==
  /\ textPc \in {"return", "throw"}
  /\ Destroy(<<sendMsg>> \o atUserList \o <<toWxid>>)
  /\ toWxid' = 0 /\ sendMsg' = 0 /\ atUserList' = << >>
  /\ textPc' = IF textPc = "throw" THEN "thrown" ELSE "done"
  /\ UNCHANGED <<body, n, msgContent, mmStrAtUser, capacity, allocated, sent>>

TextStep ==
  \/ ParseThrows \/ Parse \/ PartThrows \/ TextPart
  \/ AtUser \/ PushBack \/ Grow \/ DropAtUser
  \/ AssignSendMsg \/ Send \/ Unwind

TextReturned == textPc \in {"done", "thrown"}

\* The next call has locals of its own.
TextReset ==
  /\ TextReturned
  /\ textPc' = "idle"
  /\ body' = NoBody
  /\ n' = 1
  /\ msgContent' = << >>
  /\ capacity' = 0
  /\ heap' = << >> /\ allocated' = 0 /\ badFree' = FALSE
  /\ sent' = << >>
  /\ UNCHANGED <<strings, atUserList>>

TextNext == (\E b \in Bodies : Begin(b)) \/ TextStep \/ TextReset

TextSpec == TextInit /\ [][TextNext]_textVars

-----------------------------------------------------------------------------
(* Properties *)

Contents == Seq(Values \cup {"@", Freed})

\* Every variable has its type.
TextTypeOK ==
  /\ textPc \in {"idle", "parse", "loop", "push", "drop", "send", "return", "throw",
                 "done", "thrown"}
  /\ body \in Bodies \cup {NoBody}
  /\ n \in 1 .. Len(body.parts) + 1
  /\ msgContent \in Contents
  /\ {toWxid, mmStrAtUser, sendMsg} \subseteq 0 .. allocated
  /\ atUserList \in Seq(0 .. allocated)
  /\ capacity \in Nat
  /\ allocated \in Nat
  /\ Live \subseteq 1 .. allocated
  /\ \A b \in Live : heap[b] \in Contents
  /\ badFree \in BOOLEAN
  /\ sent \in Seq([to : Contents, text : Contents, at : Seq(Contents)])

\* The wxids that a body mentions, in their order.
Mentions(b) ==
  FlattenSeq([i \in DOMAIN b.parts |-> IF b.parts[i].type = 1 THEN <<b.parts[i].value>> ELSE << >>])

\* Does the list outgrow its first space?
Grows == Len(Mentions(body)) > FirstCap

\* The name that a reader should see: the one given, or the contact's, or the wxid.
Name(p) ==
  LET names == FlattenSeq(<<Characters(p.nickName),
                            IF p.value \in DOMAIN Contacts THEN Characters(Contacts[p.value]) ELSE << >>,
                            Characters(p.value)>>)
  IN  IF p.value = Everyone THEN <<EveryoneName>> ELSE IF names = << >> THEN << >> ELSE <<Head(names)>>

Reads(p) ==
  CASE p.type = 0 -> Characters(p.value)
    [] p.type = 1 -> <<"@">> \o Name(p)
    [] OTHER -> << >>

\* WeChat is told to send, once, the receiver, the text of all parts in their order
\* with nobody's name blank, and as many wxids as the text mentions, in that order,
\* each in a buffer that is still the list's.  A request with a part that cannot be
\* read sends nothing, also if the parts before it could.
SendsWhatWasAsked ==
  LET mentions == Mentions(body)
  IN  /\ textPc \in {"return", "done"} /\ ~Grows =>
           sent = <<[to |-> Characters(body.toWxid),
                     text |-> FlattenSeq([i \in DOMAIN body.parts |-> Reads(body.parts[i])]),
                     at |-> [i \in DOMAIN mentions |-> Characters(mentions[i])]]>>
      /\ textPc \in {"throw", "thrown"} => sent = << >>

\* When the handler is left, by return or by an exception, each of its buffers has
\* been freed, and freed once.
StringsFreed == TextReturned /\ ~Grows => Live = {} /\ ~badFree

\* An element of the list owns its buffer at any length of the list.
ListOwnsItsStrings ==
  \A i \in DOMAIN atUserList :
    atUserList[i] # 0 =>
      /\ atUserList[i] \in Live
      /\ \A j \in DOMAIN atUserList : atUserList[i] = atUserList[j] => i = j
=============================================================================
