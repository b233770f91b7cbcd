-------------------------- MODULE MCHttpConnection --------------------------
(***************************************************************************)
(* A connection with three requests for TLC.  The bodies of sendTextMsgEx  *)
(* have every kind of part, in every place where it makes a difference;    *)
(* the images have every length up to two groups of three and one byte,    *)
(* with bytes whose bits differ.                                           *)
(***************************************************************************)
EXTENDS HttpConnection

CONSTANTS alice, bob, carol, hello, empty, everyone, everybody, nick

MCValues == {alice, bob, carol, hello, empty, everyone, everybody, nick}

\* alice has a nickname, bob has none, carol is no contact.
MCContacts == [u \in {alice, bob} |-> IF u = alice THEN nick ELSE empty]

TextOf(v) == [type |-> 0, value |-> v, nickName |-> empty, whole |-> TRUE]
AtOf(u, name) == [type |-> 1, value |-> u, nickName |-> name, whole |-> TRUE]
Unknown == [type |-> 2, value |-> empty, nickName |-> empty, whole |-> TRUE]
Broken == [type |-> 0, value |-> empty, nickName |-> empty, whole |-> FALSE]

Req(path, close) == [path |-> path, close |-> close]

MCParts ==
  {TextOf(hello), TextOf(empty), AtOf(alice, hello), AtOf(alice, empty), AtOf(bob, empty),
   AtOf(carol, empty), AtOf(everyone, empty), AtOf(empty, empty), Unknown, Broken}

MCLists ==
  {<< >>} \cup {<<p>> : p \in MCParts}
    \cup {<<p, q>> : p \in MCParts, q \in {TextOf(hello), AtOf(carol, empty), Broken}}
    \cup {<<AtOf(bob, hello), p, AtOf(alice, empty)>> : p \in MCParts}

MCBodies ==
  {[readable |-> TRUE, toWxid |-> carol, parts |-> l] : l \in MCLists}
    \cup {[readable |-> TRUE, toWxid |-> empty, parts |-> <<TextOf(hello)>>],
          [readable |-> FALSE, toWxid |-> empty, parts |-> << >>]}

\* Bodies that outgrow the list's first space.
MCGrowing ==
  {[readable |-> TRUE, toWxid |-> carol,
    parts |-> <<AtOf(alice, empty), AtOf(bob, hello), AtOf(carol, empty)>>]}

MCTextOnly == {Req("sendTextMsgEx", FALSE)}

MCBytes == {0, 27, 228, 255}

MCImages ==
  UNION {[1 .. k -> MCBytes] : k \in 0 .. 2}
    \cup {<<a, b, 228, 27, c>> : a, b, c \in {27, 228}}
    \cup {<<a, 255, b>> : a, b \in MCBytes} \cup {<<a, 0, 27, b>> : a, b \in MCBytes}
    \cup {<<1, 2, 4, 8, 16, 32>>, <<254, 253, 251, 247, 239, 223, 191>>}

MCRequests ==
  {Req("syncMsg", FALSE), Req("getLoginQRCode", TRUE), Req("sendTextMsgEx", FALSE),
   Req("unknown", FALSE)}
=============================================================================
