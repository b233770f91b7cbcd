-------------------------------- MODULE Base64 --------------------------------
(***************************************************************************)
(* base64_encode (public/Public.cpp), which Api_GetgetLoginQRCode calls    *)
(* with the image of the QR code.                                          *)
(*                                                                         *)
(* The result is resized first and then written through an index, without  *)
(* a check: that the index stays inside, and that the digits are the right *)
(* ones, is the concern.  A digit stands for the character that the table  *)
(* has for it, Pad for '=' and Unset for the NUL that resize leaves.       *)
(***************************************************************************)
EXTENDS Integers, Sequences

CONSTANT Images   \* the byte sequences that are encoded

Byte == 0 .. 255

ASSUME Base64Assumption == Images \subseteq Seq(Byte)

Pad == 64
Unset == 65

VARIABLES
  encPc,   \* "idle", in the "loop", at the "tail" switch, "done"
  bytes,   \* the argument
  pos,     \* n, the index of the loop
  s,       \* the state of the switch
  len,     \* Len, the index of the next digit
  lastC,   \* the byte before
  digits   \* the result

encVars == <<encPc, bytes, pos, s, len, lastC, digits>>

EncInit ==
  /\ encPc = "idle"
  /\ bytes = << >>
  /\ pos = 0
  /\ s = 0
  /\ len = 0
  /\ lastC = 0
  /\ digits = << >>

-----------------------------------------------------------------------------
\* What resize asks for.
Size(image) == 4 * ((Len(image) + 2) \div 3)

\* The result after ds have been written from index len on.
Written(ds) == [i \in DOMAIN digits |->
                  IF i > len /\ i <= len + Len(ds) THEN ds[i - len] ELSE digits[i]]

\* The function is called, and resizes its result.
Encode(image) ==
  /\ encPc = "idle"
  /\ encPc' = "loop"
  /\ bytes' = image
  /\ digits' = [i \in 1 .. Size(image) |-> Unset]
  /\ UNCHANGED <<pos, s, len, lastC>>

C == bytes[pos + 1]

\* The digits that state s writes for byte C.
TurnDigits ==
  CASE s = 0 -> <<C \div 4>>
    [] s = 1 -> <<(lastC % 4) * 16 + C \div 16>>
    [] s = 2 -> <<(lastC % 16) * 4 + C \div 64, C % 64>>

\* A turn of the loop.
Turn ==
  /\ encPc = "loop"
  /\ pos < Len(bytes)
  /\ digits' = Written(TurnDigits)
  /\ len' = len + Len(TurnDigits)
  /\ s' = (s + 1) % 3
  /\ lastC' = C
  /\ pos' = pos + 1
  /\ UNCHANGED <<encPc, bytes>>

LoopEnds ==
  /\ encPc = "loop"
  /\ pos = Len(bytes)
  /\ encPc' = "tail"
  /\ UNCHANGED <<bytes, pos, s, len, lastC, digits>>

\* Mutant: the last digit takes the high bits of the last byte.
TailDigitsHigh ==
  CASE s = 0 -> << >>
    [] s = 1 -> <<lastC \div 16, Pad, Pad>>
    [] s = 2 -> <<lastC \div 4, Pad>>

\* What the switch after the loop writes.
TailDigits ==
  CASE s = 0 -> << >>
    [] s = 1 -> <<(lastC % 4) * 16, Pad, Pad>>
    [] s = 2 -> <<(lastC % 16) * 4, Pad>>

Tail64 ==
  /\ encPc = "tail"
  /\ digits' = Written(TailDigits)
  /\ len' = len + Len(TailDigits)
  /\ encPc' = "done"
  /\ UNCHANGED <<bytes, pos, s, lastC>>

EncStep == Turn \/ LoopEnds \/ Tail64

\* The next call has locals of its own.
EncReset ==
  /\ encPc = "done"
  /\ encPc' = "idle"
  /\ bytes' = << >>
  /\ pos' = 0
  /\ s' = 0
  /\ len' = 0
  /\ lastC' = 0
  /\ digits' = << >>

EncNext == (\E image \in Images : Encode(image)) \/ EncStep \/ EncReset

EncSpec == EncInit /\ [][EncNext]_encVars

-----------------------------------------------------------------------------
(* Properties *)

\* Every variable has its type.
EncTypeOK ==
  /\ encPc \in {"idle", "loop", "tail", "done"}
  /\ bytes \in Seq(Byte)
  /\ pos \in 0 .. Len(bytes)
  /\ s \in 0 .. 2
  /\ len \in Nat
  /\ lastC \in Byte
  /\ digits \in Seq(0 .. Unset)

\* No write goes past the end of the resized result.
StaysInside == len <= Len(digits)

\* The k-th group of three bytes as one number, with zeros behind the last byte.
ByteAt(image, i) == IF i <= Len(image) THEN image[i] ELSE 0
Group(image, k) ==
  65536 * ByteAt(image, 3 * k + 1) + 256 * ByteAt(image, 3 * k + 2) + ByteAt(image, 3 * k + 3)

\* RFC 4648: four digits of six bits to a group, digits without a byte are padding.
Reference(image) ==
  [i \in 1 .. Size(image) |->
     LET k == (i - 1) \div 4
         j == (i - 1) % 4
     IN  IF 3 * k + j > Len(image) THEN Pad
         ELSE (Group(image, k) \div <<262144, 4096, 64, 1>>[j + 1]) % 64]

\* The image that the client gets is the one that was encoded, at every length: no
\* digit is written past the end, left unset, or taken from the wrong bits.
EncodesRight ==
  /\ StaysInside
  /\ encPc = "done" => len = Len(digits) /\ digits = Reference(bytes)
=============================================================================
