------------------------------ MODULE HttpProofs ------------------------------
(***************************************************************************)
(* A connection to the HTTP server and the two handlers that it runs in    *)
(* detail, for every client, body, image and limit.                        *)
(*                                                                         *)
(* The handlers have invariants of their own, EncInv and TextInv, which    *)
(* hold of whatever calls them.  HttpInv is the connection's: HandlerInv   *)
(* says which handler is at work, StreamInv speaks of the stream of parts  *)
(* from what has been read to what the client has yet to send, as one      *)
(* sequence, so that moving a part along it changes nothing.  TakenInv is  *)
(* what the refinement of Serve adds.                                      *)
(***************************************************************************)
EXTENDS HttpConnection, SequenceTheorems, TLAPS

LOCAL INSTANCE SequencesExt
LOCAL INSTANCE FiniteSetsExt

Order == INSTANCE WellFoundedInduction

-----------------------------------------------------------------------------
(* base64_encode *)

\* The i-th digit of the encoding of image.
Digit(image, i) ==
  LET k == (i - 1) \div 4
      j == (i - 1) % 4
  IN  IF 3 * k + j > Len(image) THEN Pad
      ELSE (Group(image, k) \div <<262144, 4096, 64, 1>>[j + 1]) % 64

\* The index of the next digit follows from the index of the next byte; what has been
\* written is right: a digit is written when all the bytes that it is made of are known.
EncInv ==
  /\ EncTypeOK
  /\ encPc = "idle" => pos = 0 /\ len = 0
  /\ encPc # "idle" => Len(digits) = Size(bytes)
  /\ s = pos % 3
  /\ pos > 0 => lastC = bytes[pos]
  /\ encPc # "done" => 3 * len = 4 * pos - s
  /\ encPc \in {"tail", "done"} => pos = Len(bytes)
  /\ encPc = "done" => len = Len(digits)
  /\ len <= Len(digits)
  /\ \A i \in 1 .. len : digits[i] = Digit(bytes, i)

\* The second digit of six bits of a number of 24 bits.  The provers find the facts on
\* it when its arithmetic is out of sight.
Joined(high, mid, low) == 262144 * high + 4096 * mid + low
Second(g) == (g \div 4096) % 64
SixBits == 0 .. 63
TwelveBits == 0 .. 4095

LEMMA SecondDigit ==
  ASSUME NEW high \in SixBits, NEW mid \in SixBits, NEW low \in TwelveBits
  PROVE  Second(Joined(high, mid, low)) = mid
<1>1. Joined(high, mid, low) \div 4096 = 64 * high + mid
  BY DEF Joined, SixBits, TwelveBits
<1>2. (64 * high + mid) % 64 = mid
  BY DEF SixBits
<1> QED
  BY <1>1, <1>2 DEF Second

\* The four digits of a group of three bytes.
LEMMA GroupDigits ==
  ASSUME NEW a \in Byte, NEW b \in Byte, NEW c \in Byte, NEW g, g = 65536 * a + 256 * b + c
  PROVE  /\ (g \div 262144) % 64 = a \div 4
         /\ (g \div 4096) % 64 = (a % 4) * 16 + b \div 16
         /\ (g \div 64) % 64 = (b % 16) * 4 + c \div 64
         /\ (g \div 1) % 64 = c % 64
<1>1. PICK a1 \in 0 .. 63, a0 \in 0 .. 3 : a = 4 * a1 + a0
  BY DEF Byte
<1>2. PICK b1 \in 0 .. 15, b0 \in 0 .. 15 : b = 16 * b1 + b0
  BY DEF Byte
<1>3. PICK c1 \in 0 .. 3, c0 \in 0 .. 63 : c = 64 * c1 + c0
  BY DEF Byte
<1>4. g = 262144 * a1 + 4096 * (16 * a0 + b1) + 64 * (4 * b0 + c1) + c0
  BY <1>1, <1>2, <1>3
<1>5. /\ a \div 4 = a1 /\ a % 4 = a0 /\ b \div 16 = b1 /\ b % 16 = b0
      /\ c \div 64 = c1 /\ c % 64 = c0
  BY <1>1, <1>2, <1>3
<1>6. (g \div 262144) % 64 = a1
  BY <1>4
<1>7. (g \div 4096) % 64 = 16 * a0 + b1
  <2> DEFINE mid == 16 * a0 + b1
             lo == 64 * (4 * b0 + c1) + c0
  <2>1. a1 \in SixBits /\ mid \in SixBits /\ lo \in TwelveBits
    BY DEF SixBits, TwelveBits
  <2>2. g = Joined(a1, mid, lo)
    BY <1>4 DEF Joined
  <2> HIDE DEF mid, lo
  <2>3. Second(Joined(a1, mid, lo)) = mid
    BY <2>1, SecondDigit
  <2>4. Second(g) = mid
    BY <2>2, <2>3
  <2> QED
    BY <2>4 DEF mid, Second
<1>8. (g \div 64) % 64 = 4 * b0 + c1
  BY <1>4
<1>9. (g \div 1) % 64 = c0
  BY <1>4
<1> QED
  BY <1>1, <1>2, <1>3, <1>5, <1>6, <1>7, <1>8, <1>9

LEMMA ByteAtType ==
  ASSUME NEW image \in Seq(Byte), NEW i \in Nat \ {0}
  PROVE  ByteAt(image, i) \in Byte
<1>1. 0 \in Byte
  BY DEF Byte
<1>2. i <= Len(image) => image[i] \in Byte
  OBVIOUS
<1> QED
  BY <1>1, <1>2 DEF ByteAt

\* The digits of group k, which have the indices from 4 * k + 1 on.
LEMMA DigitIs ==
  ASSUME NEW image \in Seq(Byte), NEW k \in Nat
  PROVE  /\ 3 * k <= Len(image) => Digit(image, 4 * k + 1) = ByteAt(image, 3 * k + 1) \div 4
         /\ 3 * k + 1 <= Len(image) =>
              Digit(image, 4 * k + 2)
                = (ByteAt(image, 3 * k + 1) % 4) * 16 + ByteAt(image, 3 * k + 2) \div 16
         /\ Digit(image, 4 * k + 3) =
              IF 3 * k + 2 > Len(image) THEN Pad
              ELSE (ByteAt(image, 3 * k + 2) % 16) * 4 + ByteAt(image, 3 * k + 3) \div 64
         /\ Digit(image, 4 * k + 4) =
              IF 3 * k + 3 > Len(image) THEN Pad ELSE ByteAt(image, 3 * k + 3) % 64
<1> DEFINE g == Group(image, k)
           a == ByteAt(image, 3 * k + 1)
           b == ByteAt(image, 3 * k + 2)
           c == ByteAt(image, 3 * k + 3)
<1>1. a \in Byte /\ b \in Byte /\ c \in Byte
  BY ByteAtType
<1>2. g = 65536 * a + 256 * b + c
  BY DEF Group
<1> HIDE DEF a, b, c
<1>3. /\ (g \div 262144) % 64 = a \div 4
      /\ (g \div 4096) % 64 = (a % 4) * 16 + b \div 16
      /\ (g \div 64) % 64 = (b % 16) * 4 + c \div 64
      /\ (g \div 1) % 64 = c % 64
  <2> HIDE DEF g
  <2> QED
    BY <1>1, <1>2, GroupDigits
<1> HIDE DEF g
<1> DEFINE D(j) == IF 3 * k + j > Len(image) THEN Pad
                   ELSE (g \div <<262144, 4096, 64, 1>>[j + 1]) % 64
<1>4. ASSUME NEW j \in 0 .. 3
      PROVE  Digit(image, 4 * k + j + 1) = D(j)
  <2> DEFINE i == 4 * k + j + 1
  <2>1. (i - 1) \div 4 = k /\ (i - 1) % 4 = j
    OBVIOUS
  <2> HIDE DEF i
  <2>2. Digit(image, i) = D(j)
    BY <2>1 DEF Digit, g
  <2> QED
    BY <2>2 DEF i
<1>5. /\ Digit(image, 4 * k + 1) = D(0) /\ Digit(image, 4 * k + 2) = D(1)
      /\ Digit(image, 4 * k + 3) = D(2) /\ Digit(image, 4 * k + 4) = D(3)
  <2> HIDE DEF D
  <2>1. /\ Digit(image, 4 * k + 0 + 1) = D(0) /\ Digit(image, 4 * k + 1 + 1) = D(1)
        /\ Digit(image, 4 * k + 2 + 1) = D(2) /\ Digit(image, 4 * k + 3 + 1) = D(3)
    BY <1>4
  <2> QED
    BY <2>1
<1>6. /\ D(0) = IF 3 * k > Len(image) THEN Pad ELSE (g \div 262144) % 64
      /\ D(1) = IF 3 * k + 1 > Len(image) THEN Pad ELSE (g \div 4096) % 64
      /\ D(2) = IF 3 * k + 2 > Len(image) THEN Pad ELSE (g \div 64) % 64
      /\ D(3) = IF 3 * k + 3 > Len(image) THEN Pad ELSE (g \div 1) % 64
  OBVIOUS
<1> HIDE DEF D
<1>7. Len(image) \in Nat
  OBVIOUS
<1> QED
  BY <1>3, <1>5, <1>6, <1>7 DEF a, b, c

\* Where the loop stands in its group of three.
LEMMA Place ==
  ASSUME NEW p \in Nat, NEW l \in Nat, 3 * l = 4 * p - (p % 3)
  PROVE  \E k \in Nat : p = 3 * k + (p % 3) /\ l = 4 * k + (p % 3)
<1>1. PICK k \in Nat : p = 3 * k + (p % 3)
  OBVIOUS
<1> QED
  BY <1>1

\* Digits that are right and come next keep what has been written right.
LEMMA WritesRight ==
  ASSUME EncInv, encPc \in {"loop", "tail"}, NEW ds \in Seq(0 .. Pad),
         len + Len(ds) <= Len(digits),
         \A i \in DOMAIN ds : ds[i] = Digit(bytes, len + i)
  PROVE  /\ Written(ds) \in Seq(0 .. Unset)
         /\ Len(Written(ds)) = Len(digits)
         /\ \A i \in 1 .. len + Len(ds) : Written(ds)[i] = Digit(bytes, i)
<1>1. len \in Nat /\ digits \in Seq(0 .. Unset) /\ Len(digits) \in Nat /\ Len(ds) \in Nat
      /\ DOMAIN ds = 1 .. Len(ds) /\ DOMAIN digits = 1 .. Len(digits)
  BY DEF EncInv, EncTypeOK
<1>2. \A i \in 1 .. Len(ds) : ds[i] \in 0 .. Unset
  <2>1. 0 .. Pad \subseteq 0 .. Unset
    BY DEF Pad, Unset
  <2>2. \A i \in 1 .. Len(ds) : ds[i] \in 0 .. Pad
    BY ElementOfSeq
  <2> QED
    BY <2>1, <2>2
<1>3. \A i \in 1 .. Len(digits) :
        Written(ds)[i] = IF i > len /\ i <= len + Len(ds) THEN ds[i - len] ELSE digits[i]
  BY <1>1 DEF Written
<1>4. ASSUME NEW i \in 1 .. Len(digits)
      PROVE  Written(ds)[i] \in 0 .. Unset
  <2>1. digits[i] \in 0 .. Unset
    BY <1>1, ElementOfSeq
  <2>2. i > len /\ i <= len + Len(ds) => i - len \in 1 .. Len(ds)
    BY <1>1
  <2> QED
    BY <1>2, <1>3, <2>1, <2>2
<1>5. Written(ds) = [i \in 1 .. Len(digits) |-> Written(ds)[i]]
  BY <1>1 DEF Written
<1>6. Written(ds) \in Seq(0 .. Unset) /\ Len(Written(ds)) = Len(digits)
  <2> DEFINE w == Written(ds)
  <2> HIDE DEF w
  <2> QED
    BY <1>1, <1>4, <1>5 DEF w
<1>7. ASSUME NEW i \in 1 .. len + Len(ds)
      PROVE  Written(ds)[i] = Digit(bytes, i)
  <2>1. CASE i <= len
    <3>1. i \in 1 .. len /\ i \in 1 .. Len(digits)
      BY <2>1, <1>1
    <3>2. digits[i] = Digit(bytes, i)
      BY <3>1 DEF EncInv
    <3> QED
      BY <2>1, <3>1, <3>2, <1>1, <1>3
  <2>2. CASE i > len
    <3>1. i - len \in 1 .. Len(ds) /\ len + (i - len) = i /\ i \in 1 .. Len(digits)
      BY <2>2, <1>1
    <3>2. Written(ds)[i] = ds[i - len]
      BY <2>2, <3>1, <1>1, <1>3
    <3>3. ds[i - len] = Digit(bytes, len + (i - len))
      BY <3>1, <1>1
    <3> QED
      BY <3>1, <3>2, <3>3
  <2> QED
    BY <2>1, <2>2, <1>1
<1> QED
  BY <1>6, <1>7

LEMMA SixBitsEach ==
  ASSUME NEW b \in Byte, NEW c \in Byte
  PROVE  /\ c \div 4 \in 0 .. Pad /\ c % 64 \in 0 .. Pad
         /\ (b % 4) * 16 + c \div 16 \in 0 .. Pad
         /\ (b % 16) * 4 + c \div 64 \in 0 .. Pad
         /\ (b % 4) * 16 \in 0 .. Pad /\ (b % 16) * 4 \in 0 .. Pad
  BY DEF Byte, Pad

\* What a turn of the loop writes.
LEMMA TurnDigitsRight ==
  ASSUME EncInv, encPc = "loop", pos < Len(bytes)
  PROVE  /\ TurnDigits \in Seq(0 .. Pad)
         /\ len + Len(TurnDigits) <= Len(digits)
         /\ \A i \in DOMAIN TurnDigits : TurnDigits[i] = Digit(bytes, len + i)
         /\ 3 * (len + Len(TurnDigits)) = 4 * (pos + 1) - ((s + 1) % 3)
         /\ (s + 1) % 3 = (pos + 1) % 3
<1>1. /\ bytes \in Seq(Byte) /\ pos \in Nat /\ len \in Nat /\ Len(bytes) \in Nat
      /\ Len(digits) = 4 * ((Len(bytes) + 2) \div 3) /\ s = pos % 3 /\ s \in 0 .. 2
      /\ 3 * len = 4 * pos - (pos % 3)
      /\ pos > 0 => lastC = bytes[pos]
      /\ lastC \in Byte
  BY DEF EncInv, EncTypeOK, Size
<1>2. PICK k \in Nat : pos = 3 * k + s /\ len = 4 * k + s
  BY <1>1, Place
<1>3. C \in Byte /\ C = ByteAt(bytes, pos + 1)
  BY <1>1 DEF C, ByteAt
<1>4. pos > 0 => lastC = ByteAt(bytes, pos)
  BY <1>1 DEF ByteAt
<1>5. (s + 1) % 3 = (pos + 1) % 3
  BY <1>1, <1>2
<1>6. CASE s = 0
  <2>1. TurnDigits = <<C \div 4>>
    BY <1>6 DEF TurnDigits
  <2>2. C \div 4 \in 0 .. Pad
    BY <1>3, SixBitsEach
  <2>3. C \div 4 = Digit(bytes, len + 1)
    BY <1>1, <1>2, <1>3, <1>6, DigitIs
  <2>4. len + 1 <= Len(digits) /\ 3 * (len + 1) = 4 * (pos + 1) - 1 /\ (s + 1) % 3 = 1
    BY <1>1, <1>2, <1>6
  <2> QED
    BY <2>1, <2>2, <2>3, <2>4, <1>5
<1>7. CASE s = 1
  <2>1. TurnDigits = <<(lastC % 4) * 16 + C \div 16>>
    BY <1>7 DEF TurnDigits
  <2>2. (lastC % 4) * 16 + C \div 16 \in 0 .. Pad
    BY <1>1, <1>3, SixBitsEach
  <2>3. (lastC % 4) * 16 + C \div 16 = Digit(bytes, len + 1)
    <3>1. pos = 3 * k + 1 /\ pos + 1 = 3 * k + 2 /\ len + 1 = 4 * k + 2 /\ pos > 0
          /\ 3 * k + 1 <= Len(bytes)
      BY <1>1, <1>2, <1>7
    <3> QED
      BY <1>1, <1>3, <1>4, <3>1, DigitIs
  <2>4. len + 1 <= Len(digits) /\ 3 * (len + 1) = 4 * (pos + 1) - 2 /\ (s + 1) % 3 = 2
    BY <1>1, <1>2, <1>7
  <2> QED
    BY <2>1, <2>2, <2>3, <2>4, <1>5
<1>8. CASE s = 2
  <2> DEFINE d1 == (lastC % 16) * 4 + C \div 64
             d2 == C % 64
  <2>1. TurnDigits = <<d1, d2>>
    BY <1>8 DEF TurnDigits
  <2>2. d1 \in 0 .. Pad /\ d2 \in 0 .. Pad
    BY <1>1, <1>3, SixBitsEach
  <2>3. d1 = Digit(bytes, len + 1) /\ d2 = Digit(bytes, len + 2)
    <3>1. pos = 3 * k + 2 /\ pos + 1 = 3 * k + 3 /\ len + 1 = 4 * k + 3 /\ len + 2 = 4 * k + 4
          /\ pos > 0 /\ ~ 3 * k + 2 > Len(bytes) /\ ~ 3 * k + 3 > Len(bytes)
      BY <1>1, <1>2, <1>8
    <3>2. /\ Digit(bytes, 4 * k + 3)
               = (ByteAt(bytes, 3 * k + 2) % 16) * 4 + ByteAt(bytes, 3 * k + 3) \div 64
          /\ Digit(bytes, 4 * k + 4) = ByteAt(bytes, 3 * k + 3) % 64
      BY <1>1, <3>1, DigitIs
    <3>3. lastC = ByteAt(bytes, 3 * k + 2) /\ C = ByteAt(bytes, 3 * k + 3)
      BY <1>3, <1>4, <3>1
    <3> QED
      BY <3>1, <3>2, <3>3
  <2>4. len + 2 <= Len(digits) /\ 3 * (len + 2) = 4 * (pos + 1) - 0 /\ (s + 1) % 3 = 0
    BY <1>1, <1>2, <1>8
  <2> HIDE DEF d1, d2
  <2>5. \A i \in 1 .. 2 : <<d1, d2>>[i] = Digit(bytes, len + i)
    BY <2>3, <1>1
  <2> QED
    BY <2>1, <2>2, <2>4, <2>5, <1>5
<1> QED
  BY <1>1, <1>6, <1>7, <1>8

\* What the switch after the loop writes.
LEMMA TailDigitsRight ==
  ASSUME EncInv, encPc = "tail"
  PROVE  /\ TailDigits \in Seq(0 .. Pad)
         /\ len + Len(TailDigits) = Len(digits)
         /\ \A i \in DOMAIN TailDigits : TailDigits[i] = Digit(bytes, len + i)
<1>1. /\ bytes \in Seq(Byte) /\ pos \in Nat /\ len \in Nat /\ Len(bytes) = pos
      /\ Len(digits) = 4 * ((Len(bytes) + 2) \div 3) /\ s = pos % 3 /\ s \in 0 .. 2
      /\ 3 * len = 4 * pos - (pos % 3)
      /\ pos > 0 => lastC = bytes[pos]
      /\ lastC \in Byte
  BY DEF EncInv, EncTypeOK, Size
<1>2. PICK k \in Nat : pos = 3 * k + s /\ len = 4 * k + s
  BY <1>1, Place
<1>3. pos > 0 => lastC = ByteAt(bytes, pos)
  BY <1>1 DEF ByteAt
<1>4. ByteAt(bytes, pos + 1) = 0
  BY <1>1 DEF ByteAt
<1>5. 0 \div 16 = 0 /\ 0 \div 64 = 0 /\ Pad \in 0 .. Pad
  BY DEF Pad
<1>6. CASE s = 0
  <2>1. TailDigits = << >>
    BY <1>6 DEF TailDigits
  <2>2. len = Len(digits)
    BY <1>1, <1>2, <1>6
  <2> QED
    BY <2>1, <2>2, <1>1
<1>7. CASE s = 1
  <2> DEFINE d == (lastC % 4) * 16
  <2>1. TailDigits = <<d, Pad, Pad>>
    BY <1>7 DEF TailDigits
  <2>2. d \in 0 .. Pad
    BY <1>1, SixBitsEach
  <2>3. /\ pos = 3 * k + 1 /\ pos + 1 = 3 * k + 2 /\ pos > 0 /\ 3 * k + 1 <= Len(bytes)
        /\ 3 * k + 2 > Len(bytes) /\ 3 * k + 3 > Len(bytes)
        /\ len + 1 = 4 * k + 2 /\ len + 2 = 4 * k + 3 /\ len + 3 = 4 * k + 4
        /\ len + 3 = Len(digits)
    BY <1>1, <1>2, <1>7
  <2>4. Digit(bytes, 4 * k + 2)
          = (ByteAt(bytes, 3 * k + 1) % 4) * 16 + ByteAt(bytes, 3 * k + 2) \div 16
    BY <1>1, <2>3, DigitIs
  <2>5. Digit(bytes, 4 * k + 3) = Pad /\ Digit(bytes, 4 * k + 4) = Pad
    BY <1>1, <2>3, DigitIs
  <2>6. (ByteAt(bytes, 3 * k + 1) % 4) * 16 + ByteAt(bytes, 3 * k + 2) \div 16 = d
    <3>1. lastC = ByteAt(bytes, 3 * k + 1) /\ ByteAt(bytes, 3 * k + 2) = 0
      BY <1>3, <1>4, <2>3
    <3>2. (lastC % 4) * 16 + 0 \div 16 = (lastC % 4) * 16
      BY <1>1 DEF Byte
    <3> QED
      BY <3>1, <3>2
  <2> HIDE DEF d
  <2>7. /\ d = Digit(bytes, len + 1) /\ Pad = Digit(bytes, len + 2)
        /\ Pad = Digit(bytes, len + 3)
    BY <2>3, <2>4, <2>5, <2>6
  <2>8. \A i \in 1 .. 3 : <<d, Pad, Pad>>[i] = Digit(bytes, len + i)
    BY <2>7
  <2> QED
    BY <2>1, <2>2, <2>3, <2>8, <1>5
<1>8. CASE s = 2
  <2> DEFINE d == (lastC % 16) * 4
  <2>1. TailDigits = <<d, Pad>>
    BY <1>8 DEF TailDigits
  <2>2. d \in 0 .. Pad
    BY <1>1, SixBitsEach
  <2>3. /\ pos = 3 * k + 2 /\ pos + 1 = 3 * k + 3 /\ pos > 0
        /\ ~ 3 * k + 2 > Len(bytes) /\ 3 * k + 3 > Len(bytes)
        /\ len + 1 = 4 * k + 3 /\ len + 2 = 4 * k + 4
        /\ len + 2 = Len(digits)
    BY <1>1, <1>2, <1>8
  <2>4. Digit(bytes, 4 * k + 3)
          = (ByteAt(bytes, 3 * k + 2) % 16) * 4 + ByteAt(bytes, 3 * k + 3) \div 64
    BY <1>1, <2>3, DigitIs
  <2>5. Digit(bytes, 4 * k + 4) = Pad
    BY <1>1, <2>3, DigitIs
  <2>6. (ByteAt(bytes, 3 * k + 2) % 16) * 4 + ByteAt(bytes, 3 * k + 3) \div 64 = d
    <3>1. lastC = ByteAt(bytes, 3 * k + 2) /\ ByteAt(bytes, 3 * k + 3) = 0
      BY <1>3, <1>4, <2>3
    <3>2. (lastC % 16) * 4 + 0 \div 64 = (lastC % 16) * 4
      BY <1>1 DEF Byte
    <3> QED
      BY <3>1, <3>2
  <2> HIDE DEF d
  <2>7. d = Digit(bytes, len + 1) /\ Pad = Digit(bytes, len + 2)
    BY <2>3, <2>4, <2>5, <2>6
  <2>8. \A i \in 1 .. 2 : <<d, Pad>>[i] = Digit(bytes, len + i)
    BY <2>7
  <2> QED
    BY <2>1, <2>2, <2>3, <2>8, <1>5
<1> QED
  BY <1>1, <1>6, <1>7, <1>8

LEMMA EncInit_EncInv ==
  EncInit => EncInv
<1> SUFFICES ASSUME EncInit PROVE EncInv
  OBVIOUS
<1>1. EncTypeOK
  BY DEF EncInit, EncTypeOK, Byte
<1>2. \A i \in 1 .. 0 : digits[i] = Digit(bytes, i)
  OBVIOUS
<1> QED
  BY <1>1, <1>2 DEF EncInit, EncInv

LEMMA EncNext_EncInv ==
  EncInv /\ [EncNext]_encVars => EncInv'
<1> SUFFICES ASSUME EncInv, [EncNext]_encVars PROVE EncInv'
  OBVIOUS
<1>1. ASSUME NEW image \in Images, Encode(image) PROVE EncInv'
  <2>1. image \in Seq(Byte) /\ Size(image) \in Nat
    BY Base64Assumption DEF Size
  <2>2. digits' = [i \in 1 .. Size(image) |-> Unset]
    BY <1>1 DEF Encode
  <2>3. digits' \in Seq(0 .. Unset) /\ Len(digits') = Size(image)
    BY <2>1, <2>2 DEF Unset
  <2>4. EncTypeOK'
    BY <1>1, <2>1, <2>3 DEF EncInv, EncTypeOK, Encode
  <2>5. pos' = 0 /\ len' = 0 /\ s' = pos' % 3 /\ bytes' = image
    BY <1>1 DEF EncInv, EncTypeOK, Encode
  <2>6. Len(digits') = Size(bytes') /\ len' <= Len(digits')
    BY <2>1, <2>3, <2>5
  <2>7. 3 * len' = 4 * pos' - s'
    BY <2>5
  <2>8. \A i \in 1 .. len' : digits'[i] = Digit(bytes', i)
    BY <2>5
  <2>9. encPc' = "loop"
    BY <1>1 DEF Encode
  <2>10. ~ (pos' > 0)
    BY <2>5
  <2> QED
    BY <2>4, <2>5, <2>6, <2>7, <2>8, <2>9, <2>10 DEF EncInv
<1>2. CASE Turn
  <2> DEFINE ds == TurnDigits
  <2>1. /\ ds \in Seq(0 .. Pad) /\ len + Len(ds) <= Len(digits)
        /\ \A i \in DOMAIN ds : ds[i] = Digit(bytes, len + i)
        /\ 3 * (len + Len(ds)) = 4 * (pos + 1) - ((s + 1) % 3)
        /\ (s + 1) % 3 = (pos + 1) % 3
    BY <1>2, TurnDigitsRight DEF Turn
  <2>2. /\ encPc = "loop" /\ pos < Len(bytes) /\ digits' = Written(ds) /\ len' = len + Len(ds)
        /\ s' = (s + 1) % 3 /\ lastC' = bytes[pos + 1] /\ pos' = pos + 1
        /\ UNCHANGED <<encPc, bytes>>
    BY <1>2 DEF Turn, C
  <2> HIDE DEF ds
  <2>3. /\ digits' \in Seq(0 .. Unset) /\ Len(digits') = Len(digits)
        /\ \A i \in 1 .. len' : digits'[i] = Digit(bytes, i)
    BY <2>1, <2>2, WritesRight
  <2>4. bytes \in Seq(Byte) /\ pos \in 0 .. Len(bytes) /\ s \in 0 .. 2 /\ len \in Nat
        /\ Len(ds) \in Nat /\ Len(digits) = Size(bytes)
    BY <2>1, <2>2 DEF EncInv, EncTypeOK
  <2>5. EncTypeOK'
    <3>1. lastC' \in Byte
      BY <2>2, <2>4, ElementOfSeq
    <3>2. pos' \in 0 .. Len(bytes') /\ s' \in 0 .. 2 /\ len' \in Nat
      BY <2>2, <2>4
    <3> QED
      BY <2>2, <2>3, <2>4, <3>1, <3>2 DEF EncTypeOK
  <2>6. s' = pos' % 3 /\ 3 * len' = 4 * pos' - s' /\ len' <= Len(digits')
    BY <2>1, <2>2, <2>3
  <2>7. /\ encPc' = "loop" /\ Len(digits') = Size(bytes') /\ lastC' = bytes'[pos']
    BY <2>2, <2>3, <2>4
  <2>8. \A i \in 1 .. len' : digits'[i] = Digit(bytes', i)
    BY <2>2, <2>3
  <2> QED
    BY <2>5, <2>6, <2>7, <2>8 DEF EncInv
<1>3. CASE LoopEnds
  <2>1. /\ encPc = "loop" /\ pos = Len(bytes) /\ encPc' = "tail"
        /\ UNCHANGED <<bytes, pos, s, len, lastC, digits>>
    BY <1>3 DEF LoopEnds
  <2>2. EncTypeOK'
    BY <2>1 DEF EncInv, EncTypeOK
  <2>3. \A i \in 1 .. len' : digits'[i] = Digit(bytes', i)
    BY <2>1 DEF EncInv
  <2> QED
    BY <2>1, <2>2, <2>3 DEF EncInv
<1>4. CASE Tail64
  <2> DEFINE ds == TailDigits
  <2>1. /\ ds \in Seq(0 .. Pad) /\ len + Len(ds) = Len(digits)
        /\ \A i \in DOMAIN ds : ds[i] = Digit(bytes, len + i)
    BY <1>4, TailDigitsRight DEF Tail64
  <2>2. /\ encPc = "tail" /\ encPc' = "done" /\ digits' = Written(ds) /\ len' = len + Len(ds)
        /\ UNCHANGED <<bytes, pos, s, lastC>>
    BY <1>4 DEF Tail64
  <2> HIDE DEF ds
  <2>3. len \in Nat /\ Len(ds) \in Nat /\ len + Len(ds) <= Len(digits)
    BY <2>1 DEF EncInv, EncTypeOK
  <2>4. /\ digits' \in Seq(0 .. Unset) /\ Len(digits') = Len(digits)
        /\ \A i \in 1 .. len' : digits'[i] = Digit(bytes, i)
    BY <2>1, <2>2, <2>3, WritesRight
  <2>5. len' = Len(digits') /\ len' \in Nat
    BY <2>1, <2>2, <2>3, <2>4
  <2>6. EncTypeOK'
    BY <2>2, <2>4, <2>5 DEF EncInv, EncTypeOK
  <2>7. \A i \in 1 .. len' : digits'[i] = Digit(bytes', i)
    BY <2>2, <2>4
  <2> QED
    BY <2>2, <2>4, <2>5, <2>6, <2>7 DEF EncInv
<1>5. CASE EncReset
  <2>1. EncInit'
    BY <1>5 DEF EncReset, EncInit
  <2>2. EncTypeOK'
    BY <2>1 DEF EncInit, EncTypeOK, Byte
  <2>3. \A i \in 1 .. 0 : digits'[i] = Digit(bytes', i)
    OBVIOUS
  <2> QED
    BY <2>1, <2>2, <2>3 DEF EncInit, EncInv
<1>6. CASE UNCHANGED encVars
  <2>1. UNCHANGED <<encPc, bytes, pos, s, len, lastC, digits>>
    BY <1>6 DEF encVars
  <2>2. EncTypeOK'
    BY <2>1 DEF EncInv, EncTypeOK
  <2>3. \A i \in 1 .. len' : digits'[i] = Digit(bytes', i)
    BY <2>1 DEF EncInv
  <2> QED
    BY <2>1, <2>2, <2>3 DEF EncInv
<1> QED
  BY <1>1, <1>2, <1>3, <1>4, <1>5, <1>6 DEF EncNext, EncStep

LEMMA EncInv_EncodesRight ==
  EncInv => EncodesRight
<1> SUFFICES ASSUME EncInv PROVE EncodesRight
  OBVIOUS
<1>1. StaysInside
  BY DEF EncInv, StaysInside
<1>2. ASSUME encPc = "done" PROVE digits = Reference(bytes)
  <2>1. len = Len(digits) /\ Len(digits) = Size(bytes) /\ digits \in Seq(0 .. Unset)
        /\ \A i \in 1 .. len : digits[i] = Digit(bytes, i)
    BY <1>2 DEF EncInv, EncTypeOK
  <2>2. digits = [i \in 1 .. Size(bytes) |-> Digit(bytes, i)]
    BY <2>1
  <2>3. Reference(bytes) = [i \in 1 .. Size(bytes) |-> Digit(bytes, i)]
    BY DEF Reference, Digit
  <2> QED
    BY <2>2, <2>3
<1> QED
  BY <1>1, <1>2 DEF EncodesRight, EncInv

-----------------------------------------------------------------------------
(* What SendText puts together of the parts of a body *)

\* The provers have no induction over data; the least number of which a fact is false
\* takes its place.
LEMMA LeastNumber ==
  ASSUME NEW T, T \subseteq Nat, T # {}
  PROVE  \E x \in T : \A y \in T : x <= y
<1>1. PICK x \in T : \A y \in T : ~ (<<y, x>> \in Order!OpToRel(<, Nat))
  BY Order!WFMin, Order!NatLessThanWellFounded
<1>2. \A y \in T : ~ (y < x)
  BY <1>1 DEF Order!OpToRel
<1> QED
  BY <1>2

\* f[k] is what the first k of the texts ts are together.
Joins(f, ts, k) ==
  /\ f \in [0 .. k -> Contents]
  /\ f[0] = << >>
  /\ \A i \in 1 .. k : f[i] = f[i - 1] \o ts[i]

Joint(ts) == CHOOSE f : Joins(f, ts, Len(ts))

LEMMA JointExists ==
  ASSUME NEW ts \in Seq(Contents)
  PROVE  Joins(Joint(ts), ts, Len(ts))
<1> DEFINE T == {k \in 0 .. Len(ts) : ~ \E f : Joins(f, ts, k)}
<1>1. Len(ts) \in Nat
  OBVIOUS
<1>2. ASSUME T # {} PROVE FALSE
  <2>1. PICK k \in T : \A y \in T : k <= y
    <3>1. T \subseteq Nat
      OBVIOUS
    <3> QED
      BY <3>1, <1>2, LeastNumber
  <2>2. k \in 0 .. Len(ts) /\ ~ \E f : Joins(f, ts, k)
    OBVIOUS
  <2>3. k # 0
    <3>1. << >> \in Contents
      BY DEF Contents
    <3>2. Joins([i \in 0 .. 0 |-> << >>], ts, 0)
      BY <3>1 DEF Joins
    <3> QED
      BY <2>2, <3>2
  <2>4. k - 1 \in 0 .. Len(ts) /\ k - 1 \notin T
    BY <1>1, <2>1, <2>2, <2>3
  <2>5. PICK f : Joins(f, ts, k - 1)
    BY <2>4
  <2> DEFINE g == [i \in 0 .. k |-> IF i < k THEN f[i] ELSE f[k - 1] \o ts[k]]
  <2>6. ts[k] \in Contents /\ f[k - 1] \in Contents
    BY <2>2, <2>3, <2>5, ElementOfSeq DEF Joins
  <2>7. f[k - 1] \o ts[k] \in Contents
    BY <2>6, ConcatProperties DEF Contents
  <2>8. g \in [0 .. k -> Contents]
    BY <2>2, <2>5, <2>7 DEF Joins
  <2>9. g[0] = << >>
    BY <2>2, <2>3, <2>5 DEF Joins
  <2>10. ASSUME NEW i \in 1 .. k PROVE g[i] = g[i - 1] \o ts[i]
    <3>1. CASE i = k
      <4>1. g[k] = f[k - 1] \o ts[k] /\ g[k - 1] = f[k - 1]
        BY <2>2, <2>3
      <4> QED
        BY <3>1, <4>1
    <3>2. CASE i < k
      <4>1. i \in 1 .. (k - 1) /\ i \in 0 .. k /\ i - 1 \in 0 .. k /\ i - 1 < k
        BY <2>2, <3>2
      <4>2. g[i] = f[i] /\ g[i - 1] = f[i - 1]
        BY <3>2, <4>1
      <4>3. f[i] = f[i - 1] \o ts[i]
        BY <4>1, <2>5 DEF Joins
      <4> QED
        BY <4>2, <4>3
    <3> QED
      BY <2>2, <3>1, <3>2
  <2> HIDE DEF g
  <2>11. Joins(g, ts, k)
    BY <2>8, <2>9, <2>10 DEF Joins
  <2> QED
    BY <2>2, <2>11
<1>3. \E f : Joins(f, ts, Len(ts))
  BY <1>1, <1>2
<1> QED
  BY <1>3 DEF Joint

\* FlattenSeq is where Joint ends.
LEMMA FlattenIsJoint ==
  ASSUME NEW ts \in Seq(Contents)
  PROVE  FlattenSeq(ts) = Joint(ts)[Len(ts)]
<1> DEFINE j == Joint(ts)
           l == Len(ts)
           Step(f) == [i \in 1 .. l |-> IF i = 1 THEN ts[i] ELSE f[i - 1] \o ts[i]]
           F == CHOOSE f : f = Step(f)
<1>1. l \in Nat
  OBVIOUS
<1>2. Joins(j, ts, l)
  BY JointExists
<1> HIDE DEF j
<1>3. CASE l = 0
  <2>1. FlattenSeq(ts) = ts /\ ts = << >>
    BY <1>3 DEF FlattenSeq
  <2> QED
    BY <2>1, <1>2, <1>3 DEF Joins, j
<1>4. CASE l # 0
  <2>1. FlattenSeq(ts) = F[l]
    BY <1>4 DEF FlattenSeq
  <2>2. \E f : f = Step(f)
    <3> DEFINE g == [i \in 1 .. l |-> j[i]]
    <3>1. ASSUME NEW i \in 1 .. l PROVE g[i] = IF i = 1 THEN ts[i] ELSE g[i - 1] \o ts[i]
      <4>1. j[i] = j[i - 1] \o ts[i] /\ g[i] = j[i]
        BY <1>2 DEF Joins
      <4>2. CASE i = 1
        <5>1. ts[1] \in Contents
          BY <4>2, ElementOfSeq
        <5>2. j[0] \o ts[1] = ts[1]
          BY <5>1, <1>2, ConcatEmptySeq DEF Joins, Contents
        <5>3. j[i - 1] \o ts[i] = ts[i]
          <6>1. i - 1 = 0
            BY <4>2
          <6> QED
            BY <4>2, <5>2, <6>1
        <5> HIDE DEF g
        <5> QED
          BY <4>1, <4>2, <5>3
      <4>3. CASE i # 1
        <5>1. i - 1 \in 1 .. l
          BY <4>3, <1>1
        <5>2. g[i - 1] = j[i - 1]
          BY <5>1
        <5> QED
          BY <4>1, <4>3, <5>2
      <4> QED
        BY <4>2, <4>3
    <3>2. g = Step(g)
      BY <3>1
    <3> QED
      BY <3>2
  <2>3. F = Step(F)
    <3> HIDE DEF Step
    <3> QED
      BY <2>2
  <2> HIDE DEF F
  <2>4. \A i \in 1 .. l : F[i] = IF i = 1 THEN ts[i] ELSE F[i - 1] \o ts[i]
    BY <2>3
  <2> HIDE DEF Step
  <2> DEFINE T == {i \in 1 .. l : F[i] # j[i]}
  <2>5. ASSUME T # {} PROVE FALSE
    <3>1. PICK i \in T : \A y \in T : i <= y
      <4>1. T \subseteq Nat
        OBVIOUS
      <4> QED
        BY <4>1, <2>5, LeastNumber
    <3>2. i \in 1 .. l /\ F[i] # j[i]
      OBVIOUS
    <3>3. j[i] = j[i - 1] \o ts[i]
      BY <1>2, <3>2 DEF Joins
    <3>4. CASE i = 1
      <4>1. ts[1] \in Contents
        BY <3>2, <3>4, ElementOfSeq
      <4>2. j[0] \o ts[1] = ts[1]
        BY <4>1, <1>2, ConcatEmptySeq DEF Joins, Contents
      <4>3. i - 1 = 0
        BY <3>4
      <4>4. j[i] = ts[i]
        BY <3>3, <3>4, <4>2, <4>3
      <4> QED
        BY <2>4, <3>2, <3>4, <4>4
    <3>5. CASE i # 1
      <4>1. i - 1 \in 1 .. l /\ i - 1 \notin T
        BY <1>1, <3>1, <3>2, <3>5
      <4>2. F[i - 1] = j[i - 1]
        BY <4>1
      <4> QED
        BY <2>4, <3>2, <3>3, <3>5, <4>2
    <3> QED
      BY <3>4, <3>5
  <2>6. F[l] = j[l]
    BY <1>1, <1>4, <2>5
  <2> QED
    BY <2>1, <2>6 DEF j
<1> QED
  BY <1>3, <1>4

\* What the first k texts are together is no longer than what all of them are.
LEMMA JointGrows ==
  ASSUME NEW ts \in Seq(Contents), NEW k \in 0 .. Len(ts)
  PROVE  Len(Joint(ts)[k]) <= Len(Joint(ts)[Len(ts)])
<1> DEFINE j == Joint(ts)
           l == Len(ts)
           T == {i \in k .. l : ~ Len(j[k]) <= Len(j[i])}
<1>1. l \in Nat
  OBVIOUS
<1>2. Joins(j, ts, l)
  BY JointExists
<1> HIDE DEF j
<1>3. \A i \in 0 .. l : j[i] \in Contents /\ Len(j[i]) \in Nat
  BY <1>2 DEF Joins, Contents
<1>4. ASSUME T # {} PROVE FALSE
  <2>1. PICK i \in T : \A y \in T : i <= y
    <3>1. T \subseteq Nat
      BY <1>1
    <3> QED
      BY <3>1, <1>4, LeastNumber
  <2>2. i \in k .. l /\ ~ Len(j[k]) <= Len(j[i])
    OBVIOUS
  <2>3. i # k
    BY <2>2, <1>3
  <2>4. i - 1 \in k .. l /\ i - 1 \notin T /\ i \in 1 .. l /\ i - 1 \in 0 .. l /\ i \in 0 .. l
    BY <1>1, <2>1, <2>2, <2>3
  <2>5. Len(j[k]) <= Len(j[i - 1])
    BY <2>4
  <2>6. j[i] = j[i - 1] \o ts[i] /\ ts[i] \in Contents
    BY <1>2, <2>4, ElementOfSeq DEF Joins
  <2>7. Len(j[i]) = Len(j[i - 1]) + Len(ts[i]) /\ Len(ts[i]) \in Nat
    BY <1>3, <2>4, <2>6, ConcatProperties DEF Contents
  <2> QED
    <3>1. Len(j[k]) \in Nat /\ Len(j[i - 1]) \in Nat /\ Len(j[i]) \in Nat
      BY <1>3, <2>4
    <3>2. \A a, b, c, d \in Nat : a <= b /\ c = b + d => a <= c
      OBVIOUS
    <3> QED
      BY <3>1, <3>2, <2>2, <2>5, <2>7, Zenon
<1>5. l \in k .. l
  BY <1>1
<1> QED
  BY <1>4, <1>5 DEF j

LEMMA CharactersType ==
  ASSUME NEW v \in Values
  PROVE  Characters(v) \in Contents /\ <<v>> \in Contents
<1> DEFINE S == Values \cup {"@", Freed}
<1>1. v \in S
  OBVIOUS
<1> HIDE DEF S
<1>2. <<v>> \in Seq(S) /\ << >> \in Seq(S)
  BY <1>1
<1> QED
  BY <1>2 DEF S, Characters, Contents

LEMMA PartType ==
  ASSUME NEW b \in Bodies \cup {NoBody}
  PROVE  /\ b.toWxid \in Values /\ b.readable \in BOOLEAN /\ b.parts \in Seq(Part)
         /\ Len(b.parts) \in Nat
         /\ \A i \in 1 .. Len(b.parts) : b.parts[i] \in Part
<1>1. CASE b \in Bodies
  BY <1>1, SendTextAssumption, ElementOfSeq
<1>2. CASE b = NoBody
  BY <1>2, SendTextAssumption DEF NoBody
<1> QED
  BY <1>1, <1>2

\* The handler appends the name that a reader should see.
LEMMA NameIsNickName ==
  ASSUME NEW p \in Part
  PROVE  /\ NickName(p) \in Values
         /\ Name(p) = Characters(NickName(p))
<1> DEFINE contact == IF p.value \in DOMAIN Contacts THEN Characters(Contacts[p.value]) ELSE << >>
           names == <<Characters(p.nickName), contact, Characters(p.value)>>
<1>1. p.value \in Values /\ p.nickName \in Values
  BY DEF Part
<1>2. NickName(p) \in Values
  BY <1>1, SendTextAssumption DEF NickName, GetContactInfoDynamic
<1>3. contact \in Contents
  BY <1>1, SendTextAssumption, CharactersType DEF Contents
<1>4. names \in Seq(Contents) /\ Len(names) = 3
  <2>1. \A x, y, z \in Contents : <<x, y, z>> \in Seq(Contents) /\ Len(<<x, y, z>>) = 3
    OBVIOUS
  <2>2. Characters(p.nickName) \in Contents /\ Characters(p.value) \in Contents
    BY <1>1, CharactersType
  <2> HIDE DEF contact
  <2> QED
    BY <1>3, <2>1, <2>2
<1>5. FlattenSeq(names) = Characters(p.nickName) \o contact \o Characters(p.value)
  <2> DEFINE j == Joint(names)
  <2>1. Joins(j, names, 3)
    BY <1>4, JointExists
  <2> HIDE DEF j
  <2>2. j[0] = << >> /\ j[1] = j[0] \o names[1] /\ j[2] = j[1] \o names[2] /\ j[3] = j[2] \o names[3]
    <3>1. \A i \in 1 .. 3 : \A m : m = i - 1 => j[i] = j[m] \o names[i]
      BY <2>1 DEF Joins
    <3>2. 1 \in 1 .. 3 /\ 2 \in 1 .. 3 /\ 3 \in 1 .. 3 /\ 0 = 1 - 1 /\ 1 = 2 - 1 /\ 2 = 3 - 1
      OBVIOUS
    <3> HIDE DEF names
    <3> QED
      BY <3>1, <3>2, <2>1, Zenon DEF Joins
  <2>3. << >> \o Characters(p.nickName) = Characters(p.nickName)
    BY <1>1, CharactersType, ConcatEmptySeq DEF Contents
  <2>4. FlattenSeq(names) = j[3]
    BY <1>4, FlattenIsJoint DEF j
  <2> QED
    BY <2>2, <2>3, <2>4
<1>6. CASE p.value = Everyone
  BY <1>2, <1>6, SendTextAssumption DEF Name, NickName, Characters
<1>7. CASE p.value # Everyone
  <2>1. Name(p) = IF FlattenSeq(names) = << >> THEN << >> ELSE <<Head(FlattenSeq(names))>>
    BY <1>7 DEF Name
  <2> HIDE DEF names, contact
  <2>2. CASE p.nickName # Empty
    <3>1. FlattenSeq(names) = <<p.nickName>> \o contact \o Characters(p.value)
      BY <1>5, <2>2 DEF Characters
    <3>2. Characters(p.value) \in Contents /\ <<p.nickName>> \in Contents
      BY <1>1, CharactersType
    <3>3. FlattenSeq(names) # << >> /\ Head(FlattenSeq(names)) = p.nickName
      <4> HIDE DEF contact
      <4> QED
        BY <1>3, <3>1, <3>2 DEF Contents
    <3> QED
      BY <1>2, <1>7, <2>1, <2>2, <3>3 DEF NickName, Characters
  <2>3. CASE p.nickName = Empty
    <3>1. FlattenSeq(names) = contact \o Characters(p.value)
      <4>1. << >> \o contact = contact
        BY <1>3, ConcatEmptySeq DEF Contents
      <4> QED
        BY <1>5, <2>3, <4>1 DEF Characters
    <3>2. NickName(p) = GetContactInfoDynamic(p.value)
      BY <1>7, <2>3 DEF NickName
    <3>3. CASE p.value \in DOMAIN Contacts /\ Contacts[p.value] # Empty
      <4>1. contact = <<Contacts[p.value]>> /\ Contacts[p.value] \in Values
        BY <3>3, SendTextAssumption DEF contact, Characters
      <4>2. Characters(p.value) \in Contents
        BY <1>1, CharactersType
      <4>3. \A u \in Values, x \in Contents : <<u>> \o x # << >> /\ Head(<<u>> \o x) = u
        BY DEF Contents
      <4> HIDE DEF contact
      <4>4. FlattenSeq(names) # << >> /\ Head(FlattenSeq(names)) = Contacts[p.value]
        BY <3>1, <4>1, <4>2, <4>3
      <4> QED
        BY <1>2, <2>1, <3>2, <3>3, <4>4 DEF GetContactInfoDynamic, Characters
    <3>4. CASE ~ (p.value \in DOMAIN Contacts /\ Contacts[p.value] # Empty)
      <4>1. contact = << >>
        BY <3>4 DEF contact, Characters
      <4>2. FlattenSeq(names) = Characters(p.value)
        BY <1>1, <3>1, <4>1, CharactersType, ConcatEmptySeq DEF Contents
      <4>3. NickName(p) = p.value
        BY <3>2, <3>4 DEF GetContactInfoDynamic
      <4> QED
        BY <1>2, <2>1, <4>2, <4>3 DEF Characters
    <3> QED
      BY <3>3, <3>4
  <2> QED
    BY <2>2, <2>3
<1> QED
  BY <1>2, <1>6, <1>7

\* What a reader should read, and the wxids that are mentioned, part by part.
ReadsOf(b) == [i \in DOMAIN b.parts |-> Reads(b.parts[i])]
MentionsOf(b) ==
  [i \in DOMAIN b.parts |-> IF b.parts[i].type = 1 THEN <<b.parts[i].value>> ELSE << >>]

LEMMA PartByPart ==
  ASSUME NEW b \in Bodies \cup {NoBody}
  PROVE  /\ ReadsOf(b) \in Seq(Contents) /\ Len(ReadsOf(b)) = Len(b.parts)
         /\ MentionsOf(b) \in Seq(Contents) /\ Len(MentionsOf(b)) = Len(b.parts)
         /\ \A i \in 1 .. Len(b.parts) :
              LET p == b.parts[i]
              IN  /\ ReadsOf(b)[i] = Reads(p)
                  /\ MentionsOf(b)[i] = IF p.type = 1 THEN <<p.value>> ELSE << >>
<1> DEFINE l == Len(b.parts)
<1>1. l \in Nat /\ DOMAIN b.parts = 1 .. l /\ \A i \in 1 .. l : b.parts[i] \in Part
  BY PartType
<1>2. ASSUME NEW p \in Part
      PROVE  /\ Reads(p) \in Contents
             /\ (IF p.type = 1 THEN <<p.value>> ELSE << >>) \in Contents
  <2>1. << >> \in Contents /\ <<"@">> \in Contents
    BY DEF Contents
  <2>2. p.value \in Values
    BY DEF Part
  <2>3. Characters(p.value) \in Contents /\ <<p.value>> \in Contents
    BY <2>2, CharactersType
  <2>4. Name(p) \in Contents
    BY NameIsNickName, CharactersType
  <2>5. <<"@">> \o Name(p) \in Contents
    BY <2>1, <2>4, ConcatProperties DEF Contents
  <2> QED
    BY <2>1, <2>3, <2>5 DEF Reads
<1> HIDE DEF l
<1>3. /\ ReadsOf(b) = [i \in 1 .. l |-> Reads(b.parts[i])]
      /\ MentionsOf(b)
           = [i \in 1 .. l |-> IF b.parts[i].type = 1 THEN <<b.parts[i].value>> ELSE << >>]
  BY <1>1 DEF ReadsOf, MentionsOf
<1>4. /\ \A i \in 1 .. l : ReadsOf(b)[i] = Reads(b.parts[i]) /\ ReadsOf(b)[i] \in Contents
      /\ DOMAIN ReadsOf(b) = 1 .. l
  BY <1>1, <1>2, <1>3
<1>5. /\ \A i \in 1 .. l :
           /\ MentionsOf(b)[i] = IF b.parts[i].type = 1 THEN <<b.parts[i].value>> ELSE << >>
           /\ MentionsOf(b)[i] \in Contents
      /\ DOMAIN MentionsOf(b) = 1 .. l
  BY <1>1, <1>2, <1>3
<1>6. ReadsOf(b) \in Seq(Contents) /\ Len(ReadsOf(b)) = l
  <2> DEFINE w == ReadsOf(b)
  <2>1. w = [i \in 1 .. l |-> w[i]]
    BY <1>3, <1>4
  <2> HIDE DEF w
  <2> QED
    BY <1>1, <1>4, <2>1 DEF w
<1>7. MentionsOf(b) \in Seq(Contents) /\ Len(MentionsOf(b)) = l
  <2> DEFINE w == MentionsOf(b)
  <2>1. w = [i \in 1 .. l |-> w[i]]
    BY <1>3, <1>5
  <2> HIDE DEF w
  <2> QED
    BY <1>1, <1>5, <2>1 DEF w
<1> QED
  BY <1>4, <1>5, <1>6, <1>7 DEF l

\* What the body's first k parts are together, and whom they mention.
TextOf(b, k) == Joint(ReadsOf(b))[k]
MentionedIn(b, k) == Joint(MentionsOf(b))[k]

LEMMA PartAfterPart ==
  ASSUME NEW b \in Bodies \cup {NoBody}
  PROVE  /\ TextOf(b, 0) = << >> /\ MentionedIn(b, 0) = << >>
         /\ \A k \in 0 .. Len(b.parts) : TextOf(b, k) \in Contents /\ MentionedIn(b, k) \in Contents
         /\ \A k \in 1 .. Len(b.parts) :
              /\ TextOf(b, k) = TextOf(b, k - 1) \o Reads(b.parts[k])
              /\ MentionedIn(b, k)
                   = MentionedIn(b, k - 1)
                       \o (IF b.parts[k].type = 1 THEN <<b.parts[k].value>> ELSE << >>)
         /\ FlattenSeq(ReadsOf(b)) = TextOf(b, Len(b.parts))
         /\ Mentions(b) = MentionedIn(b, Len(b.parts))
         /\ \A k \in 0 .. Len(b.parts) : Len(MentionedIn(b, k)) <= Len(Mentions(b))
<1> DEFINE l == Len(b.parts)
           jr == Joint(ReadsOf(b))
           jm == Joint(MentionsOf(b))
<1>1. Joins(jr, ReadsOf(b), l) /\ Joins(jm, MentionsOf(b), l)
  BY PartByPart, JointExists
<1>2. FlattenSeq(ReadsOf(b)) = jr[l] /\ FlattenSeq(MentionsOf(b)) = jm[l]
  BY PartByPart, FlattenIsJoint
<1>3. \A k \in 0 .. l : Len(jm[k]) <= Len(jm[l])
  BY PartByPart, JointGrows
<1>4. Mentions(b) = FlattenSeq(MentionsOf(b))
  BY DEF Mentions, MentionsOf
<1> HIDE DEF jr, jm
<1>5. /\ jr[0] = << >> /\ jm[0] = << >>
      /\ \A k \in 0 .. l : jr[k] \in Contents /\ jm[k] \in Contents
  BY <1>1 DEF Joins
<1>6. ASSUME NEW k \in 1 .. l
      PROVE  /\ jr[k] = jr[k - 1] \o Reads(b.parts[k])
             /\ jm[k] = jm[k - 1]
                          \o (IF b.parts[k].type = 1 THEN <<b.parts[k].value>> ELSE << >>)
  <2>1. jr[k] = jr[k - 1] \o ReadsOf(b)[k] /\ jm[k] = jm[k - 1] \o MentionsOf(b)[k]
    BY <1>1 DEF Joins
  <2>2. /\ ReadsOf(b)[k] = Reads(b.parts[k])
        /\ MentionsOf(b)[k] = IF b.parts[k].type = 1 THEN <<b.parts[k].value>> ELSE << >>
    BY PartByPart
  <2> QED
    BY <2>1, <2>2
<1> QED
  BY <1>2, <1>3, <1>4, <1>5, <1>6 DEF TextOf, MentionedIn, jr, jm

(* The heap *)

\* What buffer b shows in heap h.
ShownIn(h, b) == IF b = 0 THEN << >> ELSE IF b \in DOMAIN h THEN h[b] ELSE <<Freed>>

\* The strings of the handler, by number.
Held(to, at, msg, l) ==
  [i \in 1 .. 3 + Len(l) |->
     IF i = 1 THEN to ELSE IF i = 2 THEN at ELSE IF i = 3 THEN msg ELSE l[i - 3]]

\* Every live buffer has one of them, and one only, for its owner.
Own(held, live) ==
  /\ live = {held[i] : i \in DOMAIN held} \ {0}
  /\ \A i, j \in DOMAIN held : held[i] = held[j] /\ held[i] # 0 => i = j

\* An empty string, or one more, gets a buffer of its own.
LEMMA OwnMore ==
  ASSUME NEW h, NEW g, NEW live, NEW new, NEW k,
         Own(h, live), new \notin live,
         DOMAIN g = DOMAIN h \cup {k},
         k \in DOMAIN h => h[k] = 0,
         g[k] = new,
         \A j \in DOMAIN h \ {k} : g[j] = h[j]
  PROVE  Own(g, live \cup ({new} \ {0}))
<1>1. \A i \in DOMAIN h : h[i] # 0 => h[i] \in live
  BY DEF Own
<1>2. ASSUME NEW i \in DOMAIN g, NEW j \in DOMAIN g, g[i] = g[j], g[i] # 0 PROVE i = j
  <2>1. CASE i = k \/ j = k
    BY <1>1, <1>2, <2>1
  <2>2. CASE i # k /\ j # k
    BY <1>2, <2>2 DEF Own
  <2> QED
    BY <2>1, <2>2
<1>3. \A x \in live \cup ({new} \ {0}) : x \in {g[i] : i \in DOMAIN g} \ {0}
  BY DEF Own
<1>4. \A x \in {g[i] : i \in DOMAIN g} \ {0} : x \in live \cup ({new} \ {0})
  BY <1>1
<1> QED
  BY <1>2, <1>3, <1>4 DEF Own

\* A string gives its buffer up.
LEMMA OwnLess ==
  ASSUME NEW h, NEW g, NEW live, NEW k \in DOMAIN h,
         Own(h, live),
         DOMAIN g = DOMAIN h,
         g[k] = 0,
         \A j \in DOMAIN h \ {k} : g[j] = h[j]
  PROVE  Own(g, live \ {h[k]})
<1>1. \A i \in DOMAIN h : h[i] # 0 => h[i] \in live
  BY DEF Own
<1>2. ASSUME NEW i \in DOMAIN g, NEW j \in DOMAIN g, g[i] = g[j], g[i] # 0 PROVE i = j
  BY <1>2 DEF Own
<1>3. \A x \in live \ {h[k]} : x \in {g[i] : i \in DOMAIN g} \ {0}
  BY DEF Own
<1>4. ASSUME NEW x \in {g[i] : i \in DOMAIN g} \ {0} PROVE x \in live \ {h[k]}
  <2>1. PICK i \in DOMAIN g : x = g[i] /\ g[i] # 0
    OBVIOUS
  <2>2. i # k /\ g[i] = h[i]
    BY <2>1
  <2>3. h[i] # h[k]
    BY <2>1, <2>2 DEF Own
  <2> QED
    BY <1>1, <2>1, <2>2, <2>3
<1> QED
  BY <1>2, <1>3, <1>4 DEF Own

\* A new buffer is nobody else's and leaves the others alone.
LEMMA AllocateNew ==
  ASSUME TextTypeOK, NEW c \in Contents, Allocate(c)
  PROVE  /\ Fresh(c) \in 0 .. allocated' /\ Fresh(c) \notin Live
         /\ Live' = Live \cup ({Fresh(c)} \ {0})
         /\ allocated' \in Nat /\ allocated <= allocated'
         /\ Live' \subseteq 1 .. allocated'
         /\ \A b \in Live' : heap'[b] \in Contents
         /\ ShownIn(heap', Fresh(c)) = c
         /\ \A b \in Live \cup {0} : ShownIn(heap', b) = ShownIn(heap, b)
<1>1. allocated \in Nat /\ Live \subseteq 1 .. allocated /\ \A b \in Live : heap[b] \in Contents
  BY DEF TextTypeOK
<1>2. CASE c = << >>
  <2>1. UNCHANGED <<heap, allocated>> /\ Fresh(c) = 0 /\ UNCHANGED Live
    BY <1>2 DEF Allocate, Fresh, Live
  <2>2. 0 \notin Live
    BY <1>1
  <2>3. 0 \in 0 .. allocated' /\ allocated' \in Nat /\ allocated <= allocated'
    BY <1>1, <2>1
  <2>4. Live' \subseteq 1 .. allocated' /\ \A b \in Live' : heap'[b] \in Contents
    BY <1>1, <2>1
  <2>5. Live' = Live \cup ({0} \ {0})
    BY <2>1
  <2>6. \A b \in Live \cup {0} : ShownIn(heap', b) = ShownIn(heap, b)
    BY <2>1
  <2>7. ShownIn(heap', 0) = c
    BY <1>2 DEF ShownIn
  <2> QED
    BY <2>1, <2>2, <2>3, <2>4, <2>5, <2>6, <2>7
<1>3. CASE c # << >>
  <2>1. /\ allocated' = allocated + 1 /\ Fresh(c) = allocated + 1
        /\ heap' = [b \in Live \cup {allocated + 1} |-> IF b \in Live THEN heap[b] ELSE c]
    BY <1>3 DEF Allocate, Fresh
  <2>2. allocated + 1 \notin Live /\ allocated + 1 # 0 /\ 0 \notin Live
    BY <1>1
  <2>3. Live' = Live \cup {allocated + 1}
    BY <2>1 DEF Live
  <2>4. Live' \subseteq 1 .. allocated'
    BY <1>1, <2>1, <2>3
  <2>5. \A b \in Live' : heap'[b] = IF b \in Live THEN heap[b] ELSE c
    BY <2>1, <2>3
  <2>6. ShownIn(heap', Fresh(c)) = c
    BY <2>1, <2>2, <2>3, <2>5 DEF ShownIn, Live
  <2>7. \A b \in Live \cup {0} : ShownIn(heap', b) = ShownIn(heap, b)
    BY <2>2, <2>3, <2>5 DEF ShownIn, Live
  <2>8. Fresh(c) \in 0 .. allocated' /\ allocated' \in Nat /\ allocated <= allocated'
    BY <1>1, <2>1
  <2>9. Live' = Live \cup ({Fresh(c)} \ {0}) /\ Fresh(c) \notin Live
    BY <2>1, <2>2, <2>3
  <2>10. \A b \in Live' : heap'[b] \in Contents
    BY <1>1, <2>5
  <2> QED
    BY <2>4, <2>6, <2>7, <2>8, <2>9, <2>10
<1> QED
  BY <1>2, <1>3

LEMMA NewCapacity ==
  ASSUME capacity \in Nat
  PROVE  /\ get_new_cap \in Nat
         /\ capacity = 0 => get_new_cap = FirstCap
         /\ capacity # 0 => get_new_cap > capacity
<1>1. FirstCap \in Nat
  BY SendTextAssumption
<1>2. CASE capacity = 0
  BY <1>1, <1>2 DEF get_new_cap
<1>3. CASE capacity # 0
  <2> DEFINE S == {capacity + capacity \div 2, capacity + 1}
  <2>1. \E x \in S : \A y \in S : x >= y
    <3>1. capacity + capacity \div 2 \in Nat /\ capacity + 1 \in Nat
      OBVIOUS
    <3> QED
      BY <3>1
  <2>2. Max(S) \in S /\ \A y \in S : Max(S) >= y
    <3> HIDE DEF S
    <3> QED
      BY <2>1 DEF Max
  <2>3. get_new_cap = Max(S)
    BY <1>3 DEF get_new_cap
  <2> QED
    BY <1>3, <2>2, <2>3
<1> QED
  BY <1>2, <1>3

LEMMA HeldIs ==
  ASSUME NEW to, NEW at, NEW msg, NEW l \in Seq(Nat)
  PROVE  /\ DOMAIN Held(to, at, msg, l) = 1 .. 3 + Len(l)
         /\ Held(to, at, msg, l)[1] = to
         /\ Held(to, at, msg, l)[2] = at
         /\ Held(to, at, msg, l)[3] = msg
         /\ \A i \in 1 .. Len(l) : Held(to, at, msg, l)[3 + i] = l[i]
         /\ \A i \in 1 .. 3 + Len(l) : i \in 1 .. 3 \/ i - 3 \in 1 .. Len(l)
  BY DEF Held

-----------------------------------------------------------------------------
(* The invariant of SendText *)

Strings == Held(toWxid, mmStrAtUser, sendMsg, atUserList)

\* The parts whose text is in msgContent, and those whose mention is on the list.
Appended == IF textPc \in {"push", "drop"} THEN n ELSE n - 1
Pushed == IF textPc = "drop" THEN n ELSE n - 1

\* What is where at which statement.
TextPlaces ==
  /\ textPc \in {"push", "drop"} => n <= Len(body.parts) /\ body.parts[n].type = 1
  /\ textPc \notin {"push", "drop"} => mmStrAtUser = 0
  /\ textPc \notin {"send", "return"} => sendMsg = 0
  /\ textPc \in {"idle", "parse", "done", "thrown"} => toWxid = 0 /\ atUserList = << >>
  /\ textPc \in {"idle", "parse"} => /\ n = 1 /\ msgContent = << >> /\ capacity = 0
                                     /\ Live = {} /\ ~badFree
  /\ textPc \in {"send", "return", "done"} => n = Len(body.parts) + 1
  /\ textPc \notin {"return", "done"} => sent = << >>

WithList == {"loop", "push", "drop", "send", "return"}

\* The list has an element for every mention, and outgrows its first space only when
\* the body has more of them.
ListFits ==
  /\ Len(atUserList) <= capacity
  /\ capacity = 0 \/ capacity >= FirstCap
  /\ textPc \in WithList => Len(atUserList) = Len(MentionedIn(body, Pushed))
  /\ capacity > FirstCap => Grows

TextRight ==
  textPc \in WithList \cup {"done"} => msgContent = TextOf(body, Appended)

\* Until then every live buffer is owned by one string.
HeapOwned == capacity <= FirstCap => ~badFree /\ Own(Strings, Live)

\* And the strings show what they were assigned.
HeapShown ==
  capacity <= FirstCap =>
    /\ textPc \in {"loop", "push", "drop", "send"} =>
         /\ ShownIn(heap, toWxid) = Characters(body.toWxid)
         /\ \A i \in 1 .. Len(atUserList) :
              ShownIn(heap, atUserList[i]) = Characters(MentionedIn(body, Pushed)[i])
    /\ textPc = "push" => ShownIn(heap, mmStrAtUser) = Characters(body.parts[n].value)
    /\ textPc = "send" => ShownIn(heap, sendMsg) = msgContent
    /\ textPc \in {"return", "done"} =>
         LET mentioned == MentionedIn(body, Len(body.parts))
         IN  sent = <<[to |-> Characters(body.toWxid),
                       text |-> TextOf(body, Len(body.parts)),
                       at |-> [i \in 1 .. Len(mentioned) |-> Characters(mentioned[i])]]>>

TextInv ==
  /\ TextTypeOK /\ TextPlaces /\ ListFits /\ TextRight /\ HeapOwned /\ HeapShown

LEMMA TextInit_TextInv ==
  TextInit => TextInv
<1> SUFFICES ASSUME TextInit PROVE TextInv
  OBVIOUS
<1>1. NoBody.parts = << >> /\ Len(NoBody.parts) = 0
  BY DEF NoBody
<1>2. Live = {}
  BY DEF TextInit, Live
<1>3. TextTypeOK
  <2>1. body \in Bodies \cup {NoBody} /\ n \in 1 .. Len(body.parts) + 1
    BY <1>1 DEF TextInit
  <2>2. msgContent \in Contents /\ atUserList \in Seq(0 .. allocated)
    BY DEF TextInit, Contents
  <2>3. sent \in Seq([to : Contents, text : Contents, at : Seq(Contents)])
    BY DEF TextInit
  <2>4. {toWxid, mmStrAtUser, sendMsg} \subseteq 0 .. allocated /\ allocated \in Nat /\ capacity \in Nat
    BY DEF TextInit
  <2>5. textPc = "idle" /\ badFree \in BOOLEAN
    BY DEF TextInit
  <2>6. Live \subseteq 1 .. allocated /\ \A b \in Live : heap[b] \in Contents
    BY <1>2
  <2> QED
    BY <2>1, <2>2, <2>3, <2>4, <2>5, <2>6 DEF TextTypeOK
<1>4. TextPlaces
  BY <1>1, <1>2 DEF TextInit, TextPlaces
<1>5. ListFits /\ TextRight /\ HeapShown
  BY SendTextAssumption DEF TextInit, ListFits, TextRight, HeapShown, WithList
<1>6. HeapOwned
  <2>1. Strings = Held(0, 0, 0, << >>)
    BY DEF TextInit, Strings
  <2>2. \A i \in DOMAIN Strings : Strings[i] = 0
    BY <2>1 DEF Held
  <2> QED
    BY <1>2, <2>2 DEF TextInit, HeapOwned, Own
<1> QED
  BY <1>3, <1>4, <1>5, <1>6 DEF TextInv

\* What the invariant gives to every action.
LEMMA TextFacts ==
  ASSUME TextInv
  PROVE  /\ body \in Bodies \cup {NoBody} /\ Len(body.parts) \in Nat /\ n \in 1 .. Len(body.parts) + 1
         /\ allocated \in Nat /\ capacity \in Nat /\ atUserList \in Seq(Nat) /\ Len(atUserList) \in Nat
         /\ atUserList \in Seq(0 .. allocated) /\ msgContent \in Contents
         /\ toWxid \in 0 .. allocated /\ mmStrAtUser \in 0 .. allocated /\ sendMsg \in 0 .. allocated
         /\ Live \subseteq 1 .. allocated /\ 0 \notin Live
         /\ badFree \in BOOLEAN
         /\ \A b \in Nat : ShownIn(heap, b) = Shows(b) /\ Shows(b) \in Contents
         /\ FirstCap \in Nat \ {0}
<1>1. body \in Bodies \cup {NoBody} /\ n \in 1 .. Len(body.parts) + 1
  BY DEF TextInv, TextTypeOK
<1>2. Len(body.parts) \in Nat
  BY <1>1, PartType
<1>3. /\ allocated \in Nat /\ capacity \in Nat /\ atUserList \in Seq(0 .. allocated)
      /\ toWxid \in 0 .. allocated /\ mmStrAtUser \in 0 .. allocated /\ sendMsg \in 0 .. allocated
      /\ Live \subseteq 1 .. allocated /\ badFree \in BOOLEAN /\ msgContent \in Contents
      /\ \A b \in Live : heap[b] \in Contents
  BY DEF TextInv, TextTypeOK
<1>4. atUserList \in Seq(Nat) /\ Len(atUserList) \in Nat
  <2>1. 0 .. allocated \subseteq Nat
    BY <1>3
  <2> QED
    BY <2>1, <1>3, SeqMonotonic
<1>5. << >> \in Contents /\ <<Freed>> \in Contents
  BY DEF Contents
<1>6. \A b \in Nat : ShownIn(heap, b) = Shows(b) /\ Shows(b) \in Contents
  BY <1>3, <1>5 DEF ShownIn, Shows, Live
<1>7. 0 \notin Live
  BY <1>3
<1> QED
  BY <1>1, <1>2, <1>3, <1>4, <1>6, <1>7, SendTextAssumption

\* The strings and the heap stay as they are.
LEMMA HeapStays ==
  ASSUME TextInv, UNCHANGED <<strings, list, memory>>
  PROVE  /\ HeapOwned'
         /\ toWxid' \in 0 .. allocated' /\ mmStrAtUser' \in 0 .. allocated'
         /\ sendMsg' \in 0 .. allocated'
         /\ atUserList' \in Seq(0 .. allocated')
         /\ capacity' \in Nat /\ allocated' \in Nat /\ Live' \subseteq 1 .. allocated'
         /\ \A b \in Live' : heap'[b] \in Contents
         /\ badFree' \in BOOLEAN
<1>1. /\ UNCHANGED <<toWxid, mmStrAtUser, sendMsg, atUserList, capacity, heap, allocated, badFree>>
      /\ UNCHANGED Live
  BY DEF strings, list, memory, Live
<1>2. HeapOwned'
  BY <1>1 DEF TextInv, HeapOwned, Strings
<1> QED
  BY <1>1, <1>2 DEF TextInv, TextTypeOK

LEMMA Begin_TextInv ==
  ASSUME TextInv, NEW b \in Bodies, Begin(b)
  PROVE  TextInv'
<1>1. /\ textPc = "idle" /\ textPc' = "parse" /\ body' = b
      /\ UNCHANGED <<n, msgContent, strings, list, memory, sent>>
  BY DEF Begin
<1>2. /\ UNCHANGED <<toWxid, mmStrAtUser, sendMsg, atUserList, capacity, badFree>>
      /\ UNCHANGED Live
  BY <1>1 DEF strings, list, memory, Live
<1>3. /\ n = 1 /\ msgContent = << >> /\ capacity = 0 /\ Live = {} /\ ~badFree
      /\ mmStrAtUser = 0 /\ sendMsg = 0 /\ toWxid = 0 /\ atUserList = << >> /\ sent = << >>
  BY <1>1 DEF TextInv, TextPlaces
<1>4. n' \in 1 .. Len(body'.parts) + 1
  BY <1>1, <1>3, PartType
<1>5. TextTypeOK'
  BY <1>1, <1>4, HeapStays DEF TextInv, TextTypeOK
<1>6. TextPlaces'
  BY <1>1, <1>2, <1>3 DEF TextPlaces
<1>7. ListFits' /\ TextRight' /\ HeapShown'
  BY <1>1, <1>2, <1>3, SendTextAssumption DEF ListFits, TextRight, HeapShown, WithList
<1> QED
  BY <1>1, <1>5, <1>6, <1>7, HeapStays DEF TextInv

LEMMA Throws_TextInv ==
  ASSUME TextInv, ParseThrows \/ PartThrows
  PROVE  TextInv'
<1>1. /\ textPc \in {"parse", "loop"} /\ textPc' = "throw"
      /\ UNCHANGED <<body, n, msgContent, strings, list, memory, sent>>
  BY DEF ParseThrows, PartThrows, AtWork
<1>2. /\ UNCHANGED <<toWxid, mmStrAtUser, sendMsg, atUserList, capacity, badFree>>
      /\ UNCHANGED Live
  BY <1>1 DEF strings, list, memory, Live
<1>3. TextTypeOK'
  BY <1>1, HeapStays DEF TextInv, TextTypeOK
<1>4. TextPlaces'
  BY <1>1, <1>2 DEF TextInv, TextPlaces
<1>5. ListFits' /\ TextRight' /\ HeapShown'
  BY <1>1, <1>2 DEF TextInv, ListFits, TextRight, HeapShown, WithList, Grows
<1> QED
  BY <1>1, <1>3, <1>4, <1>5, HeapStays DEF TextInv

LEMMA Parse_TextInv ==
  ASSUME TextInv, Parse
  PROVE  TextInv'
<1> DEFINE c == Characters(body.toWxid)
           new == Fresh(c)
<1>1. /\ textPc = "parse" /\ textPc' = "loop" /\ Allocate(c) /\ toWxid' = new
      /\ UNCHANGED <<body, n, msgContent, mmStrAtUser, sendMsg, list, badFree, sent>>
  BY DEF Parse
<1>2. UNCHANGED <<atUserList, capacity>>
  BY <1>1 DEF list
<1>3. /\ n = 1 /\ msgContent = << >> /\ capacity = 0 /\ Live = {} /\ ~badFree
      /\ mmStrAtUser = 0 /\ sendMsg = 0 /\ toWxid = 0 /\ atUserList = << >> /\ sent = << >>
  BY <1>1 DEF TextInv, TextPlaces
<1>4. /\ body \in Bodies \cup {NoBody} /\ Len(body.parts) \in Nat /\ FirstCap \in Nat \ {0}
  BY TextFacts
<1>5. c \in Contents
  BY <1>4, PartType, CharactersType
<1> HIDE DEF c
<1>6. /\ new \in 0 .. allocated' /\ new \notin Live
      /\ Live' = Live \cup ({new} \ {0})
      /\ allocated' \in Nat /\ Live' \subseteq 1 .. allocated'
      /\ \A b \in Live' : heap'[b] \in Contents
      /\ ShownIn(heap', new) = c
  BY <1>1, <1>5, AllocateNew DEF TextInv
<1> HIDE DEF new
<1>7. TextTypeOK'
  <2>1. 0 \in 0 .. allocated' /\ << >> \in Seq(0 .. allocated')
    BY <1>6
  <2> QED
    BY <1>1, <1>2, <1>3, <1>6, <2>1 DEF TextInv, TextTypeOK
<1>8. TextPlaces'
  BY <1>1, <1>2, <1>3 DEF TextPlaces
<1>9. ListFits'
  <2>1. MentionedIn(body, 0) = << >>
    BY <1>4, PartAfterPart
  <2>2. Pushed' = 0 /\ body' = body
    BY <1>1, <1>3 DEF Pushed
  <2> QED
    BY <1>1, <1>2, <1>3, <1>4, <2>1, <2>2 DEF ListFits
<1>10. TextRight'
  <2>1. TextOf(body, 0) = << >>
    BY <1>4, PartAfterPart
  <2>2. Appended' = 0 /\ body' = body
    BY <1>1, <1>3 DEF Appended
  <2> QED
    BY <1>1, <1>3, <2>1, <2>2 DEF TextRight
<1>11. HeapOwned'
  <2> DEFINE h == Held(0, 0, 0, << >>)
             g == Held(new, 0, 0, << >>)
  <2>1. Strings = h /\ Strings' = g
    BY <1>1, <1>2, <1>3 DEF Strings
  <2>2. /\ DOMAIN h = 1 .. 3 /\ DOMAIN g = 1 .. 3 /\ g[1] = new /\ h[1] = 0
        /\ \A j \in 1 .. 3 : h[j] = 0 /\ (j # 1 => g[j] = 0)
    BY DEF Held
  <2> HIDE DEF h, g
  <2>3. Own(h, Live)
    BY <1>3, <2>2 DEF Own
  <2>4. DOMAIN g = DOMAIN h \cup {1} /\ (\A j \in DOMAIN h \ {1} : g[j] = h[j])
    BY <2>2
  <2>5. Own(g, Live \cup ({new} \ {0}))
    BY <1>6, <2>2, <2>3, <2>4, OwnMore
  <2> QED
    BY <1>1, <1>3, <1>6, <2>1, <2>5 DEF HeapOwned
<1>12. HeapShown'
  <2>1. \A i \in 1 .. Len(atUserList') : FALSE
    BY <1>2, <1>3
  <2> QED
    BY <1>1, <1>6, <2>1 DEF HeapShown, c
<1> QED
  BY <1>7, <1>8, <1>9, <1>10, <1>11, <1>12 DEF TextInv

\* The part under way.
LEMMA NextPartIs ==
  ASSUME TextInv, n \in 1 .. Len(body.parts)
  PROVE  LET p == body.parts[n]
         IN  /\ p \in Part
             /\ TextOf(body, n) = TextOf(body, n - 1) \o Reads(p)
             /\ MentionedIn(body, n)
                  = MentionedIn(body, n - 1) \o (IF p.type = 1 THEN <<p.value>> ELSE << >>)
             /\ TextOf(body, n - 1) \in Contents /\ TextOf(body, n) \in Contents
             /\ MentionedIn(body, n - 1) \in Contents /\ MentionedIn(body, n) \in Contents
             /\ Len(MentionedIn(body, n)) <= Len(Mentions(body))
<1>1. PICK b \in Bodies \cup {NoBody} : b = body
  BY TextFacts
<1>2. PICK k \in 1 .. Len(b.parts) : k = n
  BY <1>1
<1>3. k \in 0 .. Len(b.parts) /\ k - 1 \in 0 .. Len(b.parts)
  BY PartType
<1> DEFINE p == b.parts[k]
<1>4. p \in Part
  BY PartType
<1> HIDE DEF p
<1>5. /\ TextOf(b, k) = TextOf(b, k - 1) \o Reads(p)
      /\ MentionedIn(b, k)
           = MentionedIn(b, k - 1) \o (IF p.type = 1 THEN <<p.value>> ELSE << >>)
  BY PartAfterPart DEF p
<1>6. /\ TextOf(b, k - 1) \in Contents /\ TextOf(b, k) \in Contents
      /\ MentionedIn(b, k - 1) \in Contents /\ MentionedIn(b, k) \in Contents
      /\ Len(MentionedIn(b, k)) <= Len(Mentions(b))
  BY <1>3, PartAfterPart
<1> QED
  BY <1>1, <1>2, <1>4, <1>5, <1>6 DEF p

LEMMA TextPart_TextInv ==
  ASSUME TextInv, TextPart
  PROVE  TextInv'
<1> DEFINE p == body.parts[n]
<1>1. /\ textPc = "loop" /\ n <= Len(body.parts) /\ p.type # 1
      /\ msgContent' = IF p.type = 0 THEN msgContent \o Characters(p.value) ELSE msgContent
      /\ n' = n + 1
      /\ UNCHANGED <<textPc, body, strings, list, memory, sent>>
  BY DEF TextPart, AtWork, NextPart
<1>2. /\ UNCHANGED <<toWxid, mmStrAtUser, sendMsg, atUserList, capacity, badFree, heap>>
      /\ UNCHANGED Live
  BY <1>1 DEF strings, list, memory, Live
<1>3. /\ body \in Bodies \cup {NoBody} /\ Len(body.parts) \in Nat /\ msgContent \in Contents
      /\ n \in 1 .. Len(body.parts) + 1
  BY TextFacts
<1>4. n \in 1 .. Len(body.parts) /\ n - 1 \in 0 .. Len(body.parts) /\ n' - 1 = n
      /\ n' \in 1 .. Len(body.parts) + 1
  BY <1>1, <1>3
<1>5. p \in Part
  BY <1>3, <1>4, PartType
<1>6. Appended = n - 1 /\ Appended' = n /\ Pushed = n - 1 /\ Pushed' = n
  BY <1>1, <1>4 DEF Appended, Pushed
<1>7. /\ TextOf(body, n) = TextOf(body, n - 1) \o Reads(p)
      /\ MentionedIn(body, n) = MentionedIn(body, n - 1) \o << >>
      /\ TextOf(body, n - 1) \in Contents /\ TextOf(body, n) \in Contents
      /\ MentionedIn(body, n - 1) \in Contents
  BY <1>1, <1>4, NextPartIs
<1>8. MentionedIn(body, n) = MentionedIn(body, n - 1)
  BY <1>7, ConcatEmptySeq DEF Contents
<1>9. msgContent = TextOf(body, n - 1)
  BY <1>1, <1>6 DEF TextInv, TextRight, WithList
<1>10. msgContent' = TextOf(body, n)
  <2>1. CASE p.type = 0
    BY <1>1, <1>7, <1>9, <2>1 DEF Reads
  <2>2. CASE p.type # 0
    <3>1. Reads(p) = << >>
      BY <1>1, <2>2 DEF Reads
    <3>2. TextOf(body, n - 1) \o << >> = TextOf(body, n - 1)
      BY <1>7, ConcatEmptySeq DEF Contents
    <3> QED
      BY <1>1, <1>7, <1>9, <2>2, <3>1, <3>2
  <2> QED
    BY <2>1, <2>2
<1> HIDE DEF p
<1>11. TextTypeOK'
  BY <1>1, <1>4, <1>7, <1>10, HeapStays DEF TextInv, TextTypeOK
<1>12. TextPlaces'
  BY <1>1, <1>2 DEF TextInv, TextPlaces
<1>13. ListFits'
  <2>1. Grows' <=> Grows
    BY <1>1 DEF Grows
  <2> QED
    BY <1>1, <1>2, <1>6, <1>8, <2>1 DEF TextInv, ListFits
<1>14. TextRight'
  BY <1>1, <1>6, <1>10 DEF TextRight
<1>15. HeapShown'
  BY <1>1, <1>2, <1>6, <1>8 DEF TextInv, HeapShown
<1> QED
  BY <1>1, <1>11, <1>12, <1>13, <1>14, <1>15, HeapStays DEF TextInv

LEMMA OwnedAreLive ==
  ASSUME TextInv, capacity <= FirstCap
  PROVE  /\ toWxid \in Live \cup {0} /\ mmStrAtUser \in Live \cup {0} /\ sendMsg \in Live \cup {0}
         /\ \A i \in 1 .. Len(atUserList) : atUserList[i] \in Live \cup {0}
<1>1. atUserList \in Seq(Nat) /\ Len(atUserList) \in Nat
  BY TextFacts
<1>2. \A i \in DOMAIN Strings : Strings[i] \in Live \cup {0}
  BY DEF TextInv, HeapOwned, Own
<1>3. /\ DOMAIN Strings = 1 .. 3 + Len(atUserList)
      /\ Strings[1] = toWxid /\ Strings[2] = mmStrAtUser /\ Strings[3] = sendMsg
      /\ \A i \in 1 .. Len(atUserList) : Strings[3 + i] = atUserList[i]
  BY <1>1, HeldIs DEF Strings
<1>4. 1 \in DOMAIN Strings /\ 2 \in DOMAIN Strings /\ 3 \in DOMAIN Strings
      /\ \A i \in 1 .. Len(atUserList) : 3 + i \in DOMAIN Strings
  BY <1>1, <1>3
<1> QED
  BY <1>2, <1>3, <1>4

LEMMA AtUser_TextInv ==
  ASSUME TextInv, AtUser
  PROVE  TextInv'
<1> DEFINE p == body.parts[n]
           c == Characters(p.value)
           new == Fresh(c)
<1>1. /\ textPc = "loop" /\ textPc' = "push" /\ n <= Len(body.parts) /\ p.type = 1
      /\ msgContent' = msgContent \o <<"@">> \o Characters(NickName(p))
      /\ Allocate(c) /\ mmStrAtUser' = new
      /\ UNCHANGED <<body, n, toWxid, sendMsg, list, badFree, sent>>
  BY DEF AtUser, AtWork, NextPart
<1>2. UNCHANGED <<atUserList, capacity>>
  BY <1>1 DEF list
<1>3. /\ body \in Bodies \cup {NoBody} /\ Len(body.parts) \in Nat /\ msgContent \in Contents
      /\ n \in 1 .. Len(body.parts) + 1 /\ atUserList \in Seq(Nat) /\ Len(atUserList) \in Nat
      /\ toWxid \in 0 .. allocated /\ sendMsg \in 0 .. allocated /\ allocated \in Nat
      /\ atUserList \in Seq(0 .. allocated) /\ 0 \notin Live
  BY TextFacts
<1>4. n \in 1 .. Len(body.parts)
  BY <1>1, <1>3
<1>5. /\ p \in Part
      /\ TextOf(body, n) = TextOf(body, n - 1) \o Reads(p)
      /\ TextOf(body, n - 1) \in Contents /\ TextOf(body, n) \in Contents
  BY <1>4, NextPartIs
<1>6. Appended = n - 1 /\ Appended' = n /\ Pushed = n - 1 /\ Pushed' = n - 1
  BY <1>1 DEF Appended, Pushed
<1>7. mmStrAtUser = 0 /\ sendMsg = 0 /\ sent = << >>
  BY <1>1 DEF TextInv, TextPlaces
<1> HIDE DEF p
<1>8. c \in Contents /\ Characters(NickName(p)) \in Contents
  BY <1>5, CharactersType, NameIsNickName DEF Part
<1> HIDE DEF c
<1>9. /\ new \in 0 .. allocated' /\ new \notin Live
      /\ Live' = Live \cup ({new} \ {0})
      /\ allocated' \in Nat /\ allocated <= allocated' /\ Live' \subseteq 1 .. allocated'
      /\ \A b \in Live' : heap'[b] \in Contents
      /\ ShownIn(heap', new) = c
      /\ \A b \in Live \cup {0} : ShownIn(heap', b) = ShownIn(heap, b)
  BY <1>1, <1>8, AllocateNew DEF TextInv
<1> HIDE DEF new
<1>10. msgContent' = TextOf(body, n)
  <2>1. msgContent = TextOf(body, n - 1)
    BY <1>1, <1>6 DEF TextInv, TextRight, WithList
  <2>2. Reads(p) = <<"@">> \o Characters(NickName(p))
    BY <1>1, <1>5, NameIsNickName DEF Reads
  <2>3. <<"@">> \in Contents
    BY DEF Contents
  <2>4. msgContent \o <<"@">> \o Characters(NickName(p))
          = msgContent \o (<<"@">> \o Characters(NickName(p)))
    BY <1>3, <1>8, <2>3, ConcatAssociative DEF Contents
  <2> QED
    BY <1>1, <1>5, <2>1, <2>2, <2>4
<1>11. 0 .. allocated \subseteq 0 .. allocated'
  BY <1>3, <1>9
<1>12. TextTypeOK'
  <2>1. atUserList \in Seq(0 .. allocated')
    BY <1>3, <1>11, SeqMonotonic
  <2>2. toWxid \in 0 .. allocated' /\ sendMsg \in 0 .. allocated'
    BY <1>3, <1>11
  <2> QED
    BY <1>1, <1>2, <1>5, <1>9, <1>10, <2>1, <2>2 DEF TextInv, TextTypeOK
<1>13. TextPlaces'
  BY <1>1, <1>7 DEF TextPlaces, p
<1>14. ListFits'
  <2>1. Grows' <=> Grows
    BY <1>1 DEF Grows
  <2> QED
    BY <1>1, <1>2, <1>6, <2>1 DEF TextInv, ListFits, WithList
<1>15. TextRight'
  BY <1>1, <1>6, <1>10 DEF TextRight
<1>16. HeapOwned'
  <2>1. SUFFICES ASSUME capacity <= FirstCap
                 PROVE  ~badFree' /\ Own(Strings', Live')
    BY <1>2 DEF HeapOwned
  <2>2. ~badFree /\ Own(Strings, Live)
    BY <2>1 DEF TextInv, HeapOwned
  <2> DEFINE h == Held(toWxid, 0, 0, atUserList)
             g == Held(toWxid, new, 0, atUserList)
  <2>3. Strings = h /\ Strings' = g
    BY <1>1, <1>2, <1>7 DEF Strings
  <2>4. DOMAIN h = 1 .. 3 + Len(atUserList) /\ 2 \in DOMAIN h /\ DOMAIN g = DOMAIN h \cup {2}
        /\ h[2] = 0 /\ g[2] = new /\ \A j \in DOMAIN h \ {2} : g[j] = h[j]
    BY <1>3 DEF Held
  <2> HIDE DEF h, g
  <2>5. Own(g, Live \cup ({new} \ {0}))
    BY <1>9, <2>2, <2>3, <2>4, OwnMore
  <2> QED
    BY <1>1, <1>9, <2>2, <2>3, <2>5
<1>17. HeapShown'
  <2>1. SUFFICES ASSUME capacity <= FirstCap
                 PROVE  /\ ShownIn(heap', toWxid) = Characters(body.toWxid)
                        /\ \A i \in 1 .. Len(atUserList) :
                             ShownIn(heap', atUserList[i]) = Characters(MentionedIn(body, n - 1)[i])
                        /\ ShownIn(heap', new) = c
    BY <1>1, <1>2, <1>6 DEF HeapShown, p, c
  <2>2. /\ ShownIn(heap, toWxid) = Characters(body.toWxid)
        /\ \A i \in 1 .. Len(atUserList) :
             ShownIn(heap, atUserList[i]) = Characters(MentionedIn(body, n - 1)[i])
    BY <1>1, <1>6, <2>1 DEF TextInv, HeapShown
  <2>3. toWxid \in Live \cup {0} /\ \A i \in 1 .. Len(atUserList) : atUserList[i] \in Live \cup {0}
    BY <2>1, OwnedAreLive
  <2> QED
    BY <1>9, <2>2, <2>3
<1> QED
  BY <1>12, <1>13, <1>14, <1>15, <1>16, <1>17 DEF TextInv

\* The mention of the part under way is the next one.
LEMMA NextMention ==
  ASSUME TextInv, textPc = "push"
  PROVE  /\ n \in 1 .. Len(body.parts)
         /\ Len(atUserList) = Len(MentionedIn(body, n - 1))
         /\ Len(MentionedIn(body, n)) = Len(atUserList) + 1
         /\ \A i \in 1 .. Len(atUserList) : MentionedIn(body, n)[i] = MentionedIn(body, n - 1)[i]
         /\ MentionedIn(body, n)[Len(atUserList) + 1] = body.parts[n].value
         /\ Len(atUserList) + 1 <= Len(Mentions(body))
<1> DEFINE m == MentionedIn(body, n - 1)
           v == body.parts[n].value
<1>1. n \in 1 .. Len(body.parts) /\ body.parts[n].type = 1
  BY TextFacts DEF TextInv, TextPlaces
<1>2. /\ MentionedIn(body, n) = m \o <<v>> /\ m \in Contents /\ body.parts[n] \in Part
      /\ Len(MentionedIn(body, n)) <= Len(Mentions(body))
  BY <1>1, NextPartIs
<1>3. v \in Values
  BY <1>2 DEF Part
<1>4. <<v>> \in Contents
  BY <1>3, CharactersType
<1>5. Len(atUserList) = Len(m)
  BY DEF TextInv, ListFits, WithList, Pushed
<1> HIDE DEF m, v
<1>6. m \in Seq(Values \cup {"@", Freed}) /\ <<v>> \in Seq(Values \cup {"@", Freed})
  BY <1>2, <1>4 DEF Contents
<1>7. /\ Len(m \o <<v>>) = Len(m) + 1 /\ Len(m) \in Nat
      /\ \A i \in 1 .. Len(m) + 1 : (m \o <<v>>)[i] = IF i <= Len(m) THEN m[i] ELSE <<v>>[i - Len(m)]
  BY <1>6, ConcatProperties
<1>8. (m \o <<v>>)[Len(m) + 1] = v /\ \A i \in 1 .. Len(m) : (m \o <<v>>)[i] = m[i]
  BY <1>7
<1> QED
  BY <1>1, <1>2, <1>5, <1>7, <1>8 DEF m, v

\* What an action does that puts a string of its own on the list, which new is the
\* buffer of.  The vector may have moved its elements.
Pushes(new) ==
  /\ textPc = "push" /\ textPc' = "drop"
  /\ atUserList' = Append(atUserList, new)
  /\ UNCHANGED <<body, n, msgContent, strings, sent>>
  /\ new \in 0 .. allocated'
  /\ allocated' \in Nat /\ allocated <= allocated' /\ Live' \subseteq 1 .. allocated'
  /\ \A b \in Live' : heap'[b] \in Contents
  /\ badFree' \in BOOLEAN /\ capacity' \in Nat
  /\ Len(atUserList) + 1 <= capacity'
  /\ capacity' >= FirstCap
  /\ capacity' > FirstCap => Grows
  /\ capacity' <= FirstCap =>
       /\ capacity <= FirstCap /\ badFree' = badFree
       /\ new \notin Live
       /\ Live' = Live \cup ({new} \ {0})
       /\ ShownIn(heap', new) = Shows(mmStrAtUser)
       /\ \A b \in Live \cup {0} : ShownIn(heap', b) = ShownIn(heap, b)

LEMMA Pushes_TextInv ==
  ASSUME TextInv, NEW new, Pushes(new)
  PROVE  TextInv'
<1>1. /\ textPc = "push" /\ textPc' = "drop"
      /\ atUserList' = Append(atUserList, new)
      /\ UNCHANGED <<body, n, msgContent, strings, sent>>
      /\ new \in 0 .. allocated'
      /\ allocated' \in Nat /\ allocated <= allocated' /\ Live' \subseteq 1 .. allocated'
      /\ \A b \in Live' : heap'[b] \in Contents
      /\ badFree' \in BOOLEAN /\ capacity' \in Nat
  BY DEF Pushes
<1>2. UNCHANGED <<toWxid, mmStrAtUser, sendMsg>>
  BY <1>1 DEF strings
<1>3. /\ body \in Bodies \cup {NoBody} /\ Len(body.parts) \in Nat
      /\ n \in 1 .. Len(body.parts) + 1 /\ atUserList \in Seq(Nat) /\ Len(atUserList) \in Nat
      /\ toWxid \in 0 .. allocated /\ sendMsg \in 0 .. allocated /\ mmStrAtUser \in 0 .. allocated
      /\ atUserList \in Seq(0 .. allocated) /\ 0 \notin Live /\ allocated \in Nat
  BY TextFacts
<1>4. 0 .. allocated \subseteq 0 .. allocated'
  BY <1>1, <1>3
<1>5. /\ Len(atUserList') = Len(atUserList) + 1
      /\ \A i \in 1 .. Len(atUserList) : atUserList'[i] = atUserList[i]
      /\ atUserList'[Len(atUserList) + 1] = new
      /\ atUserList' \in Seq(0 .. allocated')
  <2>1. atUserList \in Seq(0 .. allocated')
    BY <1>3, <1>4, SeqMonotonic
  <2> QED
    BY <1>1, <2>1
<1>6. Appended = n /\ Appended' = n /\ Pushed = n - 1 /\ Pushed' = n
  BY <1>1 DEF Appended, Pushed
<1>7. TextTypeOK'
  <2>1. toWxid \in 0 .. allocated' /\ sendMsg \in 0 .. allocated' /\ mmStrAtUser \in 0 .. allocated'
    BY <1>3, <1>4
  <2>2. {toWxid', mmStrAtUser', sendMsg'} \subseteq 0 .. allocated'
    BY <1>2, <2>1
  <2> QED
    BY <1>1, <1>5, <2>2 DEF TextInv, TextTypeOK
<1>8. TextPlaces'
  BY <1>1, <1>2 DEF TextInv, TextPlaces
<1>9. ListFits'
  <2>1. Grows' <=> Grows
    BY <1>1 DEF Grows
  <2>2. Len(atUserList') = Len(MentionedIn(body', Pushed'))
    BY <1>1, <1>5, <1>6, NextMention
  <2> QED
    BY <1>1, <1>5, <2>1, <2>2 DEF ListFits, Pushes
<1>10. TextRight'
  BY <1>1, <1>6 DEF TextInv, TextRight, WithList
<1>11. HeapOwned'
  <2>1. SUFFICES ASSUME capacity' <= FirstCap
                 PROVE  ~badFree' /\ Own(Strings', Live')
    BY DEF HeapOwned
  <2>2. capacity <= FirstCap /\ badFree' = badFree /\ new \notin Live /\ Live' = Live \cup ({new} \ {0})
    BY <2>1 DEF Pushes
  <2>3. ~badFree /\ Own(Strings, Live)
    BY <2>2 DEF TextInv, HeapOwned
  <2> DEFINE h == Held(toWxid, mmStrAtUser, sendMsg, atUserList)
             g == Held(toWxid, mmStrAtUser, sendMsg, atUserList')
             k == 4 + Len(atUserList)
  <2>4. Strings = h /\ Strings' = g
    BY <1>2 DEF Strings
  <2>5. DOMAIN h = 1 .. 3 + Len(atUserList) /\ DOMAIN g = 1 .. 4 + Len(atUserList)
    BY <1>3, <1>5 DEF Held
  <2>6. g[k] = new /\ k \notin DOMAIN h /\ DOMAIN g = DOMAIN h \cup {k}
    <3>1. k \in 1 .. 3 + Len(atUserList') /\ k # 1 /\ k # 2 /\ k # 3 /\ k - 3 = Len(atUserList) + 1
      BY <1>3, <1>5
    <3>2. g[k] = atUserList'[k - 3]
      BY <3>1 DEF Held
    <3> QED
      BY <1>3, <1>5, <2>5, <3>1, <3>2
  <2>7. ASSUME NEW j \in DOMAIN h \ {k} PROVE g[j] = h[j]
    <3>1. j \in 1 .. 3 + Len(atUserList) /\ j \in 1 .. 3 + Len(atUserList')
      BY <1>3, <1>5, <2>5
    <3>2. CASE j \in 1 .. 3
      BY <3>1, <3>2 DEF Held
    <3>3. CASE j \notin 1 .. 3
      <4>1. j - 3 \in 1 .. Len(atUserList) /\ j # 1 /\ j # 2 /\ j # 3
        <5>1. Len(atUserList) \in Nat /\ j \in 1 .. 3 + Len(atUserList)
          BY <1>3, <3>1
        <5> HIDE DEF h, g, k
        <5> QED
          BY <3>3, <5>1
      <4>2. atUserList'[j - 3] = atUserList[j - 3]
        BY <1>5, <4>1
      <4>3. h[j] = atUserList[j - 3] /\ g[j] = atUserList'[j - 3]
        BY <3>1, <4>1 DEF Held
      <4> QED
        BY <4>2, <4>3
    <3> QED
      BY <3>2, <3>3
  <2> HIDE DEF h, g, k
  <2>8. Own(g, Live \cup ({new} \ {0}))
    <3>1. k \in DOMAIN h => h[k] = 0
      BY <2>6
    <3> QED
      BY <2>2, <2>3, <2>4, <2>6, <2>7, <3>1, OwnMore
  <2> QED
    BY <2>2, <2>3, <2>4, <2>8
<1>12. HeapShown'
  <2>1. SUFFICES ASSUME capacity' <= FirstCap
                 PROVE  /\ ShownIn(heap', toWxid) = Characters(body.toWxid)
                        /\ \A i \in 1 .. Len(atUserList') :
                             ShownIn(heap', atUserList'[i]) = Characters(MentionedIn(body, n)[i])
    BY <1>1, <1>2, <1>6 DEF HeapShown
  <2>2. /\ capacity <= FirstCap /\ ShownIn(heap', new) = Shows(mmStrAtUser)
        /\ \A b \in Live \cup {0} : ShownIn(heap', b) = ShownIn(heap, b)
    BY <2>1 DEF Pushes
  <2>3. /\ ShownIn(heap, toWxid) = Characters(body.toWxid)
        /\ \A i \in 1 .. Len(atUserList) :
             ShownIn(heap, atUserList[i]) = Characters(MentionedIn(body, n - 1)[i])
        /\ ShownIn(heap, mmStrAtUser) = Characters(body.parts[n].value)
    BY <1>1, <1>6, <2>2 DEF TextInv, HeapShown
  <2>4. toWxid \in Live \cup {0} /\ \A i \in 1 .. Len(atUserList) : atUserList[i] \in Live \cup {0}
    BY <2>2, OwnedAreLive
  <2>5. ASSUME NEW i \in 1 .. Len(atUserList')
        PROVE  ShownIn(heap', atUserList'[i]) = Characters(MentionedIn(body, n)[i])
    <3>1. CASE i = Len(atUserList) + 1
      <4>1. mmStrAtUser \in Nat
        BY <1>3
      <4>2. ShownIn(heap, mmStrAtUser) = Shows(mmStrAtUser)
        BY <4>1, TextFacts
      <4>3. MentionedIn(body, n)[i] = body.parts[n].value
        BY <1>1, <3>1, NextMention
      <4> QED
        BY <1>5, <2>2, <2>3, <3>1, <4>2, <4>3
    <3>2. CASE i # Len(atUserList) + 1
      <4>1. i \in 1 .. Len(atUserList)
        BY <1>3, <1>5, <3>2
      <4>2. MentionedIn(body, n)[i] = MentionedIn(body, n - 1)[i]
        BY <1>1, <4>1, NextMention
      <4> QED
        BY <1>5, <2>2, <2>3, <2>4, <4>1, <4>2
    <3> QED
      BY <3>1, <3>2
  <2> QED
    BY <2>2, <2>3, <2>4, <2>5
<1> QED
  BY <1>7, <1>8, <1>9, <1>10, <1>11, <1>12 DEF TextInv

LEMMA PushBack_TextInv ==
  ASSUME TextInv, PushBack
  PROVE  TextInv'
<1> DEFINE c == Shows(mmStrAtUser)
           new == Fresh(c)
<1>1. /\ textPc = "push" /\ textPc' = "drop" /\ Len(atUserList) < capacity /\ Allocate(c)
      /\ atUserList' = Append(atUserList, new)
      /\ UNCHANGED <<body, n, msgContent, strings, capacity, badFree, sent>>
  BY DEF PushBack
<1>2. mmStrAtUser \in Nat /\ c \in Contents /\ Len(atUserList) \in Nat /\ capacity \in Nat
      /\ badFree \in BOOLEAN /\ FirstCap \in Nat \ {0}
  BY TextFacts
<1> HIDE DEF c
<1>3. /\ new \in 0 .. allocated' /\ new \notin Live
      /\ Live' = Live \cup ({new} \ {0})
      /\ allocated' \in Nat /\ allocated <= allocated' /\ Live' \subseteq 1 .. allocated'
      /\ \A b \in Live' : heap'[b] \in Contents
      /\ ShownIn(heap', new) = c
      /\ \A b \in Live \cup {0} : ShownIn(heap', b) = ShownIn(heap, b)
  BY <1>1, <1>2, AllocateNew DEF TextInv
<1> HIDE DEF new
<1>4. Len(atUserList) + 1 <= capacity' /\ capacity' >= FirstCap /\ (capacity' > FirstCap => Grows)
  BY <1>1, <1>2 DEF TextInv, ListFits
<1>5. Pushes(new)
  BY <1>1, <1>2, <1>3, <1>4 DEF Pushes, c
<1> QED
  BY <1>5, Pushes_TextInv

\* The list is full.  The first time it is empty.
LEMMA Grow_TextInv ==
  ASSUME TextInv, Grow
  PROVE  TextInv'
<1> DEFINE c == Shows(mmStrAtUser)
           new == Fresh(c)
           freed == {atUserList[i] : i \in DOMAIN atUserList} \ {0}
<1>1. /\ textPc = "push" /\ textPc' = "drop" /\ Len(atUserList) = capacity
      /\ capacity' = get_new_cap
      /\ atUserList' = Append(atUserList, new)
      /\ allocated' = IF new = 0 THEN allocated ELSE new
      /\ heap' = [b \in (Live \ freed) \cup ({new} \ {0}) |-> IF b = new THEN c ELSE heap[b]]
      /\ badFree' = (badFree \/ ~(freed \subseteq Live))
      /\ UNCHANGED <<body, n, msgContent, strings, sent>>
  BY DEF Grow
<1>2. /\ c \in Contents /\ Len(atUserList) \in Nat /\ capacity \in Nat /\ badFree \in BOOLEAN
      /\ FirstCap \in Nat \ {0} /\ allocated \in Nat /\ Live \subseteq 1 .. allocated
      /\ \A b \in Live : heap[b] \in Contents
      /\ atUserList \in Seq(Nat)
  BY TextFacts DEF TextInv, TextTypeOK
<1> HIDE DEF c
<1>3. new = IF c = << >> THEN 0 ELSE allocated + 1
  BY DEF Fresh
<1> HIDE DEF new, freed
<1>4. /\ new \in 0 .. allocated' /\ new \notin Live /\ allocated' \in Nat /\ allocated <= allocated'
      /\ 0 \notin Live
  BY <1>1, <1>2, <1>3
<1>5. Live' = (Live \ freed) \cup ({new} \ {0})
  BY <1>1 DEF Live
<1>6. Live' \subseteq 1 .. allocated'
  <2>1. 1 .. allocated \subseteq 1 .. allocated' /\ (new # 0 => new \in 1 .. allocated')
    BY <1>2, <1>4
  <2> QED
    BY <1>2, <1>5, <2>1
<1>7. \A b \in Live' : heap'[b] = IF b = new THEN c ELSE heap[b]
  BY <1>1, <1>5
<1>8. \A b \in Live' : heap'[b] \in Contents
  BY <1>2, <1>5, <1>7
<1>9. /\ capacity' \in Nat /\ Len(atUserList) + 1 <= capacity'
      /\ capacity = 0 => capacity' = FirstCap
      /\ capacity # 0 => capacity' > capacity
  BY <1>1, <1>2, NewCapacity
<1>10. Len(atUserList) + 1 <= Len(Mentions(body))
  BY <1>1, NextMention
<1>11. capacity # 0 => capacity' > FirstCap /\ capacity >= FirstCap
  BY <1>2, <1>9 DEF TextInv, ListFits
<1>12. capacity' > FirstCap => Grows
  <2>1. capacity # 0 => Grows
    <3>1. body \in Bodies \cup {NoBody}
      BY TextFacts
    <3>2. Len(Mentions(body)) \in Nat
      <4>1. PICK b \in Bodies \cup {NoBody} : b = body
        BY <3>1
      <4>2. Len(b.parts) \in 0 .. Len(b.parts)
        BY PartType
      <4>3. Mentions(b) \in Contents
        BY <4>2, PartAfterPart
      <4>4. Len(Mentions(b)) \in Nat
        BY <4>3 DEF Contents
      <4> QED
        BY <4>1, <4>4
    <3> QED
      BY <1>1, <1>2, <1>10, <1>11, <3>2 DEF Grows
  <2> QED
    BY <1>2, <1>9, <2>1
<1>13. ASSUME capacity' <= FirstCap
       PROVE  /\ capacity <= FirstCap /\ badFree' = badFree
              /\ Live' = Live \cup ({new} \ {0})
              /\ ShownIn(heap', new) = c
              /\ \A b \in Live \cup {0} : ShownIn(heap', b) = ShownIn(heap, b)
  <2>1. capacity = 0
    BY <1>2, <1>9, <1>11, <1>13
  <2>2. freed = {}
    BY <1>1, <1>2, <2>1 DEF freed
  <2>3. Live' = Live \cup ({new} \ {0})
    BY <1>5, <2>2
  <2>4. ShownIn(heap', new) = c
    BY <1>2, <1>3, <1>4, <1>7, <2>3 DEF ShownIn, Live
  <2>5. \A b \in Live \cup {0} : ShownIn(heap', b) = ShownIn(heap, b)
    BY <1>4, <1>7, <2>3 DEF ShownIn, Live
  <2>6. freed \subseteq Live
    BY <2>2
  <2>7. badFree' = badFree
    BY <1>1, <1>2, <2>6, Zenon
  <2>8. capacity <= FirstCap
    BY <1>2, <2>1
  <2> QED
    BY <2>3, <2>4, <2>5, <2>7, <2>8
<1>14. badFree' \in BOOLEAN /\ capacity' >= FirstCap
  BY <1>1, <1>2, <1>9, <1>11
<1>15. Pushes(new)
  BY <1>1, <1>4, <1>6, <1>8, <1>9, <1>12, <1>13, <1>14 DEF Pushes, c
<1> QED
  BY <1>15, Pushes_TextInv

LEMMA DropAtUser_TextInv ==
  ASSUME TextInv, DropAtUser
  PROVE  TextInv'
<1> DEFINE a == mmStrAtUser
           l == Len(atUserList)
<1>1. /\ textPc = "drop" /\ textPc' = "loop" /\ Destroy(<<a>>) /\ mmStrAtUser' = 0 /\ n' = n + 1
      /\ UNCHANGED <<body, msgContent, toWxid, sendMsg, list, allocated, sent>>
  BY DEF DropAtUser
<1>2. UNCHANGED <<atUserList, capacity>>
  BY <1>1 DEF list
<1>3. /\ Len(body.parts) \in Nat /\ n \in 1 .. Len(body.parts) + 1 /\ atUserList \in Seq(Nat) /\ l \in Nat
      /\ 0 \notin Live /\ allocated \in Nat /\ a \in Nat
      /\ Live \subseteq 1 .. allocated /\ badFree \in BOOLEAN
  BY TextFacts
<1>4. n \in 1 .. Len(body.parts) /\ n' \in 1 .. Len(body'.parts) + 1 /\ n' - 1 = n
  BY <1>1, <1>3 DEF TextInv, TextPlaces
<1>5. Appended = n /\ Appended' = n /\ Pushed = n /\ Pushed' = n
  BY <1>1, <1>4 DEF Appended, Pushed
<1>6. /\ {<<a>>[i] : i \in DOMAIN <<a>>} \ {0} = {a} \ {0}
      /\ \A b : \A i, j \in {i \in DOMAIN <<a>> : <<a>>[i] = b} : i = j
  OBVIOUS
<1>7. /\ heap' = [b \in Live \ ({a} \ {0}) |-> heap[b]]
      /\ badFree' = (badFree \/ \E b \in {a} \ {0} : b \notin Live)
  <2>1. heap' = [b \in Live \ ({a} \ {0}) |-> heap[b]]
    BY <1>1, <1>6 DEF Destroy
  <2>2. badFree' = \/ badFree
                   \/ \E b \in {a} \ {0} :
                        b \notin Live \/ \E i, j \in {i \in DOMAIN <<a>> : <<a>>[i] = b} : i # j
    BY <1>1, <1>6 DEF Destroy
  <2>3. (\E b \in {a} \ {0} :
           b \notin Live \/ \E i, j \in {i \in DOMAIN <<a>> : <<a>>[i] = b} : i # j)
          <=> \E b \in {a} \ {0} : b \notin Live
    BY <1>6, Zenon
  <2> QED
    BY <2>1, <2>2, <2>3, Zenon
<1>8. Live' = Live \ {a} /\ \A b \in Live' : heap'[b] = heap[b]
  BY <1>3, <1>7 DEF Live
<1> HIDE DEF a, l
<1>9. badFree' \in BOOLEAN
  BY <1>7
<1>10. TextTypeOK'
  <2>1. Live' \subseteq 1 .. allocated /\ \A b \in Live' : heap'[b] \in Contents
    BY <1>8 DEF TextInv, TextTypeOK
  <2>2. {toWxid', mmStrAtUser', sendMsg'} \subseteq 0 .. allocated
    <3>1. 0 \in 0 .. allocated
      BY <1>3
    <3> QED
      BY <1>1, <3>1 DEF TextInv, TextTypeOK
  <2> QED
    BY <1>1, <1>2, <1>4, <1>9, <2>1, <2>2 DEF TextInv, TextTypeOK
<1>11. TextPlaces'
  BY <1>1 DEF TextInv, TextPlaces
<1>12. ListFits'
  <2>1. Grows' <=> Grows
    BY <1>1 DEF Grows
  <2> QED
    BY <1>1, <1>2, <1>5, <2>1 DEF TextInv, ListFits, WithList
<1>13. TextRight'
  BY <1>1, <1>5 DEF TextInv, TextRight, WithList
<1>14. HeapOwned'
  <2>1. SUFFICES ASSUME capacity <= FirstCap
                 PROVE  ~badFree' /\ Own(Strings', Live')
    BY <1>2 DEF HeapOwned
  <2>2. ~badFree /\ Own(Strings, Live) /\ a \in Live \cup {0}
    BY <2>1, OwnedAreLive DEF TextInv, HeapOwned, a
  <2> DEFINE h == Held(toWxid, a, sendMsg, atUserList)
             g == Held(toWxid, 0, sendMsg, atUserList)
  <2>3. Strings = h /\ Strings' = g
    BY <1>1, <1>2 DEF Strings, a
  <2>4. DOMAIN h = 1 .. 3 + Len(atUserList) /\ 2 \in DOMAIN h /\ DOMAIN g = DOMAIN h
        /\ h[2] = a /\ g[2] = 0 /\ \A j \in DOMAIN h \ {2} : g[j] = h[j]
    BY <1>3 DEF Held, l
  <2> HIDE DEF h, g
  <2>5. Own(g, Live \ {a})
    BY <2>2, <2>3, <2>4, OwnLess
  <2>6. ~badFree'
    BY <1>7, <2>2
  <2> QED
    BY <1>8, <2>3, <2>5, <2>6
<1>15. HeapShown'
  <2>1. SUFFICES ASSUME capacity <= FirstCap
                 PROVE  /\ ShownIn(heap', toWxid) = Characters(body.toWxid)
                        /\ \A i \in 1 .. Len(atUserList) :
                             ShownIn(heap', atUserList[i]) = Characters(MentionedIn(body, n)[i])
    BY <1>1, <1>2, <1>5 DEF HeapShown
  <2>2. /\ ShownIn(heap, toWxid) = Characters(body.toWxid)
        /\ \A i \in 1 .. Len(atUserList) :
             ShownIn(heap, atUserList[i]) = Characters(MentionedIn(body, n)[i])
    BY <1>1, <1>5, <2>1 DEF TextInv, HeapShown
  <2>3. toWxid \in Live \cup {0} /\ \A i \in 1 .. Len(atUserList) : atUserList[i] \in Live \cup {0}
    BY <2>1, OwnedAreLive
  <2>4. /\ toWxid # 0 => toWxid # a
        /\ \A i \in 1 .. Len(atUserList) : atUserList[i] # 0 => atUserList[i] # a
    <3>1. \A i, j \in DOMAIN Strings : Strings[i] = Strings[j] /\ Strings[i] # 0 => i = j
      BY <2>1 DEF TextInv, HeapOwned, Own
    <3>2. /\ DOMAIN Strings = 1 .. 3 + Len(atUserList)
          /\ Strings[1] = toWxid /\ Strings[2] = a
          /\ \A i \in 1 .. Len(atUserList) : Strings[3 + i] = atUserList[i]
      BY <1>3, HeldIs DEF Strings, a
    <3>3. 1 \in DOMAIN Strings /\ 2 \in DOMAIN Strings
          /\ \A i \in 1 .. Len(atUserList) : 3 + i \in DOMAIN Strings /\ 3 + i # 2
      BY <1>3, <3>2 DEF l
    <3> QED
      BY <3>1, <3>2, <3>3
  <2>5. \A b \in (Live \ {a}) \cup {0} : ShownIn(heap', b) = ShownIn(heap, b)
    BY <1>8 DEF ShownIn, Live
  <2>6. toWxid \in (Live \ {a}) \cup {0}
        /\ \A i \in 1 .. Len(atUserList) : atUserList[i] \in (Live \ {a}) \cup {0}
    BY <2>3, <2>4
  <2> QED
    BY <2>2, <2>5, <2>6
<1> QED
  BY <1>10, <1>11, <1>12, <1>13, <1>14, <1>15 DEF TextInv

LEMMA AssignSendMsg_TextInv ==
  ASSUME TextInv, AssignSendMsg
  PROVE  TextInv'
<1> DEFINE new == Fresh(msgContent)
<1>1. /\ textPc = "loop" /\ textPc' = "send" /\ n > Len(body.parts) /\ Allocate(msgContent)
      /\ sendMsg' = new
      /\ UNCHANGED <<body, n, msgContent, toWxid, mmStrAtUser, list, badFree, sent>>
  BY DEF AssignSendMsg
<1>2. UNCHANGED <<atUserList, capacity>>
  BY <1>1 DEF list
<1>3. /\ Len(body.parts) \in Nat /\ msgContent \in Contents
      /\ n \in 1 .. Len(body.parts) + 1 /\ atUserList \in Seq(Nat) /\ Len(atUserList) \in Nat
      /\ toWxid \in 0 .. allocated /\ mmStrAtUser \in 0 .. allocated /\ allocated \in Nat
      /\ atUserList \in Seq(0 .. allocated) /\ 0 \notin Live
  BY TextFacts
<1>4. n = Len(body.parts) + 1
  BY <1>1, <1>3
<1>5. Appended' = Appended /\ Pushed' = Pushed
  BY <1>1 DEF Appended, Pushed
<1>6. mmStrAtUser = 0 /\ sendMsg = 0 /\ sent = << >>
  BY <1>1 DEF TextInv, TextPlaces
<1>7. /\ new \in 0 .. allocated' /\ new \notin Live
      /\ Live' = Live \cup ({new} \ {0})
      /\ allocated' \in Nat /\ allocated <= allocated' /\ Live' \subseteq 1 .. allocated'
      /\ \A b \in Live' : heap'[b] \in Contents
      /\ ShownIn(heap', new) = msgContent
      /\ \A b \in Live \cup {0} : ShownIn(heap', b) = ShownIn(heap, b)
  BY <1>1, <1>3, AllocateNew DEF TextInv
<1> HIDE DEF new
<1>8. 0 .. allocated \subseteq 0 .. allocated'
  BY <1>3, <1>7
<1>9. TextTypeOK'
  <2>1. atUserList \in Seq(0 .. allocated')
    BY <1>3, <1>8, SeqMonotonic
  <2>2. toWxid \in 0 .. allocated' /\ mmStrAtUser \in 0 .. allocated'
    BY <1>3, <1>8
  <2> QED
    BY <1>1, <1>2, <1>7, <2>1, <2>2 DEF TextInv, TextTypeOK
<1>10. TextPlaces'
  BY <1>1, <1>4, <1>6 DEF TextPlaces
<1>11. ListFits'
  <2>1. Grows' <=> Grows
    BY <1>1 DEF Grows
  <2> QED
    BY <1>1, <1>2, <1>5, <2>1 DEF TextInv, ListFits, WithList
<1>12. TextRight'
  BY <1>1, <1>5 DEF TextInv, TextRight, WithList
<1>13. HeapOwned'
  <2>1. SUFFICES ASSUME capacity <= FirstCap
                 PROVE  ~badFree' /\ Own(Strings', Live')
    BY <1>2 DEF HeapOwned
  <2>2. ~badFree /\ Own(Strings, Live)
    BY <2>1 DEF TextInv, HeapOwned
  <2> DEFINE h == Held(toWxid, 0, 0, atUserList)
             g == Held(toWxid, 0, new, atUserList)
  <2>3. Strings = h /\ Strings' = g
    BY <1>1, <1>2, <1>6 DEF Strings
  <2>4. DOMAIN h = 1 .. 3 + Len(atUserList) /\ 3 \in DOMAIN h /\ DOMAIN g = DOMAIN h \cup {3}
        /\ h[3] = 0 /\ g[3] = new /\ \A j \in DOMAIN h \ {3} : g[j] = h[j]
    BY <1>3 DEF Held
  <2> HIDE DEF h, g
  <2>5. Own(g, Live \cup ({new} \ {0}))
    BY <1>7, <2>2, <2>3, <2>4, OwnMore
  <2> QED
    BY <1>1, <1>7, <2>2, <2>3, <2>5
<1>14. HeapShown'
  <2>1. SUFFICES ASSUME capacity <= FirstCap
                 PROVE  /\ ShownIn(heap', toWxid) = Characters(body.toWxid)
                        /\ \A i \in 1 .. Len(atUserList) :
                             ShownIn(heap', atUserList[i]) = Characters(MentionedIn(body, Pushed)[i])
    BY <1>1, <1>2, <1>5, <1>7 DEF HeapShown
  <2>2. /\ ShownIn(heap, toWxid) = Characters(body.toWxid)
        /\ \A i \in 1 .. Len(atUserList) :
             ShownIn(heap, atUserList[i]) = Characters(MentionedIn(body, Pushed)[i])
    BY <1>1, <2>1 DEF TextInv, HeapShown
  <2>3. toWxid \in Live \cup {0} /\ \A i \in 1 .. Len(atUserList) : atUserList[i] \in Live \cup {0}
    BY <2>1, OwnedAreLive
  <2> QED
    BY <1>7, <2>2, <2>3
<1> QED
  BY <1>9, <1>10, <1>11, <1>12, <1>13, <1>14 DEF TextInv

LEMMA Send_TextInv ==
  ASSUME TextInv, Send
  PROVE  TextInv'
<1> DEFINE new == [to |-> Shows(toWxid), text |-> Shows(sendMsg),
                   at |-> [i \in DOMAIN atUserList |-> Shows(atUserList[i])]]
<1>1. /\ textPc = "send" /\ textPc' = "return" /\ sent' = Append(sent, new)
      /\ UNCHANGED <<body, n, msgContent, strings, list, memory>>
  BY DEF Send
<1>2. UNCHANGED <<toWxid, mmStrAtUser, sendMsg, atUserList, capacity, badFree, heap>>
  BY <1>1 DEF strings, list, memory
<1>3. /\ Len(body.parts) \in Nat /\ msgContent \in Contents
      /\ n \in 1 .. Len(body.parts) + 1 /\ atUserList \in Seq(Nat) /\ Len(atUserList) \in Nat
      /\ DOMAIN atUserList = 1 .. Len(atUserList) /\ toWxid \in Nat /\ sendMsg \in Nat
      /\ \A b \in Nat : ShownIn(heap, b) = Shows(b) /\ Shows(b) \in Contents
      /\ \A i \in 1 .. Len(atUserList) : atUserList[i] \in Nat
  BY TextFacts
<1>4. n = Len(body.parts) + 1 /\ mmStrAtUser = 0 /\ sent = << >>
  BY <1>1 DEF TextInv, TextPlaces
<1>5. Appended' = Appended /\ Pushed' = Pushed /\ Pushed = Len(body.parts) /\ Appended = Len(body.parts)
  BY <1>1, <1>3, <1>4 DEF Appended, Pushed
<1>6. new \in [to : Contents, text : Contents, at : Seq(Contents)]
  <2> DEFINE at == [i \in 1 .. Len(atUserList) |-> Shows(atUserList[i])]
  <2>1. \A i \in 1 .. Len(atUserList) : at[i] \in Contents
    BY <1>3
  <2>2. at = [i \in 1 .. Len(atUserList) |-> at[i]]
    OBVIOUS
  <2>3. new.at = at
    BY <1>3
  <2> HIDE DEF at
  <2>4. at \in Seq(Contents)
    BY <1>3, <2>1, <2>2
  <2>5. Shows(toWxid) \in Contents /\ Shows(sendMsg) \in Contents
    BY <1>3
  <2> QED
    BY <2>3, <2>4, <2>5
<1>7. sent' = <<new>>
  <2> HIDE DEF new
  <2> QED
    BY <1>1, <1>4
<1>8. TextTypeOK'
  <2> HIDE DEF new
  <2>1. sent' \in Seq([to : Contents, text : Contents, at : Seq(Contents)])
    BY <1>6, <1>7
  <2> QED
    BY <1>1, <2>1, HeapStays DEF TextInv, TextTypeOK
<1> HIDE DEF new
<1>9. TextPlaces'
  BY <1>1, <1>2, <1>4 DEF TextInv, TextPlaces
<1>10. ListFits'
  <2>1. Grows' <=> Grows
    BY <1>1 DEF Grows
  <2> QED
    BY <1>1, <1>2, <1>5, <2>1 DEF TextInv, ListFits, WithList
<1>11. TextRight'
  BY <1>1, <1>5 DEF TextInv, TextRight, WithList
<1>12. HeapShown'
  <2> DEFINE mentioned == MentionedIn(body, Len(body.parts))
  <2>1. SUFFICES ASSUME capacity <= FirstCap
                 PROVE  new = [to |-> Characters(body.toWxid),
                               text |-> TextOf(body, Len(body.parts)),
                               at |-> [i \in 1 .. Len(mentioned) |-> Characters(mentioned[i])]]
    BY <1>1, <1>2, <1>7 DEF HeapShown
  <2>2. /\ ShownIn(heap, toWxid) = Characters(body.toWxid)
        /\ \A i \in 1 .. Len(atUserList) : ShownIn(heap, atUserList[i]) = Characters(mentioned[i])
        /\ ShownIn(heap, sendMsg) = msgContent
    BY <1>1, <1>5, <2>1 DEF TextInv, HeapShown
  <2>3. msgContent = TextOf(body, Len(body.parts)) /\ Len(atUserList) = Len(mentioned)
    BY <1>1, <1>5 DEF TextInv, TextRight, ListFits, WithList
  <2> HIDE DEF mentioned
  <2>4. Shows(toWxid) = Characters(body.toWxid) /\ Shows(sendMsg) = TextOf(body, Len(body.parts))
    BY <1>3, <2>2, <2>3
  <2>5. [i \in DOMAIN atUserList |-> Shows(atUserList[i])]
          = [i \in 1 .. Len(mentioned) |-> Characters(mentioned[i])]
    BY <1>3, <2>2, <2>3
  <2> QED
    BY <2>4, <2>5 DEF new
<1> QED
  BY <1>1, <1>8, <1>9, <1>10, <1>11, <1>12, HeapStays DEF TextInv

LEMMA AllStrings ==
  ASSUME NEW msg \in Nat, NEW to \in Nat, NEW l \in Seq(Nat)
  PROVE  LET all == <<msg>> \o l \o <<to>>
         IN  /\ DOMAIN all = 1 .. Len(l) + 2
             /\ all[1] = msg /\ all[Len(l) + 2] = to
             /\ \A i \in 1 .. Len(l) : all[i + 1] = l[i]
<1> DEFINE front == <<msg>> \o l
<1>1. <<msg>> \in Seq(Nat) /\ Len(<<msg>>) = 1 /\ <<to>> \in Seq(Nat) /\ Len(<<to>>) = 1 /\ Len(l) \in Nat
  OBVIOUS
<1>2. /\ front \in Seq(Nat) /\ Len(front) = Len(l) + 1
      /\ \A i \in 1 .. 1 + Len(l) : front[i] = IF i <= 1 THEN <<msg>>[i] ELSE l[i - 1]
  BY <1>1, ConcatProperties
<1> HIDE DEF front
<1> DEFINE all == front \o <<to>>
<1>3. /\ all \in Seq(Nat) /\ Len(all) = Len(front) + 1
      /\ \A i \in 1 .. Len(front) + 1 : all[i] = IF i <= Len(front) THEN front[i] ELSE <<to>>[i - Len(front)]
  BY <1>1, <1>2, ConcatProperties
<1> HIDE DEF all
<1>4. DOMAIN all = 1 .. Len(l) + 2
  BY <1>1, <1>2, <1>3
<1>5. all[1] = msg
  <2>1. 1 \in 1 .. Len(front) + 1 /\ 1 <= Len(front) /\ 1 \in 1 .. 1 + Len(l) /\ 1 <= 1
    BY <1>1, <1>2
  <2>2. all[1] = front[1] /\ front[1] = <<msg>>[1]
    BY <1>2, <1>3, <2>1
  <2> QED
    BY <2>2
<1>6. all[Len(l) + 2] = to
  <2> DEFINE k == Len(l) + 2
  <2>1. k \in 1 .. Len(front) + 1 /\ ~ k <= Len(front) /\ k - Len(front) = 1
    BY <1>1, <1>2
  <2> HIDE DEF k
  <2>2. all[k] = <<to>>[1]
    BY <1>3, <2>1
  <2> QED
    BY <2>2 DEF k
<1>7. ASSUME NEW i \in 1 .. Len(l) PROVE all[i + 1] = l[i]
  <2>1. i + 1 \in 1 .. 1 + Len(l) /\ ~ i + 1 <= 1 /\ i + 1 - 1 = i /\ i + 1 <= Len(front)
        /\ i + 1 \in 1 .. Len(front) + 1
    BY <1>1, <1>2
  <2> QED
    BY <1>2, <1>3, <2>1
<1> QED
  BY <1>4, <1>5, <1>6, <1>7 DEF all, front

LEMMA Unwind_TextInv ==
  ASSUME TextInv, Unwind
  PROVE  TextInv'
<1> DEFINE all == <<sendMsg>> \o atUserList \o <<toWxid>>
           freed == {all[i] : i \in DOMAIN all} \ {0}
           l == Len(atUserList)
<1>1. /\ textPc \in {"return", "throw"} /\ Destroy(all)
      /\ toWxid' = 0 /\ sendMsg' = 0 /\ atUserList' = << >>
      /\ textPc' = IF textPc = "throw" THEN "thrown" ELSE "done"
      /\ UNCHANGED <<body, n, msgContent, mmStrAtUser, capacity, allocated, sent>>
  BY DEF Unwind
<1>2. /\ heap' = [b \in Live \ freed |-> heap[b]]
      /\ badFree' = \/ badFree
                    \/ \E b \in freed : b \notin Live \/ \E i, j \in {i \in DOMAIN all : all[i] = b} : i # j
  BY <1>1 DEF Destroy
<1>3. /\ l \in Nat /\ sendMsg \in Nat /\ toWxid \in Nat /\ atUserList \in Seq(Nat)
      /\ 0 \notin Live /\ allocated \in Nat /\ badFree \in BOOLEAN /\ capacity \in Nat
  BY TextFacts
<1>4. /\ DOMAIN all = 1 .. l + 2 /\ all[1] = sendMsg /\ all[l + 2] = toWxid
      /\ \A i \in 1 .. l : all[i + 1] = atUserList[i]
  BY <1>3, AllStrings
<1> HIDE DEF all, l
<1>5. Live' = Live \ freed /\ \A b \in Live' : heap'[b] = heap[b]
  BY <1>2 DEF Live
<1> HIDE DEF freed
<1>6. mmStrAtUser = 0
  BY <1>1 DEF TextInv, TextPlaces
<1>7. TextTypeOK'
  <2>1. Live' \subseteq 1 .. allocated /\ \A b \in Live' : heap'[b] \in Contents
    BY <1>5 DEF TextInv, TextTypeOK
  <2>2. {toWxid', mmStrAtUser', sendMsg'} \subseteq 0 .. allocated /\ atUserList' \in Seq(0 .. allocated)
    BY <1>1, <1>3, <1>6
  <2>3. badFree' \in BOOLEAN
    BY <1>2
  <2>4. textPc' \in {"done", "thrown"}
    BY <1>1
  <2> QED
    BY <1>1, <2>1, <2>2, <2>3, <2>4 DEF TextInv, TextTypeOK
<1>8. TextPlaces'
  BY <1>1, <1>6 DEF TextInv, TextPlaces
<1>9. ListFits'
  <2>1. Grows' <=> Grows
    BY <1>1 DEF Grows
  <2>2. Len(atUserList') = 0
    BY <1>1
  <2> QED
    BY <1>1, <1>3, <2>1, <2>2 DEF TextInv, ListFits, WithList
<1>10. TextRight'
  <2>1. Appended' = Appended
    BY <1>1 DEF Appended
  <2> QED
    BY <1>1, <2>1 DEF TextInv, TextRight, WithList
<1>11. HeapOwned'
  <2>1. SUFFICES ASSUME capacity <= FirstCap
                 PROVE  ~badFree' /\ Own(Strings', Live')
    BY <1>1 DEF HeapOwned
  <2>2. /\ ~badFree /\ Live = {Strings[i] : i \in DOMAIN Strings} \ {0}
        /\ \A i, j \in DOMAIN Strings : Strings[i] = Strings[j] /\ Strings[i] # 0 => i = j
    BY <2>1 DEF TextInv, HeapOwned, Own
  <2>3. /\ DOMAIN Strings = 1 .. 3 + l
        /\ Strings[1] = toWxid /\ Strings[2] = 0 /\ Strings[3] = sendMsg
        /\ \A i \in 1 .. l : Strings[3 + i] = atUserList[i]
    BY <1>3, <1>6, HeldIs DEF Strings, l
  <2> DEFINE at(i) == IF i = 1 THEN 3 ELSE IF i = l + 2 THEN 1 ELSE i + 2
  <2>4. ASSUME NEW i \in DOMAIN all
        PROVE  at(i) \in DOMAIN Strings /\ Strings[at(i)] = all[i]
    <3>1. i \in 1 .. l + 2
      BY <1>4
    <3>2. CASE i = 1
      BY <1>3, <1>4, <2>3, <3>2
    <3>3. CASE i = l + 2
      BY <1>3, <1>4, <2>3, <3>3
    <3>4. CASE i # 1 /\ i # l + 2
      <4>1. PICK k \in 1 .. l : i = k + 1
        <5>1. i - 1 \in 1 .. l /\ i = (i - 1) + 1
          BY <1>3, <3>1, <3>4
        <5> QED
          BY <5>1
      <4>2. at(i) = 3 + k /\ 3 + k \in 1 .. 3 + l
        BY <1>3, <3>4, <4>1
      <4> QED
        BY <1>4, <2>3, <4>1, <4>2
    <3> QED
      BY <3>2, <3>3, <3>4
  <2>5. ASSUME NEW i \in DOMAIN all, NEW j \in DOMAIN all, at(i) = at(j) PROVE i = j
    BY <1>3, <1>4, <2>5
  <2> HIDE DEF at
  <2>6. \A b \in freed : b \in Live
    BY <2>2, <2>4 DEF freed
  <2>7. ASSUME NEW b \in freed, NEW i \in DOMAIN all, NEW j \in DOMAIN all, all[i] = b, all[j] = b
        PROVE  i = j
    <3>1. b # 0
      BY DEF freed
    <3> QED
      BY <2>2, <2>4, <2>5, <2>7, <3>1
  <2>8. ~badFree'
    <3>1. ~ \E b \in freed : b \notin Live \/ \E i, j \in {i \in DOMAIN all : all[i] = b} : i # j
      BY <2>6, <2>7
    <3> QED
      BY <1>2, <2>2, <3>1, Zenon
  <2>9. Live' = {}
    <3>1. ASSUME NEW i \in DOMAIN Strings, Strings[i] # 0 PROVE Strings[i] \in freed
      <4>1. CASE i = 1
        <5>1. l + 2 \in DOMAIN all
          BY <1>3, <1>4
        <5> QED
          BY <1>4, <2>3, <3>1, <4>1, <5>1 DEF freed
      <4>2. CASE i = 2
        BY <2>3, <3>1, <4>2
      <4>3. CASE i = 3
        <5>1. 1 \in DOMAIN all
          BY <1>3, <1>4
        <5> QED
          BY <1>4, <2>3, <3>1, <4>3, <5>1 DEF freed
      <4>4. CASE i \notin 1 .. 3
        <5>1. PICK k \in 1 .. l : i = 3 + k
          <6>1. i \in 1 .. 3 + l
            BY <2>3
          <6>2. i - 3 \in 1 .. l /\ i = 3 + (i - 3)
            BY <1>3, <4>4, <6>1
          <6> QED
            BY <6>2
        <5>2. k + 1 \in DOMAIN all
          BY <1>3, <1>4
        <5> QED
          BY <1>4, <2>3, <3>1, <5>1, <5>2 DEF freed
      <4> QED
        BY <4>1, <4>2, <4>3, <4>4
    <3>2. \A b \in Live : b \in freed
      BY <2>2, <3>1
    <3> QED
      BY <1>5, <3>2
  <2>10. \A i \in DOMAIN Strings' : Strings'[i] = 0
    <3>1. Strings' = Held(0, 0, 0, << >>)
      BY <1>1, <1>6 DEF Strings
    <3> QED
      BY <3>1 DEF Held
  <2> QED
    BY <2>8, <2>9, <2>10 DEF Own
<1>12. HeapShown'
  <2>1. SUFFICES ASSUME capacity <= FirstCap, textPc = "return"
                 PROVE  LET mentioned == MentionedIn(body, Len(body.parts))
                        IN  sent = <<[to |-> Characters(body.toWxid),
                                      text |-> TextOf(body, Len(body.parts)),
                                      at |-> [i \in 1 .. Len(mentioned) |-> Characters(mentioned[i])]]>>
    BY <1>1 DEF HeapShown
  <2> QED
    BY <2>1 DEF TextInv, HeapShown
<1> QED
  BY <1>7, <1>8, <1>9, <1>10, <1>11, <1>12 DEF TextInv

LEMMA TextNext_TextInv ==
  TextInv /\ [TextNext]_textVars => TextInv'
<1> SUFFICES ASSUME TextInv, [TextNext]_textVars PROVE TextInv'
  OBVIOUS
<1>1. ASSUME NEW b \in Bodies, Begin(b) PROVE TextInv'
  BY <1>1, Begin_TextInv
<1>2. CASE ParseThrows \/ PartThrows
  BY <1>2, Throws_TextInv
<1>3. CASE Parse
  BY <1>3, Parse_TextInv
<1>4. CASE TextPart
  BY <1>4, TextPart_TextInv
<1>5. CASE AtUser
  BY <1>5, AtUser_TextInv
<1>6. CASE PushBack
  BY <1>6, PushBack_TextInv
<1>7. CASE Grow
  BY <1>7, Grow_TextInv
<1>8. CASE DropAtUser
  BY <1>8, DropAtUser_TextInv
<1>9. CASE AssignSendMsg
  BY <1>9, AssignSendMsg_TextInv
<1>10. CASE Send
  BY <1>10, Send_TextInv
<1>11. CASE Unwind
  BY <1>11, Unwind_TextInv
<1>12. CASE TextReset
  <2>1. TextInit'
    <3>1. /\ textPc' = "idle" /\ body' = NoBody /\ n' = 1 /\ msgContent' = << >> /\ capacity' = 0
          /\ heap' = << >> /\ allocated' = 0 /\ badFree' = FALSE /\ sent' = << >>
          /\ UNCHANGED <<toWxid, mmStrAtUser, sendMsg, atUserList>>
      BY <1>12 DEF TextReset, strings
    <3>2. toWxid = 0 /\ mmStrAtUser = 0 /\ sendMsg = 0 /\ atUserList = << >>
      BY <1>12 DEF TextReset, TextReturned, TextInv, TextPlaces
    <3> QED
      BY <3>1, <3>2 DEF TextInit
  <2>2. (TextInit => TextInv)'
    BY TextInit_TextInv, PTL
  <2> QED
    BY <2>1, <2>2
<1>13. CASE UNCHANGED textVars
  <2>1. /\ UNCHANGED <<textPc, body, n, msgContent, sent>>
        /\ UNCHANGED <<toWxid, mmStrAtUser, sendMsg, atUserList, capacity, heap, allocated, badFree>>
    BY <1>13 DEF textVars, strings, list, memory
  <2>2. UNCHANGED Live /\ UNCHANGED Strings /\ UNCHANGED Pushed /\ UNCHANGED Appended
        /\ (Grows' <=> Grows)
    BY <2>1 DEF Live, Strings, Pushed, Appended, Grows
  <2>3. TextTypeOK'
    BY <2>1, <2>2 DEF TextInv, TextTypeOK
  <2>4. TextPlaces' /\ ListFits' /\ TextRight'
    BY <2>1, <2>2 DEF TextInv, TextPlaces, ListFits, TextRight
  <2>5. HeapOwned'
    BY <2>1, <2>2 DEF TextInv, HeapOwned
  <2>6. HeapShown'
    BY <2>1, <2>2 DEF TextInv, HeapShown
  <2> QED
    BY <2>3, <2>4, <2>5, <2>6 DEF TextInv
<1> QED
  BY <1>1, <1>2, <1>3, <1>4, <1>5, <1>6, <1>7, <1>8, <1>9, <1>10, <1>11, <1>12, <1>13
     DEF TextNext, TextStep

LEMMA TextInv_StringsFreed ==
  TextInv => StringsFreed
<1> SUFFICES ASSUME TextInv, TextReturned, ~Grows PROVE Live = {} /\ ~badFree
  BY DEF StringsFreed
<1>1. capacity <= FirstCap
  BY TextFacts DEF TextInv, ListFits
<1>2. ~badFree /\ Own(Strings, Live)
  BY <1>1 DEF TextInv, HeapOwned
<1>3. Strings = Held(0, 0, 0, << >>)
  BY DEF TextInv, TextPlaces, TextReturned, Strings
<1>4. \A i \in DOMAIN Strings : Strings[i] = 0
  BY <1>3 DEF Held
<1> QED
  BY <1>2, <1>4 DEF Own

LEMMA TextInv_SendsWhatWasAsked ==
  TextInv => SendsWhatWasAsked
<1> SUFFICES ASSUME TextInv PROVE SendsWhatWasAsked
  OBVIOUS
<1>1. ASSUME textPc \in {"throw", "thrown"} PROVE sent = << >>
  BY <1>1 DEF TextInv, TextPlaces
<1>2. PICK b \in Bodies \cup {NoBody} : b = body
  BY TextFacts
<1>3. /\ FlattenSeq(ReadsOf(b)) = TextOf(b, Len(b.parts))
      /\ Mentions(b) = MentionedIn(b, Len(b.parts)) /\ Mentions(b) \in Contents
  <2>1. Len(b.parts) \in 0 .. Len(b.parts)
    BY PartType
  <2> QED
    BY <2>1, PartAfterPart
<1>4. DOMAIN Mentions(b) = 1 .. Len(Mentions(b))
  BY <1>3 DEF Contents
<1>5. FlattenSeq([i \in DOMAIN b.parts |-> Reads(b.parts[i])]) = TextOf(b, Len(b.parts))
  BY <1>3 DEF ReadsOf
<1>6. ASSUME textPc \in {"return", "done"}, ~Grows
      PROVE  sent = <<[to |-> Characters(b.toWxid),
                       text |-> TextOf(b, Len(b.parts)),
                       at |-> [i \in 1 .. Len(Mentions(b)) |-> Characters(Mentions(b)[i])]]>>
  <2>1. capacity <= FirstCap
    BY <1>6, TextFacts DEF TextInv, ListFits
  <2> QED
    BY <1>2, <1>3, <1>6, <2>1 DEF TextInv, HeapShown
<1> QED
  BY <1>1, <1>2, <1>4, <1>5, <1>6 DEF SendsWhatWasAsked

-----------------------------------------------------------------------------
(* The stream of a connection *)

\* What the client has sent or will send of its requests and the worker has not done
\* with yet.
Stream == read \o buff \o wire \o toSend

PartCount(q) == IF q.path \in PostPaths THEN 3 + BodyLen ELSE 3

LEMMA PartsAre ==
  ASSUME NEW q \in Requests, NEW k \in Nat
  PROVE  /\ PartCount(q) \in Nat /\ PartCount(q) >= 3
         /\ Parts(q, k) \in Seq(APart) /\ Len(Parts(q, k)) = PartCount(q)
         /\ \A j \in 1 .. PartCount(q) :
              /\ Parts(q, k)[j].of = k
              /\ (Parts(q, k)[j].kind = "line") <=> j = 1
              /\ (Parts(q, k)[j].kind = "blank") <=> j = 3
<1> DEFINE m == PartCount(q)
           kind(j) == IF j <= 3 THEN <<"line", "header", "blank">>[j] ELSE "body"
           ps == [j \in 1 .. m |-> [of |-> k, kind |-> kind(j)]]
<1>1. m \in Nat /\ m >= 3
  BY HttpAssumption DEF PartCount
<1>2. Parts(q, k) = ps
  BY DEF Parts, PartCount
<1>3. \A j \in 1 .. m : /\ kind(j) \in {"line", "header", "blank", "body"}
                        /\ (kind(j) = "line") <=> j = 1
                        /\ (kind(j) = "blank") <=> j = 3
  <2> HIDE DEF m
  <2>1. ASSUME NEW j \in 1 .. m
        PROVE  /\ kind(j) \in {"line", "header", "blank", "body"}
               /\ (kind(j) = "line") <=> j = 1
               /\ (kind(j) = "blank") <=> j = 3
    <3>1. CASE j = 1
      BY <3>1
    <3>2. CASE j = 2
      BY <3>2
    <3>3. CASE j = 3
      BY <3>3
    <3>4. CASE j > 3
      BY <3>4
    <3> QED
      BY <1>1, <3>1, <3>2, <3>3, <3>4
  <2> QED
    BY <2>1
<1> HIDE DEF kind, m
<1>4. \A j \in 1 .. m : ps[j] = [of |-> k, kind |-> kind(j)] /\ ps[j] \in APart
  BY <1>3 DEF APart
<1>5. ps = [j \in 1 .. m |-> ps[j]]
  OBVIOUS
<1>6. \A j \in 1 .. m : ps[j].of = k /\ ps[j].kind = kind(j)
  BY <1>4
<1> HIDE DEF ps
<1>7. ps \in Seq(APart) /\ Len(ps) = m
  BY <1>1, <1>4, <1>5
<1> QED
  BY <1>1, <1>2, <1>3, <1>6, <1>7 DEF m

\* In a stream z a request line is followed by the rest of its request: by all of it
\* as long as the client is there to send it.
Runs(z, qs, whole) ==
  \A i \in 1 .. Len(z) : z[i].kind = "line" =>
    LET k == z[i].of
    IN  /\ \A j \in 1 .. PartCount(qs[k]) :
             i + j - 1 <= Len(z) => z[i + j - 1] = Parts(qs[k], k)[j]
        /\ whole => i + PartCount(qs[k]) - 1 <= Len(z)

\* The parts are those of the requests that were asked.
Known(z, qs) == \A i \in 1 .. Len(z) : z[i].of \in 1 .. Len(qs)

\* The request lines come in the order of the requests.
InTurn(z) ==
  \A i, j \in 1 .. Len(z) : i < j /\ z[i].kind = "line" /\ z[j].kind = "line" => z[i].of < z[j].of

LEMMA RunsOn ==
  ASSUME NEW z \in Seq(APart), NEW qs \in Seq(Requests), NEW q \in Requests,
         Known(z, qs), Runs(z, qs, TRUE), InTurn(z)
  PROVE  LET zz == z \o Parts(q, Len(qs) + 1)
         IN  /\ zz \in Seq(APart)
             /\ Known(zz, Append(qs, q)) /\ Runs(zz, Append(qs, q), TRUE) /\ InTurn(zz)
<1> DEFINE k == Len(qs) + 1
           m == PartCount(q)
           ps == Parts(q, k)
           zz == z \o ps
           qq == Append(qs, q)
           l == Len(z)
<1>1. l \in Nat /\ Len(qs) \in Nat /\ k \in Nat
  OBVIOUS
<1>2. /\ m \in Nat /\ m >= 3 /\ ps \in Seq(APart) /\ Len(ps) = m
      /\ \A j \in 1 .. m : ps[j].of = k /\ (ps[j].kind = "line" <=> j = 1)
  BY <1>1, PartsAre
<1>3. /\ Len(qq) = k /\ qq[k] = q
      /\ \A i \in 1 .. Len(qs) : qq[i] = qs[i]
  OBVIOUS
<1> HIDE DEF k, m, ps, qq, l
<1>4. /\ zz \in Seq(APart) /\ Len(zz) = l + m
      /\ \A i \in 1 .. l + m : zz[i] = IF i <= l THEN z[i] ELSE ps[i - l]
  BY <1>2, ConcatProperties DEF l
<1>5. \A i \in 1 .. l : zz[i] = z[i]
  BY <1>1, <1>2, <1>4
<1>6. \A i \in 1 .. m : l + i \in 1 .. l + m /\ zz[l + i] = ps[i]
  <2> TAKE i \in 1 .. m
  <2>1. l + i \in 1 .. l + m /\ ~ l + i <= l /\ (l + i) - l = i
    BY <1>1, <1>2
  <2> QED
    BY <1>4, <2>1
<1>7. \A i \in 1 .. l + m : i \in 1 .. l \/ (i - l \in 1 .. m /\ i = l + (i - l))
  BY <1>1, <1>2
<1> HIDE DEF zz
<1>8. \A i \in 1 .. l : z[i].of \in 1 .. Len(qs)
  BY DEF Known, l
<1>9. Len(qs) = k - 1
  BY <1>1 DEF k
<1>10. Known(zz, qq)
  <2>1. ASSUME NEW i \in 1 .. l PROVE zz[i].of \in 1 .. k
    BY <1>1, <1>5, <1>8, <1>9
  <2>2. ASSUME NEW i \in 1 .. m PROVE zz[l + i].of \in 1 .. k
    <3>1. zz[l + i].of = k
      BY <1>2, <1>6
    <3> QED
      BY <1>1, <1>9, <3>1
  <2>3. ASSUME NEW i \in 1 .. l + m PROVE zz[i].of \in 1 .. k
    <3>1. CASE i \in 1 .. l
      BY <2>1, <3>1
    <3>2. CASE i - l \in 1 .. m /\ i = l + (i - l)
      BY <2>2, <3>2
    <3> QED
      BY <1>7, <3>1, <3>2
  <2> QED
    BY <1>3, <1>4, <2>3 DEF Known
<1>11. ASSUME NEW i \in 1 .. Len(zz), zz[i].kind = "line"
       PROVE  \/ i \in 1 .. l /\ zz[i] = z[i] /\ z[i].kind = "line"
              \/ i = l + 1
  <2>1. CASE i \in 1 .. l
    BY <1>5, <1>11, <2>1
  <2>2. CASE i - l \in 1 .. m /\ i = l + (i - l)
    <3>1. i - l = 1
      BY <1>2, <1>6, <1>11, <2>2
    <3> QED
      BY <2>2, <3>1
  <2> QED
    BY <1>4, <1>7, <2>1, <2>2
<1>12. ASSUME NEW i \in 1 .. Len(zz), zz[i].kind = "line"
       PROVE  LET o == zz[i].of
              IN  /\ \A j \in 1 .. PartCount(qq[o]) :
                       i + j - 1 <= Len(zz) => zz[i + j - 1] = Parts(qq[o], o)[j]
                  /\ i + PartCount(qq[o]) - 1 <= Len(zz)
  <2>1. CASE i \in 1 .. l /\ zz[i] = z[i] /\ z[i].kind = "line"
    <3> DEFINE o == z[i].of
               c == PartCount(qs[o])
    <3>1. /\ \A j \in 1 .. c : i + j - 1 <= l => z[i + j - 1] = Parts(qs[o], o)[j]
          /\ i + c - 1 <= l
      BY <2>1 DEF Runs, l
    <3>2. o \in 1 .. Len(qs) /\ qs[o] = qq[o] /\ qs[o] \in Requests
      BY <1>3, <1>8, <2>1, ElementOfSeq
    <3>3. c \in Nat
      BY <1>1, <3>2, PartsAre
    <3> HIDE DEF o, c
    <3>4. ASSUME NEW j \in 1 .. c PROVE i + j - 1 \in 1 .. l
      BY <1>1, <2>1, <3>1, <3>3
    <3>5. \A j \in 1 .. c : zz[i + j - 1] = Parts(qs[o], o)[j]
      <4> TAKE j \in 1 .. c
      <4>1. i + j - 1 \in 1 .. l
        BY <3>4
      <4>2. i + j - 1 <= l
        BY <1>1, <4>1
      <4> QED
        BY <1>5, <3>1, <4>1, <4>2
    <3>6. i + c - 1 <= Len(zz)
      BY <1>1, <1>2, <1>4, <2>1, <3>1, <3>3
    <3> QED
      BY <2>1, <3>2, <3>5, <3>6 DEF o, c
  <2>2. CASE i = l + 1
    <3>1. zz[i] = ps[1] /\ ps[1].of = k
      BY <1>2, <1>6, <2>2
    <3>2. ASSUME NEW j \in 1 .. m PROVE zz[i + j - 1] = ps[j]
      <4>1. i + j - 1 = l + j
        BY <1>1, <1>2, <2>2
      <4> QED
        BY <1>6, <4>1
    <3>3. i + m - 1 <= Len(zz)
      BY <1>1, <1>2, <1>4, <2>2
    <3> QED
      BY <1>3, <3>1, <3>2, <3>3 DEF m, ps
  <2> QED
    BY <1>11, <1>12, <2>1, <2>2
<1>13. InTurn(zz)
  <2> SUFFICES ASSUME NEW i \in 1 .. Len(zz), NEW j \in 1 .. Len(zz),
                      i < j, zz[i].kind = "line", zz[j].kind = "line"
               PROVE  zz[i].of < zz[j].of
    BY DEF InTurn
  <2>1. CASE i \in 1 .. l /\ j \in 1 .. l
    BY <1>5, <2>1 DEF InTurn, l
  <2>2. CASE i \in 1 .. l /\ j = l + 1
    <3>1. zz[j].of = k
      BY <1>2, <1>6, <2>2
    <3>2. zz[i].of \in 1 .. Len(qs)
      BY <1>5, <1>8, <2>2
    <3> QED
      BY <1>1, <1>9, <3>1, <3>2
  <2>3. CASE i = l + 1
    BY <1>1, <1>11, <2>3
  <2> QED
    BY <1>11, <2>1, <2>2, <2>3
<1>14. Runs(zz, qq, TRUE)
  BY <1>12 DEF Runs
<1> QED
  BY <1>4, <1>10, <1>13, <1>14 DEF zz, qq, k, ps

\* What is left of a stream when its first d parts are done with, or its end is cut.
LEMMA RunsLess ==
  ASSUME NEW z \in Seq(APart), NEW y \in Seq(APart), NEW qs, NEW d \in Nat, NEW whole \in BOOLEAN,
         Known(z, qs), Runs(z, qs, whole), InTurn(z),
         d + Len(y) <= Len(z),
         \A i \in 1 .. Len(y) : y[i] = z[d + i],
         NEW still \in BOOLEAN, still => whole /\ d + Len(y) = Len(z)
  PROVE  Known(y, qs) /\ Runs(y, qs, still) /\ InTurn(y)
<1> DEFINE l == Len(y)
<1>1. l \in Nat /\ Len(z) \in Nat
  OBVIOUS
<1>2. \A i \in 1 .. l : d + i \in 1 .. Len(z) /\ y[i] = z[d + i]
  BY <1>1
<1>3. Known(y, qs)
  BY <1>2 DEF Known
<1>4. InTurn(y)
  <2>1. ASSUME NEW i \in 1 .. l, NEW j \in 1 .. l, i < j, y[i].kind = "line", y[j].kind = "line"
        PROVE  y[i].of < y[j].of
    <3>1. d + i < d + j /\ d + i \in 1 .. Len(z) /\ d + j \in 1 .. Len(z)
      BY <1>1, <1>2, <2>1
    <3> QED
      BY <1>2, <2>1, <3>1 DEF InTurn
  <2> QED
    BY <2>1 DEF InTurn
<1>5. ASSUME NEW i \in 1 .. l, y[i].kind = "line"
      PROVE  LET k == y[i].of
             IN  /\ \A j \in 1 .. PartCount(qs[k]) :
                      i + j - 1 <= l => y[i + j - 1] = Parts(qs[k], k)[j]
                 /\ still => i + PartCount(qs[k]) - 1 <= l
  <2> DEFINE k == z[d + i].of
             c == PartCount(qs[k])
  <2>1. /\ \A j \in 1 .. c : d + i + j - 1 <= Len(z) => z[d + i + j - 1] = Parts(qs[k], k)[j]
        /\ whole => d + i + c - 1 <= Len(z)
    BY <1>2, <1>5 DEF Runs
  <2>2. c \in Int
    BY HttpAssumption DEF PartCount
  <2> HIDE DEF c, k
  <2>3. ASSUME NEW j \in 1 .. c, i + j - 1 <= l
        PROVE  y[i + j - 1] = Parts(qs[k], k)[j]
    <3>1. i + j - 1 \in 1 .. l /\ d + (i + j - 1) = d + i + j - 1 /\ d + i + j - 1 <= Len(z)
      BY <1>1, <2>2, <2>3
    <3> QED
      BY <1>2, <2>1, <3>1
  <2>4. still => i + c - 1 <= l
    BY <1>1, <2>1, <2>2
  <2> QED
    BY <1>2, <2>3, <2>4 DEF c, k
<1> QED
  BY <1>3, <1>4, <1>5 DEF Runs

-----------------------------------------------------------------------------
(* The handlers of a connection *)

\* Every step of a connection is a step of each handler, or leaves it alone.
LEMMA HandlersStep ==
  [Next]_vars => [EncNext]_encVars /\ [TextNext]_textVars
<1> SUFFICES ASSUME [Next]_vars PROVE [EncNext]_encVars /\ [TextNext]_textVars
  OBVIOUS
<1>1. CASE CallSendTextMsgEx
  <2>1. PICK b \in Bodies : Begin(b)
    BY <1>1 DEF CallSendTextMsgEx
  <2> QED
    BY <1>1, <2>1 DEF CallSendTextMsgEx, TextNext
<1>2. CASE CallGetLoginQRCode
  <2>1. CASE \E image \in Images : Encode(image) /\ UNCHANGED textVars
    BY <2>1 DEF EncNext
  <2>2. CASE UNCHANGED handlers
    BY <2>2 DEF handlers
  <2> QED
    BY <1>2, <2>1, <2>2 DEF CallGetLoginQRCode
<1>3. CASE RunHandler
  BY <1>3 DEF RunHandler, TextNext, EncNext
<1>4. CASE UNCHANGED handlers
  BY <1>4 DEF handlers
<1>5. CASE UNCHANGED vars
  BY <1>5, <1>4 DEF vars
<1>6. ASSUME NEW q \in Requests, Ask(q) PROVE UNCHANGED handlers
  BY <1>6 DEF Ask
<1>7. ASSUME SendPart \/ GoAway PROVE UNCHANGED handlers
  BY <1>7 DEF SendPart, GoAway
<1>8. ASSUME Accept \/ TakeJob \/ KeepAlive \/ KeepAliveTimesOut PROVE UNCHANGED handlers
  BY <1>8 DEF Accept, TakeJob, KeepAlive, KeepAliveTimesOut
<1>9. ASSUME ReadRequest PROVE UNCHANGED handlers
  BY <1>9 DEF ReadRequest, Receive, LineContinues, LineParsed, LineMalformed, LineMissing,
              ReadHeader, HeadersMissing, ReadContent, ContentMissing
<1>10. ASSUME NotFound \/ CallPlain \/ WriteResponse PROVE UNCHANGED handlers
  BY <1>10 DEF NotFound, CallPlain, WriteResponse
<1> QED
  BY <1>1, <1>2, <1>3, <1>4, <1>5, <1>6, <1>7, <1>8, <1>9, <1>10 DEF Next, Client, Server

\* The invariants of the handlers hold of the connection that calls them.
LEMMA HandlersInv ==
  Spec => [](EncInv /\ TextInv)
<1>1. Init => EncInv /\ TextInv
  BY EncInit_EncInv, TextInit_TextInv DEF Init
<1>2. EncInv /\ TextInv /\ [Next]_vars => (EncInv /\ TextInv)'
  BY HandlersStep, EncNext_EncInv, TextNext_TextInv
<1> QED
  BY <1>1, <1>2, PTL DEF Spec

\* base64_encode gives every image the digits that RFC 4648 does, and writes none of
\* them past the end of its result (Public.cpp), whenever getLoginQRCode is served.
THEOREM HttpEncodesRight ==
  Spec => []EncodesRight
<1>1. EncInv /\ TextInv => EncodesRight
  BY EncInv_EncodesRight
<1> QED
  BY <1>1, HandlersInv, PTL

\* sendTextMsgEx, left by return or by an exception at any part, has freed each buffer
\* of its strings and of its list once, for every body that mentions no more users
\* than the list's first space has room for.
THEOREM HttpStringsFreed ==
  Spec => []StringsFreed
<1>1. EncInv /\ TextInv => StringsFreed
  BY TextInv_StringsFreed
<1> QED
  BY <1>1, HandlersInv, PTL

\* sendTextMsgEx tells WeChat, once, the receiver, the text of all the parts of the
\* body and the wxids that they mention, read from buffers that are still its own;
\* of a body with a part that cannot be read it sends nothing.
THEOREM HttpSendsWhatWasAsked ==
  Spec => []SendsWhatWasAsked
<1>1. EncInv /\ TextInv => SendsWhatWasAsked
  BY TextInv_SendsWhatWasAsked
<1> QED
  BY <1>1, HandlersInv, PTL

-----------------------------------------------------------------------------
(* What a connection keeps *)

ConnTypeOK ==
  /\ stage \in Stages
  /\ count \in 0 .. KeepAliveMax
  /\ stage # "closed" => count >= 1
  /\ asked \in Seq(Requests)
  /\ toSend \in Seq(APart) /\ wire \in Seq(APart) /\ buff \in Seq(APart) /\ read \in Seq(APart)
  /\ client \in {"here", "gone"}
  /\ status \in {0, 200, 400, 404, 500}
  /\ answers \in Seq([of : 0 .. Len(asked), status : {200, 400, 404, 500}])
  /\ handled \in Seq(1 .. Len(asked))
  /\ late \in BOOLEAN

\* However the client pauses, the stream holds what is left of whole requests in their
\* order.  When the client has gone, its end may be missing.
StreamInv == Known(Stream, asked) /\ Runs(Stream, asked, client = "here") /\ InTurn(Stream)

\* How much of a request has been read where.
ReadInv ==
  /\ stage \in {"new", "queued", "keepAlive"} => read = << >> /\ buff = << >>
  /\ stage = "headers" => Len(read) \in 1 .. 2 /\ read[1].kind = "line"
  /\ stage = "content" => Len(read) \in 3 .. 2 + BodyLen /\ read[1].kind = "line" /\ HasBody(Current)
  /\ stage \in {"dispatch", "handler"} => Len(read) = PartCount(asked[Current]) /\ read[1].kind = "line"
  /\ stage = "respond" => read # << >> /\ status # 0

\* A handler runs in its own request only.
HandlerInv ==
  /\ stage = "handler" => Path \in {"sendTextMsgEx", "getLoginQRCode"}
  /\ textPc # "idle" => stage = "handler" /\ Path = "sendTextMsgEx"
  /\ encPc # "idle" => stage = "handler" /\ Path = "getLoginQRCode"

\* No handler has been called for a request whose line is still to come.
HandledBefore ==
  \A i \in 1 .. Len(Stream), k \in 1 .. Len(handled) : Stream[i].kind = "line" =>
    \/ handled[k] < Stream[i].of
    \/ handled[k] = Stream[i].of /\ i = 1 /\ stage \in {"handler", "respond"}

HandledInOrder == \A i, j \in DOMAIN handled : i < j => handled[i] < handled[j]

Told(path) ==
  IF path = "unknown" THEN {404} ELSE IF path = "sendTextMsgEx" THEN {200, 500} ELSE {200}

\* The stream holds the last request, which has no answer yet, and nothing else.
Whole ==
  /\ Len(asked) = Len(answers) + 1
  /\ Stream = Parts(asked[Len(asked)], Len(asked))
  /\ stage = "line" => read = << >>
  /\ stage = "respond" => read = Stream /\ status \in Told(Path)

\* So it is while the client is there and has not been slow, or all is answered.
Sync ==
  ~late /\ client = "here" /\ stage # "closed" =>
    \/ Len(answers) = Len(asked) /\ Stream = << >>
    \/ Whole

HttpInv ==
  /\ ConnTypeOK /\ StreamInv /\ ReadInv /\ HandlerInv
  /\ HandledBefore /\ HandledInOrder /\ Sync /\ AnswersMatch

(* The stream as its four parts *)

LEMMA PartsAssociate ==
  \A a, b, c \in Seq(APart) : (a \o b) \o c = a \o (b \o c)
  BY ConcatAssociative

LEMMA FourParts ==
  ASSUME NEW a \in Seq(APart), NEW b \in Seq(APart), NEW c \in Seq(APart), NEW d \in Seq(APart),
         NEW z, z = a \o b \o c \o d
  PROVE  /\ z \in Seq(APart)
         /\ Len(z) = Len(a) + Len(b) + Len(c \o d)
         /\ c \o d \in Seq(APart)
         /\ \A i \in 1 .. Len(a) : i \in 1 .. Len(z) /\ z[i] = a[i]
         /\ b # << >> => Len(a) + 1 \in 1 .. Len(z) /\ z[Len(a) + 1] = Head(b)
         /\ \A i \in 1 .. Len(c \o d) : z[(Len(a) + Len(b)) + i] = (c \o d)[i]
<1> DEFINE ab == a \o b
           cd == c \o d
<1>1. /\ ab \in Seq(APart) /\ Len(ab) = Len(a) + Len(b)
      /\ \A i \in 1 .. Len(a) + Len(b) : ab[i] = IF i <= Len(a) THEN a[i] ELSE b[i - Len(a)]
  BY ConcatProperties
<1>2. cd \in Seq(APart)
  BY ConcatProperties
<1>3. z = ab \o cd
  BY <1>1, ConcatAssociative
<1> HIDE DEF ab, cd
<1>4. /\ z \in Seq(APart) /\ Len(z) = Len(ab) + Len(cd)
      /\ \A i \in 1 .. Len(ab) + Len(cd) : z[i] = IF i <= Len(ab) THEN ab[i] ELSE cd[i - Len(ab)]
  <2>1. ab \in Seq(APart)
    BY <1>1
  <2>2. /\ ab \o cd \in Seq(APart) /\ Len(ab \o cd) = Len(ab) + Len(cd)
        /\ \A i \in 1 .. Len(ab) + Len(cd) :
             (ab \o cd)[i] = IF i <= Len(ab) THEN ab[i] ELSE cd[i - Len(ab)]
    BY <1>2, <2>1, ConcatProperties
  <2> QED
    BY <1>3, <2>2
<1>5. Len(a) \in Nat /\ Len(b) \in Nat /\ Len(cd) \in Nat /\ Len(ab) \in Nat
  BY <1>1, <1>2
<1>6. \A i \in 1 .. Len(a) : i \in 1 .. Len(z) /\ z[i] = a[i]
  BY <1>1, <1>4, <1>5
<1>7. ASSUME b # << >> PROVE Len(a) + 1 \in 1 .. Len(z) /\ z[Len(a) + 1] = Head(b)
  <2>1. Len(b) >= 1 /\ Head(b) = b[1]
    BY <1>7
  <2>2. ab[Len(a) + 1] = b[1]
    <3>1. /\ Len(a) + 1 \in 1 .. Len(a) + Len(b)
          /\ ~ Len(a) + 1 <= Len(a) /\ (Len(a) + 1) - Len(a) = 1
      BY <1>5, <2>1
    <3> QED
      BY <1>1, <3>1
  <2> QED
    BY <1>1, <1>4, <1>5, <2>1, <2>2
<1>8. ASSUME NEW i \in 1 .. Len(cd) PROVE z[(Len(a) + Len(b)) + i] = cd[i]
  <2>1. (Len(a) + Len(b)) + i \in 1 .. Len(ab) + Len(cd)
    BY <1>1, <1>5
  <2>2. ~ (Len(a) + Len(b)) + i <= Len(ab) /\ ((Len(a) + Len(b)) + i) - Len(ab) = i
    BY <1>1, <1>5
  <2> QED
    BY <1>4, <2>1, <2>2
<1> QED
  BY <1>1, <1>2, <1>4, <1>6, <1>7, <1>8 DEF cd

\* A part moves on from one sequence to the one before it.
LEMMA OneMoves ==
  ASSUME NEW a \in Seq(APart), NEW b \in Seq(APart), b # << >>
  PROVE  /\ Append(a, Head(b)) \in Seq(APart) /\ Tail(b) \in Seq(APart)
         /\ Append(a, Head(b)) \o Tail(b) = a \o b
<1>1. Head(b) \in APart /\ Tail(b) \in Seq(APart)
  BY HeadTailProperties
<1>2. <<Head(b)>> \in Seq(APart) /\ b = <<Head(b)>> \o Tail(b)
  <2> DEFINE x == Head(b)
             t == Tail(b)
  <2>1. /\ Len(t) = Len(b) - 1 /\ \A i \in 1 .. Len(t) : t[i] = b[i + 1]
        /\ x = b[1] /\ Len(b) \in Nat \ {0}
    BY HeadTailProperties
  <2>2. x \in APart /\ t \in Seq(APart)
    BY <1>1
  <2> HIDE DEF x, t
  <2>3. <<x>> \in Seq(APart) /\ Len(<<x>>) = 1 /\ <<x>>[1] = x
    BY <2>2
  <2>4. /\ <<x>> \o t \in Seq(APart) /\ Len(<<x>> \o t) = 1 + Len(t)
        /\ \A i \in 1 .. 1 + Len(t) : (<<x>> \o t)[i] = IF i <= 1 THEN <<x>>[i] ELSE t[i - 1]
    BY <2>2, <2>3, ConcatProperties
  <2>5. Len(<<x>> \o t) = Len(b)
    BY <2>1, <2>4
  <2>6. ASSUME NEW i \in 1 .. Len(b) PROVE b[i] = (<<x>> \o t)[i]
    <3>1. CASE i = 1
      BY <2>1, <2>3, <2>4, <3>1
    <3>2. CASE i > 1
      <4>1. i - 1 \in 1 .. Len(t) /\ (i - 1) + 1 = i /\ i \in 1 .. 1 + Len(t) /\ ~ i <= 1
        BY <2>1, <3>2
      <4> QED
        BY <2>1, <2>4, <4>1
    <3> QED
      BY <2>1, <3>1, <3>2
  <2>7. b = <<x>> \o t
    BY <2>4, <2>5, <2>6, SeqEqual
  <2> QED
    BY <2>3, <2>7 DEF x, t
<1>3. Append(a, Head(b)) \in Seq(APart) /\ Append(a, Head(b)) = a \o <<Head(b)>>
  BY <1>1, AppendIsConcat, AppendProperties
<1>4. (a \o <<Head(b)>>) \o Tail(b) = a \o (<<Head(b)>> \o Tail(b))
  BY <1>1, <1>2, ConcatAssociative
<1> QED
  BY <1>1, <1>2, <1>3, <1>4

Flows == toSend \in Seq(APart) /\ wire \in Seq(APart) /\ buff \in Seq(APart) /\ read \in Seq(APart)

LEMMA UseFlows ==
  ASSUME Flows, buff # << >>, Use, UNCHANGED <<wire, toSend>>
  PROVE  /\ Flows' /\ Stream' = Stream
         /\ Len(read) \in Nat /\ Len(read') = Len(read) + 1 /\ read' # << >>
         /\ \A i \in 1 .. Len(read) : read'[i] = read[i]
         /\ read'[Len(read) + 1] = Head(buff)
<1>1. read' = Append(read, Head(buff)) /\ buff' = Tail(buff) /\ wire' = wire /\ toSend' = toSend
  BY DEF Use
<1>2. read' \in Seq(APart) /\ buff' \in Seq(APart) /\ read' \o buff' = read \o buff
  BY <1>1, OneMoves DEF Flows
<1>3. Head(buff) \in APart
  BY HeadTailProperties DEF Flows
<1>4. /\ Len(read) \in Nat /\ Len(read') = Len(read) + 1 /\ read' # << >>
      /\ \A i \in 1 .. Len(read) : read'[i] = read[i]
      /\ read'[Len(read) + 1] = Head(buff)
  BY <1>1, <1>3, AppendProperties, LenProperties DEF Flows
<1> QED
  BY <1>1, <1>2, <1>4 DEF Flows, Stream

LEMMA ReceiveFlows ==
  ASSUME Flows, Receive
  PROVE  Flows' /\ Stream' = Stream
<1>1. PICK i \in 1 .. Len(wire) : /\ buff' = SubSeq(wire, 1, i)
                                  /\ wire' = SubSeq(wire, i + 1, Len(wire))
  BY DEF Receive
<1>2. buff = << >> /\ read' = read /\ toSend' = toSend
  BY DEF Receive, requestVars, clientVars
<1>3. buff' \o wire' = wire
  <2>1. i \in 0 .. Len(wire) /\ 1 \in 1 .. Len(wire) + 1 /\ Len(wire) \in i .. Len(wire)
    BY DEF Flows
  <2>2. SubSeq(wire, 1, i) \o SubSeq(wire, i + 1, Len(wire)) = SubSeq(wire, 1, Len(wire))
    BY <2>1, ConcatAdjacentSubSeq DEF Flows
  <2> QED
    BY <1>1, <2>2, SubSeqFull DEF Flows
<1>4. buff' \in Seq(APart) /\ wire' \in Seq(APart)
  <2>1. \A j \in 1 .. Len(wire) : wire[j] \in APart
    BY ElementOfSeq DEF Flows
  <2>2. /\ i \in Int /\ Len(wire) \in Int /\ i + 1 \in Int
        /\ \A j \in 1 .. i : wire[j] \in APart
        /\ \A j \in i + 1 .. Len(wire) : wire[j] \in APart
    BY <2>1 DEF Flows
  <2> QED
    BY <1>1, <2>2, SubSeqProperties
<1>5. (read \o buff') \o wire' = read \o wire
  <2>1. (read \o buff') \o wire' = read \o (buff' \o wire')
    BY <1>4, PartsAssociate DEF Flows
  <2> QED
    BY <1>3, <2>1
<1>6. read \o buff = read
  BY <1>2, ConcatEmptySeq DEF Flows
<1> QED
  BY <1>2, <1>4, <1>5, <1>6 DEF Flows, Stream

LEMMA SendFlows ==
  ASSUME Flows, SendPart
  PROVE  Flows' /\ Stream' = Stream
<1>1. /\ toSend # << >> /\ wire' = Append(wire, Head(toSend)) /\ toSend' = Tail(toSend)
      /\ read' = read /\ buff' = buff
  BY DEF SendPart, requestVars
<1>2. wire' \in Seq(APart) /\ toSend' \in Seq(APart) /\ wire' \o toSend' = wire \o toSend
  BY <1>1, OneMoves DEF Flows
<1>3. read \o buff \in Seq(APart)
  BY ConcatProperties DEF Flows
<1>4. (read \o buff) \o wire' \o toSend' = (read \o buff) \o (wire' \o toSend')
  BY <1>2, <1>3, PartsAssociate
<1>5. (read \o buff) \o wire \o toSend = (read \o buff) \o (wire \o toSend)
  BY <1>3, PartsAssociate DEF Flows
<1> QED
  BY <1>1, <1>2, <1>4, <1>5 DEF Flows, Stream

\* What is known of the parts that have been read, and of the next one.
LEMMA ReadIs ==
  ASSUME ConnTypeOK, StreamInv
  PROVE  /\ Stream \in Seq(APart) /\ Len(Stream) \in Nat
         /\ Len(read) \in Nat /\ Len(read) <= Len(Stream)
         /\ \A i \in 1 .. Len(read) : read[i] = Stream[i]
         /\ buff # << >> => Len(read) + 1 <= Len(Stream) /\ Head(buff) = Stream[Len(read) + 1]
         /\ read # << >> => /\ Len(read) >= 1 /\ Len(Stream) >= 1
                            /\ Current \in 1 .. Len(asked) /\ asked[Current] \in Requests
         /\ read # << >> /\ read[1].kind = "line" =>
              /\ PartCount(asked[Current]) \in Nat /\ PartCount(asked[Current]) >= 3
              /\ \A j \in 1 .. PartCount(asked[Current]) : j <= Len(Stream) =>
                   /\ Stream[j] = Parts(asked[Current], Current)[j]
                   /\ (Stream[j].kind = "blank") <=> j = 3
<1> DEFINE z == Stream
<1>1. /\ z \in Seq(APart) /\ Len(z) \in Nat
      /\ Len(read) \in Nat /\ Len(read) <= Len(z)
      /\ \A i \in 1 .. Len(read) : read[i] = z[i]
      /\ buff # << >> => Len(read) + 1 <= Len(z) /\ Head(buff) = z[Len(read) + 1]
  <2>1. /\ z \in Seq(APart)
        /\ \A i \in 1 .. Len(read) : i \in 1 .. Len(z) /\ z[i] = read[i]
        /\ buff # << >> => Len(read) + 1 \in 1 .. Len(z) /\ z[Len(read) + 1] = Head(buff)
        /\ Len(z) = Len(read) + Len(buff) + Len(wire \o toSend)
        /\ wire \o toSend \in Seq(APart)
    BY FourParts DEF ConnTypeOK, Stream
  <2>2. Len(read) \in Nat /\ Len(buff) \in Nat /\ Len(z) \in Nat /\ Len(wire \o toSend) \in Nat
    BY <2>1 DEF ConnTypeOK
  <2> HIDE DEF z
  <2> QED
    BY <2>1, <2>2
<1>2. Known(z, asked) /\ Runs(z, asked, client = "here")
  BY DEF StreamInv
<1> HIDE DEF z
<1>3. ASSUME read # << >>
      PROVE  /\ Len(read) >= 1 /\ Len(z) >= 1 /\ read[1] = z[1]
             /\ Current \in 1 .. Len(asked) /\ asked[Current] \in Requests
  <2>1. Len(read) >= 1
    BY <1>3 DEF ConnTypeOK
  <2>2. Len(z) >= 1 /\ read[1] = z[1]
    BY <1>1, <2>1
  <2>3. Current \in 1 .. Len(asked)
    BY <1>1, <1>2, <2>2 DEF Known, Current
  <2> QED
    BY <2>1, <2>2, <2>3, ElementOfSeq DEF ConnTypeOK
<1>4. ASSUME read # << >>, read[1].kind = "line"
      PROVE  /\ PartCount(asked[Current]) \in Nat /\ PartCount(asked[Current]) >= 3
             /\ \A j \in 1 .. PartCount(asked[Current]) : j <= Len(z) =>
                  /\ z[j] = Parts(asked[Current], Current)[j]
                  /\ (z[j].kind = "blank") <=> j = 3
  <2> DEFINE k == Current
             q == asked[k]
  <2>1. k \in Nat /\ q \in Requests /\ z[1].of = k /\ z[1].kind = "line" /\ 1 \in 1 .. Len(z)
    BY <1>1, <1>3, <1>4 DEF Current
  <2> HIDE DEF k, q
  <2>2. /\ PartCount(q) \in Nat /\ PartCount(q) >= 3
        /\ \A j \in 1 .. PartCount(q) : (Parts(q, k)[j].kind = "blank") <=> j = 3
    BY <2>1, PartsAre
  <2>3. \A j \in 1 .. PartCount(q) : 1 + j - 1 <= Len(z) => z[1 + j - 1] = Parts(q, k)[j]
    BY <1>2, <2>1 DEF Runs, q
  <2>4. \A j \in 1 .. PartCount(q) : j <= Len(z) => z[j] = Parts(q, k)[j]
    <3> TAKE j \in 1 .. PartCount(q)
    <3>1. 1 + j - 1 = j
      BY <2>2
    <3> QED
      BY <2>3, <3>1
  <2> QED
    BY <2>2, <2>4 DEF q, k
<1> QED
  BY <1>1, <1>3, <1>4 DEF z

LEMMA AskStream ==
  ASSUME ConnTypeOK, StreamInv, NEW q \in Requests, Ask(q)
  PROVE  /\ Flows' /\ Stream' = Stream \o Parts(q, Len(asked) + 1) /\ StreamInv'
         /\ asked' = Append(asked, q) /\ asked' \in Seq(Requests)
<1> DEFINE x == read \o buff \o wire
           ps == Parts(q, Len(asked) + 1)
<1>1. /\ toSend = << >> /\ toSend' = ps /\ asked' = Append(asked, q) /\ client = "here"
      /\ read' = read /\ buff' = buff /\ wire' = wire /\ client' = client
  BY DEF Ask, stream, requestVars
<1>2. ps \in Seq(APart) /\ Len(asked) \in Nat
  <2>1. Len(asked) + 1 \in Nat /\ Len(asked) \in Nat
    BY LenProperties DEF ConnTypeOK
  <2> HIDE DEF x
  <2> QED
    BY <2>1, PartsAre
<1>3. x \in Seq(APart)
  BY ConcatProperties DEF ConnTypeOK
<1>4. Stream = x /\ Stream' = x \o ps
  BY <1>1, <1>3, ConcatEmptySeq DEF Stream
<1>5. Flows'
  BY <1>1, <1>2 DEF ConnTypeOK, Flows
<1> HIDE DEF x, ps
<1>6. /\ Known(x \o ps, Append(asked, q)) /\ InTurn(x \o ps)
      /\ Runs(x \o ps, Append(asked, q), TRUE)
  <2>1. Known(x, asked) /\ Runs(x, asked, TRUE) /\ InTurn(x)
    BY <1>1, <1>4 DEF StreamInv
  <2>2. asked \in Seq(Requests)
    BY DEF ConnTypeOK
  <2> QED
    BY <1>3, <2>1, <2>2, RunsOn DEF ps
<1>7. StreamInv'
  <2>1. Known(Stream, asked)' /\ InTurn(Stream)'
    BY <1>1, <1>4, <1>6 DEF Known, InTurn
  <2>2. Runs(Stream, asked, client = "here")'
    BY <1>1, <1>4, <1>6 DEF Runs
  <2> QED
    BY <2>1, <2>2 DEF StreamInv
<1>8. Append(asked, q) \in Seq(Requests)
  BY AppendProperties DEF ConnTypeOK
<1> QED
  BY <1>1, <1>4, <1>5, <1>7, <1>8 DEF ps

LEMMA GoAwayStream ==
  ASSUME ConnTypeOK, StreamInv, GoAway
  PROVE  /\ Flows' /\ StreamInv'
         /\ Len(Stream') \in Nat /\ Len(Stream') <= Len(Stream)
         /\ \A i \in 1 .. Len(Stream') : Stream'[i] = Stream[i]
<1> DEFINE x == read \o buff \o wire
           w == (client = "here")
<1>1. /\ toSend' = << >> /\ asked' = asked /\ client' = "gone"
      /\ read' = read /\ buff' = buff /\ wire' = wire
  BY DEF GoAway, stream, requestVars
<1>2. x \in Seq(APart) /\ toSend \in Seq(APart)
  BY ConcatProperties DEF ConnTypeOK
<1>3. Stream' = x /\ Stream = x \o toSend
  BY <1>1, <1>2, ConcatEmptySeq DEF Stream
<1>4. Flows'
  BY <1>1 DEF ConnTypeOK, Flows
<1>5. w \in BOOLEAN /\ Known(Stream, asked) /\ Runs(Stream, asked, w) /\ InTurn(Stream)
  BY DEF StreamInv
<1> HIDE DEF x, w
<1>6. PICK z \in Seq(APart) : z = Stream
  BY <1>2, <1>3, ConcatProperties
<1>7. /\ Len(x) \in Nat /\ Len(x) <= Len(z)
      /\ \A i \in 1 .. Len(x) : x[i] = z[i]
  <2>1. Len(x) \in Nat /\ Len(toSend) \in Nat
    BY <1>2
  <2> QED
    BY <1>2, <1>3, <1>6, <2>1, ConcatProperties
<1>8. Known(x, asked) /\ Runs(x, asked, FALSE) /\ InTurn(x)
  <2>1. 0 + Len(x) <= Len(z) /\ \A i \in 1 .. Len(x) : x[i] = z[0 + i]
    BY <1>7
  <2>2. Known(z, asked) /\ Runs(z, asked, w) /\ InTurn(z)
    BY <1>5, <1>6
  <2> QED
    BY <1>2, <1>5, <2>1, <2>2, RunsLess
<1>9. StreamInv'
  <2>1. Known(Stream, asked)' /\ InTurn(Stream)'
    BY <1>1, <1>3, <1>8 DEF Known, InTurn
  <2>2. Runs(Stream, asked, client = "here")'
    BY <1>1, <1>3, <1>8 DEF Runs
  <2> QED
    BY <2>1, <2>2 DEF StreamInv
<1> QED
  BY <1>3, <1>4, <1>6, <1>7, <1>9

LEMMA WriteStream ==
  ASSUME ConnTypeOK, StreamInv, ReadInv, WriteResponse
  PROVE  /\ Flows' /\ StreamInv'
         /\ Len(Stream') \in Nat
         /\ \E d \in Nat \ {0} :
              /\ d >= Len(read)
              /\ Len(Stream) = d + Len(Stream')
              /\ \A i \in 1 .. Len(Stream') : Stream'[i] = Stream[d + i]
<1> DEFINE y == wire \o toSend
           w == (client = "here")
<1>1. /\ read' = << >> /\ buff' = << >>
      /\ UNCHANGED <<asked, client, wire, toSend>> /\ stage = "respond"
  BY DEF WriteResponse
<1>2. y \in Seq(APart) /\ Flows'
  BY <1>1, ConcatProperties DEF ConnTypeOK, Flows
<1>3. Stream' = y
  <2>1. Stream' = << >> \o << >> \o wire \o toSend
    BY <1>1 DEF Stream
  <2>2. << >> \o << >> = << >> /\ << >> \o wire = wire
    BY ConcatEmptySeq, EmptySeq DEF ConnTypeOK
  <2> QED
    BY <2>1, <2>2
<1>4. PICK z \in Seq(APart) : z = Stream
  BY FourParts DEF ConnTypeOK, Stream
<1>5. PICK d \in Nat \ {0} : d >= Len(read) /\ d = Len(read) + Len(buff)
  <2>1. read # << >> /\ read \in Seq(APart) /\ buff \in Seq(APart)
    BY <1>1 DEF ReadInv, ConnTypeOK
  <2>2. Len(read) \in Nat \ {0} /\ Len(buff) \in Nat
    BY <2>1, EmptySeq
  <2>3. Len(read) + Len(buff) \in Nat \ {0} /\ Len(read) + Len(buff) >= Len(read)
    BY <2>2
  <2> QED
    BY <2>3
<1>6. /\ Len(z) = d + Len(y)
      /\ \A i \in 1 .. Len(y) : y[i] = z[d + i]
  BY <1>4, <1>5, FourParts DEF ConnTypeOK, Stream
<1>7. Len(y) \in Nat
  BY <1>2
<1>8. w \in BOOLEAN /\ Known(z, asked) /\ Runs(z, asked, w) /\ InTurn(z)
  BY <1>4 DEF StreamInv
<1> HIDE DEF y, w
<1>9. Known(y, asked) /\ Runs(y, asked, w) /\ InTurn(y)
  <2>1. d + Len(y) <= Len(z) /\ d + Len(y) = Len(z) /\ d \in Nat
    BY <1>5, <1>6, <1>7
  <2>2. \A i \in 1 .. Len(y) : y[i] = z[d + i]
    BY <1>6
  <2>3. y \in Seq(APart) /\ (w => w /\ d + Len(y) = Len(z))
    BY <1>2, <2>1
  <2>4. PICK u \in Seq(APart), v \in BOOLEAN, qs \in {asked} : u = y /\ v = w
    BY <1>8, <2>3
  <2>5. Known(z, qs) /\ Runs(z, qs, v) /\ InTurn(z)
    BY <1>8, <2>4
  <2>6. d + Len(u) <= Len(z) /\ (v => v /\ d + Len(u) = Len(z)) /\ d \in Nat
    BY <2>1, <2>4
  <2>7. \A i \in 1 .. Len(u) : u[i] = z[d + i]
    BY <2>2, <2>4
  <2>8. Known(u, qs) /\ Runs(u, qs, v) /\ InTurn(u)
    BY <2>5, <2>6, <2>7, RunsLess
  <2> QED
    BY <2>4, <2>8
<1>10. StreamInv'
  <2>1. Known(Stream, asked)' /\ InTurn(Stream)'
    BY <1>1, <1>3, <1>9 DEF Known, InTurn
  <2>2. Runs(Stream, asked, client = "here")'
    BY <1>1, <1>3, <1>9 DEF Runs, w
  <2> QED
    BY <2>1, <2>2 DEF StreamInv
<1> QED
  BY <1>2, <1>3, <1>4, <1>5, <1>6, <1>7, <1>10

\* A step that only moves parts keeps most of the invariant.
LEMMA Quiet ==
  ASSUME HttpInv, Stream' = Stream, UNCHANGED <<asked, client, answers, handled>>,
         late => late', stage # "closed",
         stage \in {"handler", "respond"} => stage' \in {"handler", "respond"},
         ~late' /\ client = "here" /\ stage' # "closed" /\ Whole => Whole'
  PROVE  StreamInv' /\ HandledBefore' /\ HandledInOrder' /\ Sync' /\ AnswersMatch'
<1>1. StreamInv'
  BY DEF HttpInv, StreamInv, Known, Runs, InTurn
<1>2. HandledBefore'
  BY DEF HttpInv, HandledBefore
<1>3. HandledInOrder'
  BY DEF HttpInv, HandledInOrder
<1>4. Sync'
  BY DEF HttpInv, Sync
<1>5. AnswersMatch'
  BY DEF HttpInv, AnswersMatch
<1> QED
  BY <1>1, <1>2, <1>3, <1>4, <1>5

\* The request that is dispatched is the last one that was asked.
LEMMA WholeRead ==
  ASSUME HttpInv, Whole, stage \in {"dispatch", "handler"}
  PROVE  read = Stream /\ Current = Len(asked)
<1> DEFINE k == Len(asked)
<1>1. /\ Stream \in Seq(APart) /\ Len(read) <= Len(Stream) /\ Len(read) >= 1 /\ Len(read) \in Nat
      /\ \A i \in 1 .. Len(read) : read[i] = Stream[i]
      /\ read \in Seq(APart)
  <2>1. read # << >>
    <3>1. Len(read) = PartCount(asked[Current]) /\ Len(<< >>) = 0
      BY DEF HttpInv, ReadInv
    <3>2. PartCount(asked[Current]) >= 3
      BY HttpAssumption DEF PartCount
    <3> QED
      BY <3>1, <3>2
  <2> QED
    BY <2>1, ReadIs DEF HttpInv, ConnTypeOK
<1>2. /\ k \in Nat /\ k \in 1 .. Len(asked) /\ asked[k] \in Requests
      /\ Stream = Parts(asked[k], k)
  <2>1. k \in Nat /\ Len(answers) \in Nat /\ k = Len(answers) + 1
    BY DEF HttpInv, ConnTypeOK, Whole
  <2> QED
    BY <2>1, ElementOfSeq DEF HttpInv, ConnTypeOK, Whole
<1>3. /\ PartCount(asked[k]) \in Nat /\ PartCount(asked[k]) >= 3
      /\ Len(Stream) = PartCount(asked[k])
      /\ Stream[1].of = k
  BY <1>2, PartsAre
<1>4. Current = k
  BY <1>1, <1>3 DEF Current
<1>5. Len(read) = Len(Stream)
  BY <1>3, <1>4 DEF HttpInv, ReadInv
<1> QED
  BY <1>1, <1>4, <1>5, SeqEqual

(* The steps of the connection *)

LEMMA Rests_HttpInv ==
  ASSUME HttpInv,
         \/ Accept \/ TakeJob \/ KeepAlive \/ KeepAliveTimesOut
         \/ LineMissing \/ HeadersMissing \/ ContentMissing \/ NotFound
  PROVE  HttpInv'
<1>1. /\ UNCHANGED <<asked, toSend, client, answers, wire, buff, read, handled>>
      /\ UNCHANGED <<textPc, encPc>>
      /\ stage \in {"new", "queued", "keepAlive", "line", "headers", "content", "dispatch"}
      /\ stage' \in {"queued", "keepAlive", "line", "respond", "closed"}
      /\ late' \in {late, TRUE}
  <2> USE DEF clientVars, stream, requestVars, history, handlers, textVars, encVars
  <2>1. CASE Accept \/ TakeJob \/ KeepAlive \/ KeepAliveTimesOut
    BY <2>1 DEF Accept, TakeJob, KeepAlive, KeepAliveTimesOut, CloseSocket
  <2>2. CASE LineMissing
    BY <2>2 DEF LineMissing, CloseSocket, Respond
  <2>3. CASE HeadersMissing \/ ContentMissing
    BY <2>3 DEF HeadersMissing, ContentMissing, Respond, HttpInv, ConnTypeOK
  <2>4. CASE NotFound
    BY <2>4 DEF NotFound, Respond
  <2> QED
    BY <2>1, <2>2, <2>3, <2>4
<1>2. Stream' = Stream
  BY <1>1 DEF Stream
<1>3. ConnTypeOK'
  <2>1. stage' \in Stages
    BY <1>1 DEF Stages
  <2>2. /\ count' \in 0 .. KeepAliveMax /\ (stage' # "closed" => count' >= 1)
        /\ status' \in {0, 200, 400, 404, 500}
    <3> USE HttpAssumption DEF HttpInv, ConnTypeOK
    <3>1. CASE Accept \/ TakeJob \/ KeepAlive \/ KeepAliveTimesOut
      BY <3>1 DEF Accept, TakeJob, KeepAlive, KeepAliveTimesOut, CloseSocket, requestVars
    <3>2. CASE LineMissing
      BY <3>2 DEF LineMissing, CloseSocket, Respond
    <3>3. CASE HeadersMissing \/ ContentMissing \/ NotFound
      BY <3>3 DEF HeadersMissing, ContentMissing, NotFound, Respond
    <3> QED
      BY <3>1, <3>2, <3>3
  <2> QED
    BY <1>1, <2>1, <2>2 DEF HttpInv, ConnTypeOK
<1>4. ReadInv'
  <2>1. ASSUME stage' \in {"queued", "keepAlive"} PROVE read = << >> /\ buff = << >>
    <3>1. Accept \/ TakeJob
      BY <2>1 DEF KeepAlive, KeepAliveTimesOut, LineMissing, HeadersMissing, ContentMissing,
                  NotFound, CloseSocket, Respond
    <3> QED
      BY <3>1 DEF Accept, TakeJob, HttpInv, ReadInv
  <2>2. ASSUME stage' = "respond" PROVE read # << >> /\ status' # 0
    <3>1. CASE LineMissing
      BY <2>2, <3>1 DEF LineMissing, CloseSocket, Respond
    <3>2. CASE HeadersMissing \/ ContentMissing
      <4>1. Len(read) >= 1 /\ status' = 400
        BY <3>2 DEF HeadersMissing, ContentMissing, Respond, HttpInv, ReadInv
      <4> QED
        BY <4>1
    <3>3. CASE NotFound
      <4>1. Len(read) = PartCount(asked[Current]) /\ status' = 404
        BY <3>3 DEF NotFound, Respond, HttpInv, ReadInv
      <4>2. PartCount(asked[Current]) >= 3
        BY HttpAssumption DEF PartCount
      <4>3. Len(read) # 0
        BY <4>1, <4>2
      <4> QED
        BY <4>1, <4>3
    <3> QED
      BY <2>2, <3>1, <3>2, <3>3 DEF Accept, TakeJob, KeepAlive, KeepAliveTimesOut, CloseSocket
  <2> QED
    BY <1>1, <2>1, <2>2 DEF ReadInv
<1>5. HandlerInv'
  BY <1>1 DEF HttpInv, HandlerInv
<1>6. ASSUME ~late', client = "here", stage' # "closed", Whole PROVE Whole'
  <2>1. ASSUME stage' = "line" PROVE read' = << >>
    <3>1. stage = "keepAlive"
      BY <2>1 DEF Accept, TakeJob, KeepAlive, KeepAliveTimesOut, LineMissing, HeadersMissing,
                  ContentMissing, NotFound, CloseSocket, Respond
    <3> QED
      BY <1>1, <3>1 DEF HttpInv, ReadInv
  <2>2. ASSUME stage' = "respond" PROVE (read = Stream /\ status \in Told(Path))'
    <3>1. NotFound
      BY <1>6, <2>2 DEF Accept, TakeJob, KeepAlive, KeepAliveTimesOut, LineMissing, HeadersMissing,
                        ContentMissing, CloseSocket, Respond
    <3>2. stage = "dispatch" /\ Path = "unknown" /\ status' = 404
      BY <3>1 DEF NotFound, Respond
    <3>3. read = Stream
      BY <1>6, <3>2, WholeRead
    <3>4. Path' = "unknown"
      BY <1>1, <3>2 DEF Path, Current
    <3> QED
      BY <1>1, <1>2, <3>2, <3>3, <3>4 DEF Told
  <2> QED
    BY <1>1, <1>2, <1>6, <2>1, <2>2 DEF Whole
<1>7. StreamInv' /\ HandledBefore' /\ HandledInOrder' /\ Sync' /\ AnswersMatch'
  <2>1. late => late'
    BY <1>1
  <2>2. stage # "closed" /\ stage \notin {"handler", "respond"}
    BY <1>1
  <2> QED
    BY <1>1, <1>2, <1>6, <2>1, <2>2, Quiet
<1> QED
  BY <1>3, <1>4, <1>5, <1>7 DEF HttpInv

LEMMA Moves_HttpInv ==
  ASSUME HttpInv, Receive \/ SendPart
  PROVE  HttpInv'
<1>1. /\ UNCHANGED <<stage, count, asked, client, answers, read, status, handled, late>>
      /\ UNCHANGED <<textPc, encPc>> /\ stage # "closed"
  BY DEF Receive, Reading, SendPart, clientVars, requestVars, history, handlers, textVars, encVars
<1>2. Flows' /\ Stream' = Stream
  BY ReceiveFlows, SendFlows DEF HttpInv, ConnTypeOK, Flows
<1>3. ConnTypeOK'
  BY <1>1, <1>2 DEF HttpInv, ConnTypeOK, Flows
<1>4. ReadInv'
  <2>1. ASSUME stage \in {"new", "queued", "keepAlive"} PROVE buff' = buff
    BY <2>1 DEF Receive, Reading, SendPart
  <2>2. Current' = Current
    BY <1>1 DEF Current
  <2> QED
    BY <1>1, <2>1, <2>2 DEF HttpInv, ReadInv, HasBody
<1>5. HandlerInv'
  BY <1>1 DEF HttpInv, HandlerInv, Path, Current
<1>6. Whole => Whole'
  BY <1>1, <1>2 DEF Whole, Path, Current
<1>7. StreamInv' /\ HandledBefore' /\ HandledInOrder' /\ Sync' /\ AnswersMatch'
  BY <1>1, <1>2, <1>6, Quiet
<1> QED
  BY <1>3, <1>4, <1>5, <1>7 DEF HttpInv

LEMMA Uses_HttpInv ==
  ASSUME HttpInv, LineContinues \/ LineParsed \/ LineMalformed \/ ReadHeader \/ ReadContent
  PROVE  HttpInv'
<1>1. /\ buff # << >> /\ Use
      /\ UNCHANGED <<count, asked, toSend, client, answers, wire, handled, late>>
      /\ UNCHANGED <<textPc, encPc>>
      /\ stage \in {"line", "headers", "content"}
      /\ stage' \in {"line", "headers", "content", "dispatch", "respond"}
  BY DEF LineContinues, LineParsed, LineMalformed, ReadHeader, ReadContent, Respond,
         clientVars, history, handlers, textVars, encVars
<1>2. /\ Flows' /\ Stream' = Stream
      /\ Len(read) \in Nat /\ Len(read') = Len(read) + 1 /\ read' # << >>
      /\ \A i \in 1 .. Len(read) : read'[i] = read[i]
      /\ read'[Len(read) + 1] = Head(buff)
  BY <1>1, UseFlows DEF HttpInv, ConnTypeOK, Flows
<1>3. /\ Len(read) + 1 <= Len(Stream) /\ Head(buff) = Stream[Len(read) + 1]
      /\ read # << >> /\ read[1].kind = "line" =>
           /\ PartCount(asked[Current]) \in Nat /\ PartCount(asked[Current]) >= 3
           /\ \A j \in 1 .. PartCount(asked[Current]) :
                j <= Len(Stream) => (Stream[j].kind = "blank" <=> j = 3)
  BY <1>1, ReadIs DEF HttpInv
<1>4. read # << >> => Len(read) >= 1 /\ read'[1] = read[1] /\ Current' = Current
  <2>1. read # << >> => Len(read) >= 1
    BY DEF HttpInv, ConnTypeOK
  <2> QED
    BY <1>2, <2>1 DEF Current
<1>5. /\ ConnTypeOK'
  <2>1. status' \in {0, 200, 400, 404, 500}
    <3>1. status' \in {status, 400}
      BY DEF LineContinues, LineParsed, LineMalformed, ReadHeader, ReadContent, Respond
    <3> QED
      BY <3>1 DEF HttpInv, ConnTypeOK
  <2> QED
    BY <1>1, <1>2, <2>1 DEF HttpInv, ConnTypeOK, Flows, Stages
<1>6. stage \in {"headers", "content"} =>
        /\ read # << >> /\ read[1].kind = "line" /\ read'[1].kind = "line" /\ HasBody(Current)' = HasBody(Current)
        /\ PartCount(asked[Current])' = PartCount(asked[Current])
  <2>1. stage \in {"headers", "content"} => Len(read) >= 1 /\ read[1].kind = "line"
    BY DEF HttpInv, ReadInv
  <2>2. stage \in {"headers", "content"} => read # << >>
    BY <2>1
  <2> QED
    BY <1>1, <1>4, <2>1, <2>2 DEF HasBody, PartCount
<1>7. ReadInv'
  <2>1. CASE LineContinues
    BY <2>1 DEF LineContinues, ReadInv
  <2>2. CASE LineParsed
    <3>1. stage' = "headers" /\ read = << >> /\ Head(buff).kind = "line" /\ Len(read) = 0
      BY <2>2 DEF LineParsed
    <3>2. Len(read') = 1 /\ read'[1].kind = "line"
      BY <1>2, <3>1
    <3> QED
      BY <3>1, <3>2 DEF ReadInv
  <2>3. CASE LineMalformed
    <3>1. stage' = "respond" /\ status' = 400
      BY <2>3 DEF LineMalformed, Respond
    <3> QED
      BY <1>2, <3>1 DEF ReadInv
  <2>4. CASE ReadHeader
    <3>1. /\ stage = "headers" /\ Len(read) \in 1 .. 2 /\ UNCHANGED status
          /\ stage' = IF Head(buff).kind # "blank" THEN "headers"
                      ELSE IF HasBody(Current) THEN "content" ELSE "dispatch"
      BY <2>4 DEF ReadHeader, HttpInv, ReadInv
    <3>2. Head(buff).kind = "blank" <=> Len(read) + 1 = 3
      <4>1. Len(read) + 1 \in 1 .. PartCount(asked[Current]) /\ Len(read) + 1 <= Len(Stream)
        <5>1. PartCount(asked[Current]) \in Nat /\ PartCount(asked[Current]) >= 3
          BY <1>3, <1>6, <3>1
        <5>2. Len(read) + 1 <= Len(Stream)
          BY <1>3
        <5>3. \A l \in 1 .. 2, c \in Nat : c >= 3 => l + 1 \in 1 .. c
          OBVIOUS
        <5> QED
          BY <3>1, <5>1, <5>2, <5>3, Zenon
      <4> QED
        BY <1>3, <1>6, <3>1, <4>1
    <3>3. CASE Len(read) = 1
      <4>1. stage' = "headers" /\ Len(read') \in 1 .. 2
        BY <1>2, <3>1, <3>2, <3>3
      <4> QED
        BY <1>6, <3>1, <4>1 DEF ReadInv
    <3>4. CASE Len(read) = 2 /\ HasBody(Current)
      <4>1. stage' = "content" /\ Len(read') \in 3 .. 2 + BodyLen
        BY <1>2, <3>1, <3>2, <3>4, HttpAssumption
      <4>2. HasBody(Current)'
        BY <1>6, <3>1, <3>4
      <4> QED
        BY <1>6, <3>1, <4>1, <4>2 DEF ReadInv
    <3>5. CASE Len(read) = 2 /\ ~HasBody(Current)
      <4>1. stage' = "dispatch" /\ Len(read') = 3
        BY <1>2, <3>1, <3>2, <3>5
      <4>2. PartCount(asked[Current]) = 3
        BY <3>5 DEF HasBody, PartCount
      <4>3. Len(read') = PartCount(asked[Current])'
        BY <1>6, <3>1, <4>1, <4>2
      <4> QED
        BY <1>6, <3>1, <4>1, <4>3 DEF ReadInv
    <3> QED
      BY <3>1, <3>3, <3>4, <3>5
  <2>5. CASE ReadContent
    <3>1. /\ stage = "content" /\ Len(read) \in 3 .. 2 + BodyLen /\ HasBody(Current)
          /\ stage' = IF r + 1 = BodyLen THEN "dispatch" ELSE "content"
      BY <2>5 DEF ReadContent, HttpInv, ReadInv
    <3>2. r = Len(read) - 3
      BY DEF r
    <3>3. CASE r + 1 = BodyLen
      <4>1. stage' = "dispatch" /\ Len(read') = 3 + BodyLen
        BY <1>2, <3>1, <3>2, <3>3, HttpAssumption
      <4>2. PartCount(asked[Current]) = 3 + BodyLen
        BY <3>1 DEF HasBody, PartCount
      <4>3. Len(read') = PartCount(asked[Current])'
        BY <1>6, <3>1, <4>1, <4>2
      <4> QED
        BY <1>6, <3>1, <4>1, <4>3 DEF ReadInv
    <3>4. CASE r + 1 # BodyLen
      <4>1. stage' = "content" /\ Len(read') \in 3 .. 2 + BodyLen
        BY <1>2, <3>1, <3>2, <3>4, HttpAssumption
      <4>2. HasBody(Current)'
        BY <1>6, <3>1
      <4> QED
        BY <1>6, <3>1, <4>1, <4>2 DEF ReadInv
    <3> QED
      BY <3>3, <3>4
  <2> QED
    BY <2>1, <2>2, <2>3, <2>4, <2>5
<1>8. HandlerInv'
  BY <1>1 DEF HttpInv, HandlerInv
<1>9. ASSUME Whole PROVE Whole'
  <2>1. ASSUME stage = "line"
        PROVE  read = << >> /\ Head(buff).kind = "line"
    <3>1. read = << >> /\ Len(asked) \in Nat /\ Len(asked) >= 1 /\ Len(read) = 0
      BY <1>9, <2>1 DEF Whole, HttpInv, ConnTypeOK
    <3>2. asked[Len(asked)] \in Requests
      BY <3>1, ElementOfSeq DEF HttpInv, ConnTypeOK
    <3>3. Stream[1].kind = "line"
      BY <1>9, <3>1, <3>2, PartsAre DEF Whole
    <3> QED
      BY <1>3, <3>1, <3>3
  <2>2. ~LineContinues /\ ~LineMalformed
    BY <2>1 DEF LineContinues, LineMalformed
  <2>3. stage' \notin {"line", "respond"}
    BY <2>2 DEF LineParsed, ReadHeader, ReadContent
  <2> QED
    BY <1>1, <1>2, <1>9, <2>3 DEF Whole
<1>10. StreamInv' /\ HandledBefore' /\ HandledInOrder' /\ Sync' /\ AnswersMatch'
  <2>1. stage # "closed" /\ stage \notin {"handler", "respond"} /\ (late => late')
    BY <1>1
  <2> QED
    BY <1>1, <1>2, <1>9, <2>1, Quiet
<1> QED
  BY <1>5, <1>7, <1>8, <1>10 DEF HttpInv

\* A handler is called: for the request at the head of the stream, the first of those
\* that are not behind the last one handled.
LEMMA Dispatched_HandledInv ==
  ASSUME HttpInv, stage = "dispatch", stage' \in {"handler", "respond"},
         handled' = Append(handled, Current), UNCHANGED <<asked, read, buff, wire, toSend>>
  PROVE  HandledBefore' /\ HandledInOrder' /\ handled' \in Seq(1 .. Len(asked))
<1> DEFINE k == Current
           l == Len(handled)
<1>1. /\ read # << >> /\ read[1].kind = "line" /\ Len(read) >= 1
  <2>1. Len(read) = PartCount(asked[Current]) /\ read[1].kind = "line" /\ Len(<< >>) = 0
    BY DEF HttpInv, ReadInv
  <2>2. PartCount(asked[Current]) >= 3
    BY HttpAssumption DEF PartCount
  <2> QED
    BY <2>1, <2>2
<1>2. /\ Len(Stream) \in Nat /\ 1 \in 1 .. Len(Stream) /\ Stream[1] = read[1]
      /\ Stream[1].of = k /\ Stream[1].kind = "line"
      /\ k \in 1 .. Len(asked)
  BY <1>1, ReadIs DEF HttpInv, Current
<1>3. l \in Nat /\ handled \in Seq(1 .. Len(asked)) /\ DOMAIN handled = 1 .. l
  BY DEF HttpInv, ConnTypeOK
<1>4. /\ handled' \in Seq(1 .. Len(asked)) /\ Len(handled') = l + 1 /\ DOMAIN handled' = 1 .. l + 1
      /\ \A i \in 1 .. l : handled'[i] = handled[i]
      /\ handled'[l + 1] = k
  <2>1. /\ handled' \in Seq(1 .. Len(asked)) /\ Len(handled') = l + 1
        /\ \A i \in 1 .. l : handled'[i] = handled[i]
        /\ handled'[l + 1] = k
    BY <1>2, <1>3, AppendProperties
  <2> QED
    BY <2>1, LenProperties
<1>5. Stream' = Stream
  BY DEF Stream
<1>6. \A i \in 1 .. l : handled[i] \in Nat
  BY <1>3, ElementOfSeq
<1>7. \A i \in 1 .. Len(Stream) : Stream[i].of \in Nat /\ Stream[i].of \in 1 .. Len(asked)
  BY DEF HttpInv, StreamInv, Known
<1> HIDE DEF k, l
<1>8. ASSUME NEW j \in 1 .. l, NEW i \in 1 .. Len(Stream), Stream[i].kind = "line"
      PROVE  handled[j] < Stream[i].of
  BY <1>8 DEF HttpInv, HandledBefore, l
<1>9. HandledInOrder'
  <2>1. ASSUME NEW i \in 1 .. l + 1, NEW j \in 1 .. l + 1, i < j
        PROVE  handled'[i] < handled'[j]
    <3>1. CASE j \in 1 .. l
      <4>1. i \in 1 .. l
        BY <1>3, <2>1, <3>1
      <4> QED
        BY <1>3, <1>4, <2>1, <3>1, <4>1 DEF HttpInv, HandledInOrder
    <3>2. CASE j = l + 1
      <4>1. i \in 1 .. l
        BY <1>3, <2>1, <3>2
      <4>2. handled[i] < k
        BY <1>2, <1>8, <4>1
      <4> QED
        BY <1>4, <3>2, <4>1, <4>2
    <3> QED
      BY <1>3, <3>1, <3>2
  <2> QED
    BY <1>4, <2>1 DEF HandledInOrder
<1>10. HandledBefore'
  <2>1. ASSUME NEW i \in 1 .. Len(Stream), NEW j \in 1 .. l + 1, Stream[i].kind = "line"
        PROVE  handled'[j] < Stream[i].of \/ (handled'[j] = Stream[i].of /\ i = 1)
    <3>1. CASE j \in 1 .. l
      BY <1>4, <1>8, <2>1, <3>1
    <3>2. CASE j = l + 1 /\ i = 1
      BY <1>2, <1>4, <3>2
    <3>3. CASE j = l + 1 /\ i # 1
      <4>1. 1 < i
        BY <3>3
      <4>2. Stream[1].of < Stream[i].of
        BY <1>2, <2>1, <4>1 DEF HttpInv, StreamInv, InTurn
      <4> QED
        BY <1>2, <1>4, <3>3, <4>2
    <3> QED
      BY <1>3, <3>1, <3>2, <3>3
  <2> QED
    BY <1>4, <1>5, <2>1 DEF HandledBefore
<1> QED
  BY <1>4, <1>9, <1>10

LEMMA Calls_HttpInv ==
  ASSUME HttpInv, CallPlain \/ CallSendTextMsgEx \/ CallGetLoginQRCode
  PROVE  HttpInv'
<1>1. /\ stage = "dispatch" /\ handled' = Append(handled, Current)
      /\ UNCHANGED <<count, asked, toSend, client, answers, wire, buff, read, late>>
  BY DEF CallPlain, CallSendTextMsgEx, CallGetLoginQRCode, Dispatched, clientVars, stream
<1>2. textPc = "idle" /\ encPc = "idle"
  BY <1>1 DEF HttpInv, HandlerInv
<1>3. \/ /\ stage' = "respond" /\ status' = 200 /\ UNCHANGED <<textPc, encPc>>
         /\ Path \in {"syncMsg", "getLoginQRCode"}
      \/ /\ stage' = "handler" /\ UNCHANGED status
         /\ \/ Path = "sendTextMsgEx" /\ UNCHANGED encPc
            \/ Path = "getLoginQRCode" /\ UNCHANGED textPc
  <2>1. CASE CallPlain
    BY <2>1 DEF CallPlain, Dispatched, Respond, handlers, textVars, encVars
  <2>2. CASE CallSendTextMsgEx
    BY <2>2 DEF CallSendTextMsgEx, Dispatched, encVars
  <2>3. CASE CallGetLoginQRCode
    BY <2>3 DEF CallGetLoginQRCode, Dispatched, Respond, handlers, textVars, encVars
  <2> QED
    BY <2>1, <2>2, <2>3
<1>4. Stream' = Stream /\ Current' = Current /\ Path' = Path
  BY <1>1 DEF Stream, Current, Path
<1>5. HandledBefore' /\ HandledInOrder' /\ handled' \in Seq(1 .. Len(asked))
  BY <1>1, <1>3, Dispatched_HandledInv
<1>6. ConnTypeOK'
  BY <1>1, <1>3, <1>5 DEF HttpInv, ConnTypeOK, Stages
<1>7. StreamInv'
  BY <1>1, <1>4 DEF HttpInv, StreamInv, Known, Runs, InTurn
<1>8. ReadInv'
  <2>1. Len(read) = PartCount(asked[Current]) /\ read[1].kind = "line" /\ Len(<< >>) = 0
    BY <1>1 DEF HttpInv, ReadInv
  <2>2. PartCount(asked[Current]) >= 3
    BY HttpAssumption DEF PartCount
  <2>3. read # << >>
    BY <2>1, <2>2
  <2>4. PartCount(asked[Current])' = PartCount(asked[Current])
    BY <1>1, <1>4 DEF PartCount
  <2> QED
    BY <1>1, <1>3, <1>4, <2>1, <2>3, <2>4 DEF ReadInv
<1>9. HandlerInv'
  BY <1>2, <1>3, <1>4 DEF HandlerInv
<1>10. Sync'
  <2>1. ASSUME Whole PROVE Whole'
    <3>1. read = Stream
      BY <1>1, <2>1, WholeRead
    <3>2. ASSUME stage' = "respond" PROVE status' \in Told(Path)'
      BY <1>3, <1>4, <3>2 DEF Told
    <3> QED
      BY <1>1, <1>3, <1>4, <2>1, <3>1, <3>2 DEF Whole
  <2> QED
    BY <1>1, <1>4, <2>1 DEF HttpInv, Sync
<1>11. AnswersMatch'
  BY <1>1 DEF HttpInv, AnswersMatch
<1> QED
  BY <1>5, <1>6, <1>7, <1>8, <1>9, <1>10, <1>11 DEF HttpInv

LEMMA RunHandler_HttpInv ==
  ASSUME HttpInv, RunHandler
  PROVE  HttpInv'
<1>1. /\ stage = "handler" /\ Path \in {"sendTextMsgEx", "getLoginQRCode"}
      /\ UNCHANGED <<count, asked, toSend, client, answers, wire, buff, read, handled, late>>
  BY DEF RunHandler, clientVars, stream, history, HttpInv, HandlerInv
<1>2. TextStep => textPc # "idle"
  BY DEF TextStep, ParseThrows, Parse, PartThrows, TextPart, AtUser, PushBack, Grow, DropAtUser,
         AssignSendMsg, Send, Unwind, AtWork
<1>3. EncStep => encPc # "idle"
  BY DEF EncStep, Turn, LoopEnds, Tail64
<1>4. \/ /\ UNCHANGED <<stage, status>>
         /\ (textPc # "idle" /\ UNCHANGED encPc) \/ (encPc # "idle" /\ UNCHANGED textPc)
      \/ /\ stage' = "respond" /\ textPc' = "idle" /\ encPc' = "idle"
         /\ \/ Path = "sendTextMsgEx" /\ status' \in {200, 500}
            \/ Path = "getLoginQRCode" /\ status' = 200
  <2>1. CASE TextStep /\ UNCHANGED <<stage, status, encVars>>
    BY <1>2, <2>1 DEF encVars
  <2>2. CASE EncStep /\ UNCHANGED <<stage, status, textVars>>
    BY <1>3, <2>2 DEF textVars
  <2>3. CASE TextReset /\ Respond(IF textPc = "done" THEN 200 ELSE 500) /\ UNCHANGED encVars
    <3>1. Path = "sendTextMsgEx" /\ encPc = "idle"
      BY <2>3 DEF TextReset, TextReturned, HttpInv, HandlerInv
    <3> QED
      BY <2>3, <3>1 DEF TextReset, Respond, encVars
  <2>4. CASE EncReset /\ Respond(200) /\ UNCHANGED textVars
    <3>1. Path = "getLoginQRCode" /\ textPc = "idle"
      BY <2>4 DEF EncReset, HttpInv, HandlerInv
    <3> QED
      BY <2>4, <3>1 DEF EncReset, Respond, textVars
  <2> QED
    BY <2>1, <2>2, <2>3, <2>4 DEF RunHandler
<1>5. Stream' = Stream /\ Current' = Current /\ Path' = Path
  BY <1>1 DEF Stream, Current, Path
<1>6. ConnTypeOK'
  <2>1. stage' \in Stages /\ status' \in {0, 200, 400, 404, 500}
    BY <1>1, <1>4 DEF HttpInv, ConnTypeOK, Stages
  <2> QED
    BY <1>1, <2>1 DEF HttpInv, ConnTypeOK
<1>7. ReadInv'
  <2>1. Len(read) = PartCount(asked[Current]) /\ read[1].kind = "line" /\ Len(<< >>) = 0
    BY <1>1 DEF HttpInv, ReadInv
  <2>2. PartCount(asked[Current]) >= 3
    BY HttpAssumption DEF PartCount
  <2>3. read # << >>
    BY <2>1, <2>2
  <2>4. PartCount(asked[Current])' = PartCount(asked[Current])
    BY <1>1, <1>5 DEF PartCount
  <2> QED
    BY <1>1, <1>4, <1>5, <2>1, <2>3, <2>4 DEF ReadInv
<1>8. HandlerInv'
  <2>1. CASE stage' = stage
    <3>1. (textPc' # "idle" => textPc # "idle") /\ (encPc' # "idle" => encPc # "idle")
      BY <1>1, <1>4, <2>1
    <3> QED
      BY <1>1, <1>5, <2>1, <3>1 DEF HttpInv, HandlerInv
  <2>2. CASE stage' = "respond"
    BY <1>1, <1>4, <2>2 DEF HandlerInv
  <2> QED
    BY <1>4, <2>1, <2>2
<1>9. ASSUME Whole PROVE Whole'
  <2>1. read = Stream
    BY <1>1, <1>9, WholeRead
  <2>2. ASSUME stage' = "respond" PROVE status' \in Told(Path)'
    BY <1>1, <1>4, <1>5, <2>2 DEF Told
  <2> QED
    BY <1>1, <1>4, <1>5, <1>9, <2>1, <2>2 DEF Whole
<1>10. StreamInv' /\ HandledBefore' /\ HandledInOrder' /\ Sync' /\ AnswersMatch'
  <2>1. stage # "closed" /\ stage' \in {"handler", "respond"} /\ (late => late')
    BY <1>1, <1>4
  <2> QED
    BY <1>1, <1>5, <1>9, <2>1, Quiet
<1> QED
  BY <1>6, <1>7, <1>8, <1>10 DEF HttpInv

LEMMA Ask_HttpInv ==
  ASSUME HttpInv, NEW q \in Requests, Ask(q)
  PROVE  HttpInv'
<1> DEFINE m == Len(asked) + 1
<1>1. /\ UNCHANGED <<stage, count, client, answers, wire, buff, read, status, handled, late>>
      /\ UNCHANGED <<textPc, encPc>>
      /\ stage # "closed" /\ client = "here" /\ Len(answers) >= Len(asked)
  BY DEF Ask, stream, requestVars, history, handlers, textVars, encVars
<1>2. /\ Flows' /\ Stream' = Stream \o Parts(q, m) /\ StreamInv'
      /\ asked' = Append(asked, q) /\ asked' \in Seq(Requests)
  BY AskStream DEF HttpInv
<1>3. /\ Len(asked) \in Nat /\ m \in Nat /\ Len(asked') = m /\ asked'[m] = q
      /\ \A i \in 1 .. Len(asked) : asked'[i] = asked[i]
  BY <1>2 DEF HttpInv, ConnTypeOK
<1>4. /\ Parts(q, m) \in Seq(APart) /\ Len(Parts(q, m)) \in Nat
      /\ \A i \in 1 .. Len(Parts(q, m)) : Parts(q, m)[i].of = m
  BY <1>3, PartsAre
<1>5. Stream \in Seq(APart) /\ Len(Stream) \in Nat
  BY ReadIs DEF HttpInv
<1> HIDE DEF m
<1>6. /\ Len(Stream') = Len(Stream) + Len(Parts(q, m))
      /\ \A i \in 1 .. Len(Stream) : Stream'[i] = Stream[i]
      /\ \A i \in 1 .. Len(Stream') : i \in 1 .. Len(Stream) \/ Stream'[i].of = m
  <2>1. /\ Len(Stream') = Len(Stream) + Len(Parts(q, m))
        /\ \A i \in 1 .. Len(Stream) + Len(Parts(q, m)) :
             Stream'[i] = IF i <= Len(Stream) THEN Stream[i] ELSE Parts(q, m)[i - Len(Stream)]
    BY <1>2, <1>4, <1>5, ConcatProperties
  <2>2. \A i \in 1 .. Len(Stream') : i \in 1 .. Len(Stream) \/ i - Len(Stream) \in 1 .. Len(Parts(q, m))
    BY <1>4, <1>5, <2>1
  <2> QED
    BY <1>4, <1>5, <2>1, <2>2
<1>7. read # << >> => Current \in 1 .. Len(asked) /\ Current' = Current /\ asked'[Current] = asked[Current]
  <2>1. read # << >> => Current \in 1 .. Len(asked)
    BY ReadIs DEF HttpInv
  <2>2. Current' = Current
    BY <1>1 DEF Current
  <2> QED
    BY <1>3, <2>1, <2>2
<1>8. ConnTypeOK'
  <2>1. Len(asked) <= Len(asked')
    BY <1>3 DEF m
  <2>2. answers' \in Seq([of : 0 .. Len(asked'), status : {200, 400, 404, 500}])
    <3> DEFINE before == [of : 0 .. Len(asked), status : {200, 400, 404, 500}]
               after == [of : 0 .. Len(asked'), status : {200, 400, 404, 500}]
    <3>1. before \subseteq after
      BY <1>3, <2>1
    <3>2. answers \in Seq(before)
      BY DEF HttpInv, ConnTypeOK
    <3> HIDE DEF before, after
    <3>3. answers \in Seq(after)
      BY <3>1, <3>2, SeqMonotonic
    <3> QED
      BY <1>1, <3>3 DEF after
  <2>3. handled' \in Seq(1 .. Len(asked'))
    <3>1. 1 .. Len(asked) \subseteq 1 .. Len(asked')
      BY <1>3, <2>1
    <3> QED
      BY <1>1, <3>1, SeqMonotonic DEF HttpInv, ConnTypeOK
  <2> QED
    BY <1>1, <1>2, <2>2, <2>3 DEF HttpInv, ConnTypeOK, Flows
<1>9. stage \in {"headers", "content", "dispatch", "handler", "respond"} => read # << >>
  <2>1. PartCount(asked[Current]) >= 3
    BY HttpAssumption DEF PartCount
  <2>2. stage \in {"headers", "content", "dispatch", "handler"} => Len(read) >= 1
    BY <2>1 DEF HttpInv, ReadInv
  <2>3. Len(<< >>) = 0
    OBVIOUS
  <2> QED
    BY <2>2, <2>3 DEF HttpInv, ReadInv
<1>10. ReadInv'
  <2>1. read # << >> => HasBody(Current)' = HasBody(Current) /\ PartCount(asked[Current])' = PartCount(asked[Current])
    BY <1>7 DEF HasBody, PartCount
  <2> QED
    BY <1>1, <1>9, <2>1 DEF HttpInv, ReadInv
<1>11. HandlerInv'
  <2>1. read # << >> => Path' = Path
    BY <1>7 DEF Path
  <2> QED
    BY <1>1, <1>9, <2>1 DEF HttpInv, HandlerInv
<1>12. HandledBefore'
  <2>1. \A k \in 1 .. Len(handled) : handled[k] \in 1 .. Len(asked) /\ handled[k] < m
    <3>1. \A k \in 1 .. Len(handled) : handled[k] \in 1 .. Len(asked)
      BY ElementOfSeq DEF HttpInv, ConnTypeOK
    <3> QED
      BY <1>3, <3>1 DEF m
  <2>2. ASSUME NEW i \in 1 .. Len(Stream'), NEW k \in 1 .. Len(handled), Stream'[i].kind = "line"
        PROVE  \/ handled[k] < Stream'[i].of
               \/ handled[k] = Stream'[i].of /\ i = 1 /\ stage \in {"handler", "respond"}
    <3>1. CASE i \in 1 .. Len(Stream)
      BY <1>6, <2>2, <3>1 DEF HttpInv, HandledBefore
    <3>2. CASE Stream'[i].of = m
      BY <2>1, <3>2
    <3> QED
      BY <1>6, <3>1, <3>2
  <2> QED
    BY <1>1, <2>2 DEF HandledBefore
<1>13. HandledInOrder'
  BY <1>1 DEF HttpInv, HandledInOrder
<1>14. Sync'
  <2> SUFFICES ASSUME ~late PROVE Whole'
    BY <1>1 DEF Sync
  <2>1. Len(answers) = Len(asked) /\ Stream = << >>
    <3>1. Len(asked) \in Nat /\ Len(answers) \in Nat
      BY DEF HttpInv, ConnTypeOK
    <3> QED
      BY <1>1, <3>1 DEF HttpInv, Sync, Whole
  <2>2. Stream' = Parts(q, m)
    BY <1>2, <1>4, <2>1, ConcatEmptySeq
  <2>3. read = << >>
    <3>1. Len(read) \in Nat /\ Len(read) <= Len(Stream) /\ Len(Stream) = 0
      BY <2>1, ReadIs DEF HttpInv
    <3>2. Len(read) = 0
      BY <3>1
    <3> QED
      BY <3>2 DEF HttpInv, ConnTypeOK
  <2>4. stage # "respond"
    BY <1>9, <2>3
  <2> QED
    BY <1>1, <1>3, <2>1, <2>2, <2>3, <2>4 DEF Whole, m
<1>15. AnswersMatch'
  <2>1. ASSUME ~late, NEW i \in DOMAIN answers PROVE i \in 1 .. Len(asked)
    <3>1. Len(answers) <= Len(asked) /\ Len(asked) \in Nat /\ Len(answers) \in Nat
      BY <1>1, <2>1 DEF HttpInv, Sync, Whole, ConnTypeOK
    <3> QED
      BY <2>1, <3>1 DEF HttpInv, ConnTypeOK
  <2>2. ASSUME ~late, NEW i \in DOMAIN answers PROVE asked'[i] = asked[i]
    BY <1>3, <2>1, <2>2
  <2> QED
    BY <1>1, <2>2 DEF HttpInv, AnswersMatch
<1> QED
  BY <1>2, <1>8, <1>10, <1>11, <1>12, <1>13, <1>14, <1>15 DEF HttpInv

LEMMA GoAway_HttpInv ==
  ASSUME HttpInv, GoAway
  PROVE  HttpInv'
<1>1. /\ UNCHANGED <<stage, count, asked, answers, wire, buff, read, status, handled, late>>
      /\ UNCHANGED <<textPc, encPc>>
      /\ client' = "gone"
  BY DEF GoAway, stream, requestVars, history, handlers, textVars, encVars
<1>2. /\ Flows' /\ StreamInv'
      /\ Len(Stream') \in Nat /\ Len(Stream') <= Len(Stream)
      /\ \A i \in 1 .. Len(Stream') : Stream'[i] = Stream[i]
  BY GoAwayStream DEF HttpInv
<1>3. ConnTypeOK'
  BY <1>1, <1>2 DEF HttpInv, ConnTypeOK, Flows
<1>4. Current' = Current /\ Path' = Path
  BY <1>1 DEF Current, Path
<1>5. ReadInv'
  BY <1>1, <1>4 DEF HttpInv, ReadInv, HasBody, PartCount
<1>6. HandlerInv'
  BY <1>1, <1>4 DEF HttpInv, HandlerInv
<1>7. HandledBefore'
  <2>1. \A i \in 1 .. Len(Stream') : i \in 1 .. Len(Stream)
    BY <1>2, ReadIs DEF HttpInv
  <2> QED
    BY <1>1, <1>2, <2>1 DEF HttpInv, HandledBefore
<1>8. HandledInOrder' /\ Sync' /\ AnswersMatch'
  BY <1>1 DEF HttpInv, HandledInOrder, Sync, AnswersMatch
<1> QED
  BY <1>2, <1>3, <1>5, <1>6, <1>7, <1>8 DEF HttpInv

LEMMA WriteResponse_HttpInv ==
  ASSUME HttpInv, WriteResponse
  PROVE  HttpInv'
<1> DEFINE answer == [of |-> IF read[1].kind = "line" THEN Current ELSE 0, status |-> status]
<1>1. /\ stage = "respond" /\ read' = << >> /\ buff' = << >> /\ status' = 0
      /\ UNCHANGED <<asked, toSend, client, wire, handled, late>>
      /\ UNCHANGED <<textPc, encPc>>
      /\ answers' = IF client = "here" THEN Append(answers, answer) ELSE answers
  BY DEF WriteResponse, history, handlers, textVars, encVars
<1>2. \/ stage' = "closed" /\ count' = 0
      \/ stage' = "keepAlive" /\ count # 1 /\ count' = count - 1
  BY DEF WriteResponse, CloseSocket, NextTurn
<1>3. /\ Flows' /\ StreamInv' /\ Len(Stream') \in Nat
      /\ \E d \in Nat \ {0} : /\ d >= Len(read) /\ Len(Stream) = d + Len(Stream')
                              /\ \A i \in 1 .. Len(Stream') : Stream'[i] = Stream[d + i]
  BY WriteStream DEF HttpInv
<1>4. PICK d \in Nat \ {0} : /\ d >= Len(read) /\ Len(Stream) = d + Len(Stream')
                             /\ \A i \in 1 .. Len(Stream') : Stream'[i] = Stream[d + i]
  BY <1>3
<1>5. /\ read # << >> /\ Len(read) >= 1 /\ Len(Stream) \in Nat /\ Len(read) \in Nat
      /\ Current \in 1 .. Len(asked) /\ asked[Current] \in Requests
      /\ Stream \in Seq(APart)
  BY <1>1, ReadIs DEF HttpInv, ReadInv
<1>6. Len(asked) \in Nat /\ Len(answers) \in Nat
  BY DEF HttpInv, ConnTypeOK
<1>7. answer \in [of : 0 .. Len(asked), status : {200, 400, 404, 500}]
  <2>1. status \in {200, 400, 404, 500}
    BY <1>1 DEF HttpInv, ConnTypeOK, ReadInv
  <2>2. Current \in 0 .. Len(asked)
    BY <1>5, <1>6
  <2> QED
    BY <2>1, <2>2
<1>8. answers \in Seq([of : 0 .. Len(asked), status : {200, 400, 404, 500}])
  BY DEF HttpInv, ConnTypeOK
<1>9. ConnTypeOK'
  <2>1. answers' \in Seq([of : 0 .. Len(asked), status : {200, 400, 404, 500}])
    <3> DEFINE Answered == [of : 0 .. Len(asked), status : {200, 400, 404, 500}]
    <3>1. answer \in Answered /\ answers \in Seq(Answered)
      BY <1>7, <1>8
    <3> HIDE DEF answer, Answered
    <3>2. Append(answers, answer) \in Seq(Answered)
      BY <3>1, AppendProperties
    <3>3. answers' = answers \/ answers' = Append(answers, answer)
      BY <1>1
    <3>4. answers' \in Seq(Answered)
      BY <3>1, <3>2, <3>3
    <3> QED
      BY <3>4 DEF Answered
  <2>2. count' \in 0 .. KeepAliveMax /\ (stage' # "closed" => count' >= 1) /\ stage' \in Stages
    BY <1>1, <1>2, HttpAssumption DEF HttpInv, ConnTypeOK, Stages
  <2>3. asked' = asked /\ handled' = handled /\ late' \in BOOLEAN /\ client' \in {"here", "gone"}
        /\ status' \in {0, 200, 400, 404, 500}
    BY <1>1 DEF HttpInv, ConnTypeOK
  <2> QED
    BY <1>3, <2>1, <2>2, <2>3 DEF HttpInv, ConnTypeOK, Flows
<1>10. ReadInv' /\ HandlerInv'
  <2>1. ReadInv'
    BY <1>1, <1>2 DEF ReadInv
  <2>2. HandlerInv'
    BY <1>1, <1>2 DEF HttpInv, HandlerInv
  <2> QED
    BY <2>1, <2>2
<1>11. HandledBefore'
  <2>1. ASSUME NEW i \in 1 .. Len(Stream'), NEW k \in 1 .. Len(handled), Stream'[i].kind = "line"
        PROVE  handled[k] < Stream'[i].of
    <3>1. d + i \in 1 .. Len(Stream) /\ d + i # 1 /\ Stream'[i] = Stream[d + i]
      BY <1>3, <1>4
    <3> QED
      BY <2>1, <3>1 DEF HttpInv, HandledBefore
  <2> QED
    BY <1>1, <2>1 DEF HandledBefore
<1>12. HandledInOrder'
  BY <1>1 DEF HttpInv, HandledInOrder
<1>13. ASSUME ~late, client = "here"
       PROVE  /\ Len(asked) = Len(answers) + 1 /\ answer.of = Len(asked)
              /\ status \in Told(asked[Len(asked)].path)
              /\ Stream' = << >>
  <2>1. Whole
    <3>1. Stream # << >>
      BY <1>3, <1>4
    <3> QED
      BY <1>1, <1>13, <3>1 DEF HttpInv, Sync
  <2>2. /\ Len(asked) = Len(answers) + 1 /\ read = Stream /\ status \in Told(Path)
        /\ Stream = Parts(asked[Len(asked)], Len(asked))
    BY <1>1, <2>1 DEF Whole
  <2>3. asked[Len(asked)] \in Requests
    BY <1>6, <2>2, ElementOfSeq DEF HttpInv, ConnTypeOK
  <2>4. Stream[1].of = Len(asked) /\ Stream[1].kind = "line"
    BY <1>6, <2>2, <2>3, PartsAre
  <2>5. Current = Len(asked) /\ read[1].kind = "line"
    BY <2>2, <2>4 DEF Current
  <2>6. Len(Stream') = 0
    BY <1>3, <1>4, <1>5, <2>2
  <2>7. Stream' \in Seq(APart)
    BY <1>3, FourParts DEF Flows, Stream
  <2> QED
    BY <2>2, <2>5, <2>6, <2>7 DEF Path
<1>14. Sync'
  <2> SUFFICES ASSUME ~late, client = "here"
               PROVE  Len(answers') = Len(asked) /\ Stream' = << >>
    BY <1>1 DEF Sync
  <2>1. answers' = Append(answers, answer)
    BY <1>1
  <2> HIDE DEF answer
  <2>2. Len(answers') = Len(answers) + 1
    BY <1>7, <1>8, <2>1, AppendProperties
  <2> QED
    BY <1>13, <2>2
<1>15. AnswersMatch'
  <2> SUFFICES ASSUME ~late, NEW k \in DOMAIN answers'
               PROVE  answers'[k].of = k /\ answers'[k].status \in Told(asked[k].path)
    BY <1>1 DEF AnswersMatch, Told
  <2>1. ASSUME NEW j \in DOMAIN answers
        PROVE  answers[j].of = j /\ answers[j].status \in Told(asked[j].path)
    BY DEF HttpInv, AnswersMatch, Told
  <2>2. CASE client = "here"
    <3>1. answers' = Append(answers, answer) /\ answer.status = status
      BY <1>1, <2>2
    <3>2. /\ Len(asked) = Len(answers) + 1 /\ answer.of = Len(asked)
          /\ status \in Told(asked[Len(asked)].path)
      BY <1>13, <2>2
    <3> HIDE DEF answer
    <3>3. /\ DOMAIN answers' = 1 .. Len(answers) + 1
          /\ \A i \in 1 .. Len(answers) : answers'[i] = answers[i]
          /\ answers'[Len(answers) + 1] = answer
          /\ DOMAIN answers = 1 .. Len(answers)
      BY <1>7, <1>8, <3>1, AppendProperties, LenProperties
    <3>4. CASE k \in 1 .. Len(answers)
      BY <2>1, <3>3, <3>4
    <3>5. CASE k = Len(answers) + 1
      BY <3>1, <3>2, <3>3, <3>5
    <3> QED
      BY <1>6, <3>3, <3>4, <3>5
  <2>3. CASE client # "here"
    BY <1>1, <2>1, <2>3
  <2> QED
    BY <2>2, <2>3
<1> QED
  BY <1>3, <1>9, <1>10, <1>11, <1>12, <1>14, <1>15 DEF HttpInv

LEMMA HttpInit_HttpInv ==
  Init => HttpInv
<1> SUFFICES ASSUME Init PROVE HttpInv
  OBVIOUS
<1>1. /\ stage = "new" /\ count = KeepAliveMax /\ asked = << >> /\ toSend = << >> /\ client = "here"
      /\ wire = << >> /\ buff = << >> /\ read = << >> /\ status = 0 /\ answers = << >>
      /\ handled = << >> /\ late = FALSE /\ textPc = "idle" /\ encPc = "idle"
  BY DEF Init, TextInit, EncInit
<1>2. Stream = << >> /\ Len(Stream) = 0
  BY <1>1, ConcatEmptySeq, EmptySeq DEF Stream
<1>3. ConnTypeOK
  <2>1. /\ stage \in Stages /\ client \in {"here", "gone"} /\ status \in {0, 200, 400, 404, 500}
        /\ late \in BOOLEAN
    BY <1>1, Zenon DEF Stages
  <2>3. count \in 0 .. KeepAliveMax /\ count >= 1
    BY <1>1, HttpAssumption
  <2>2. /\ asked \in Seq(Requests)
        /\ toSend \in Seq(APart) /\ wire \in Seq(APart) /\ buff \in Seq(APart) /\ read \in Seq(APart)
        /\ answers \in Seq([of : 0 .. Len(asked), status : {200, 400, 404, 500}])
        /\ handled \in Seq(1 .. Len(asked))
    BY <1>1, EmptySeq
  <2> QED
    BY <2>1, <2>2, <2>3 DEF ConnTypeOK
<1>4. StreamInv
  BY <1>2 DEF StreamInv, Known, Runs, InTurn
<1>5. ReadInv /\ HandlerInv
  BY <1>1 DEF ReadInv, HandlerInv
<1>6. HandledBefore /\ HandledInOrder /\ Sync /\ AnswersMatch
  BY <1>1, <1>2 DEF HandledBefore, HandledInOrder, Sync, AnswersMatch
<1> QED
  BY <1>3, <1>4, <1>5, <1>6 DEF HttpInv

LEMMA HttpNext_HttpInv ==
  HttpInv /\ [Next]_vars => HttpInv'
<1> SUFFICES ASSUME HttpInv, [Next]_vars PROVE HttpInv'
  OBVIOUS
<1>1. ASSUME NEW q \in Requests, Ask(q) PROVE HttpInv'
  BY <1>1, Ask_HttpInv
<1>2. CASE SendPart \/ Receive
  BY <1>2, Moves_HttpInv
<1>3. CASE GoAway
  BY <1>3, GoAway_HttpInv
<1>4. CASE \/ Accept \/ TakeJob \/ KeepAlive \/ KeepAliveTimesOut
           \/ LineMissing \/ HeadersMissing \/ ContentMissing \/ NotFound
  BY <1>4, Rests_HttpInv
<1>5. CASE LineContinues \/ LineParsed \/ LineMalformed \/ ReadHeader \/ ReadContent
  BY <1>5, Uses_HttpInv
<1>6. CASE CallPlain \/ CallSendTextMsgEx \/ CallGetLoginQRCode
  BY <1>6, Calls_HttpInv
<1>7. CASE RunHandler
  BY <1>7, RunHandler_HttpInv
<1>8. CASE WriteResponse
  BY <1>8, WriteResponse_HttpInv
<1>9. CASE UNCHANGED vars
  <2>1. /\ UNCHANGED <<stage, count, asked, toSend, client, answers, wire, buff, read, status>>
        /\ UNCHANGED <<handled, late, textPc, encPc>>
    BY <1>9 DEF vars, clientVars, stream, requestVars, history, handlers, textVars, encVars
  <2>2. Stream' = Stream /\ Current' = Current /\ Path' = Path /\ HasBody(Current)' = HasBody(Current)
    BY <2>1 DEF Stream, Current, Path, HasBody
  <2>3. ConnTypeOK'
    BY <2>1 DEF HttpInv, ConnTypeOK
  <2>7. StreamInv'
    BY <2>1, <2>2 DEF HttpInv, StreamInv, Known, Runs, InTurn
  <2>4. ReadInv' /\ HandlerInv'
    BY <2>1, <2>2 DEF HttpInv, ReadInv, HandlerInv, PartCount
  <2>5. HandledBefore' /\ HandledInOrder' /\ AnswersMatch'
    BY <2>1, <2>2 DEF HttpInv, HandledBefore, HandledInOrder, AnswersMatch
  <2>6. Sync'
    BY <2>1, <2>2 DEF HttpInv, Sync, Whole
  <2> QED
    BY <2>3, <2>4, <2>5, <2>6, <2>7 DEF HttpInv
<1> QED
  BY <1>1, <1>2, <1>3, <1>4, <1>5, <1>6, <1>7, <1>8, <1>9 DEF Next, Client, Server, ReadRequest

LEMMA HttpInvHolds ==
  Spec => []HttpInv
  BY HttpInit_HttpInv, HttpNext_HttpInv, PTL DEF Spec

\* The connection, sendTextMsgEx and base64_encode keep their types, and the answers
\* and calls are those of requests that were made.
THEOREM HttpTypeCorrect ==
  Spec => []TypeOK
<1>1. HttpInv /\ EncInv /\ TextInv => TypeOK
  BY DEF HttpInv, ConnTypeOK, EncInv, TextInv, TypeOK
<1> QED
  BY <1>1, HttpInvHolds, HandlersInv, PTL

\* Of the answers that process_server_socket writes the k-th is the answer to the k-th
\* request, with the status that its path calls for, as long as no read has timed out
\* within a request: for every client, length of body and number of requests.
THEOREM HttpAnswersMatch ==
  Spec => []AnswersMatch
<1>1. HttpInv => AnswersMatch
  BY DEF HttpInv
<1> QED
  BY <1>1, HttpInvHolds, PTL

\* routing calls a handler for a request that has arrived as a whole and unmixed, once
\* at most and in the order of the requests, also when the client paused for too long
\* and the server took the rest of one request for the next one.
THEOREM HttpHandledWhole ==
  Spec => []HandledWhole
<1>1. ASSUME HttpInv PROVE HandledWhole
  <2>1. ASSUME stage \in {"dispatch", "handler"}
        PROVE  read = Parts(asked[Current], Current)
    <3> DEFINE k == Current
               m == PartCount(asked[k])
    <3>1. /\ Len(read) = m /\ read[1].kind = "line" /\ m >= 3 /\ Len(<< >>) = 0
      BY <1>1, <2>1, HttpAssumption DEF HttpInv, ReadInv, PartCount
    <3>2. read # << >>
      BY <3>1
    <3>3. /\ k \in 1 .. Len(asked) /\ asked[k] \in Requests /\ m \in Nat
          /\ Len(read) <= Len(Stream) /\ Len(Stream) \in Nat
          /\ \A j \in 1 .. Len(read) : read[j] = Stream[j]
          /\ \A j \in 1 .. m : j <= Len(Stream) => Stream[j] = Parts(asked[k], k)[j]
      BY <1>1, <3>1, <3>2, ReadIs DEF HttpInv
    <3>4. Parts(asked[k], k) \in Seq(APart) /\ Len(Parts(asked[k], k)) = m
      BY <3>3, PartsAre
    <3> HIDE DEF k, m
    <3>5. \A j \in 1 .. Len(read) : read[j] = Parts(asked[k], k)[j]
      BY <3>1, <3>3
    <3>6. read \in Seq(APart)
      BY <1>1 DEF HttpInv, ConnTypeOK
    <3> QED
      BY <3>1, <3>4, <3>5, <3>6, SeqEqual DEF k
  <2> QED
    BY <1>1, <2>1 DEF HandledWhole, HttpInv, HandledInOrder
<1> QED
  BY <1>1, HttpInvHolds, PTL

-----------------------------------------------------------------------------
(* A connection as ApiServer sees it *)

Plain == {"syncMsg", "getLoginQRCode", "sendTextMsgEx"}

\* Only a request that a handler took is answered with 200 or 500.
TakenInv == stage = "respond" /\ status \in {200, 500} => Path \in Plain

\* The request that waits for its answer in ApiServer's eyes.
Waits ==
  IF stage = "handler" THEN Path
  ELSE IF stage = "respond" THEN (IF status \in {200, 500} THEN Path ELSE "noHandler")
  ELSE "none"

LEMMA WaitsIs ==
  ASSUME HttpInv, TakenInv
  PROVE  /\ stage \in {"handler", "respond"} => Waits \in Plain \cup {"noHandler"}
         /\ stage \notin {"handler", "respond"} => Waits = "none"
  BY DEF HttpInv, HandlerInv, TakenInv, Waits, Plain

LEMMA Stutters ==
  ASSUME (stage' = "queued") <=> (stage = "queued"), Working' <=> Working,
         (stage' = "new") <=> (stage = "new"), (stage' = "closed") <=> (stage = "closed"),
         count' = count, Waits' = Waits
  PROVE  UNCHANGED Api!vars
<1>1. UNCHANGED Api!pool
  BY DEF Api!pool
<1>2. UNCHANGED Api!conns
  BY DEF Api!conns, Waits
<1> QED
  BY <1>1, <1>2 DEF Api!vars

LEMMA Accepts ==
  ASSUME stage = "new", stage' = "queued", count' = count
  PROVE  Api!Next
<1>1. Api!Asleep = {}
  BY DEF Api!Asleep, Working
<1>2. Api!Accept(1)
  BY <1>1 DEF Api!Accept, Working, Waits
<1> QED
  BY <1>2 DEF Api!Next, Api!Listener

LEMMA TakesJob ==
  ASSUME stage = "queued", stage' = "keepAlive", count' = count
  PROVE  Api!Next
<1>1. Api!TakeJob(1)
  <2>1. UNCHANGED Api!conns
    BY DEF Api!conns
  <2>2. Head(<<1>>) = 1 /\ Tail(<<1>>) = << >> /\ ~Working /\ Working'
    BY DEF Working
  <2> QED
    BY <2>1, <2>2 DEF Api!TakeJob
<1> QED
  BY <1>1 DEF Api!Next, Api!Worker

LEMMA Ends ==
  ASSUME stage \in {"keepAlive", "line"}, stage' = "closed", count' = 0
  PROVE  Api!Next
<1>1. Api!CloseSocket(1, 1)
  BY DEF Api!CloseSocket, Working
<1>2. Api!KeepAliveEnds(1)
  BY <1>1 DEF Api!KeepAliveEnds, Working
<1> QED
  BY <1>2 DEF Api!Next, Api!Worker, Api!Serve

LEMMA Takes ==
  ASSUME stage \in {"line", "headers", "content", "dispatch"}, stage' \in {"handler", "respond"},
         count' = count, Waits' \in Plain \cup {"noHandler"}
  PROVE  Api!Next
<1>1. Waits = "none"
  BY DEF Waits
<1>2. ASSUME NEW p \in Plain \cup {"noHandler"}, Waits' = p
      PROVE  Api!Request(1, p)
  <2>1. UNCHANGED Api!pool
    BY DEF Api!pool, Working
  <2> QED
    BY <1>1, <1>2, <2>1 DEF Api!Request, Working, Waits
<1>3. \E p \in {"syncMsg", "getLoginQRCode", "sendTextMsgEx", "noHandler"} : Api!Request(1, p)
  BY <1>2 DEF Plain
<1> QED
  BY <1>3 DEF Api!Next, Api!Client

LEMMA Answers ==
  ASSUME HttpInv, TakenInv, stage = "respond",
         \/ stage' = "closed" /\ count' = 0
         \/ stage' = "keepAlive" /\ count # 1 /\ count' = count - 1
  PROVE  Api!Next
<1>1. Waits \in Plain \cup {"noHandler"} /\ Waits' = "none"
  BY WaitsIs DEF Waits
<1>2. Api!Answer(1)
  <2>1. CASE stage' = "closed" /\ count' = 0
    <3>1. Api!CloseSocket(1, 1)
      BY <2>1 DEF Api!CloseSocket, Working
    <3> QED
      BY <2>1, <3>1 DEF Api!Answer, Working
  <2>2. CASE stage' = "keepAlive" /\ count # 1 /\ count' = count - 1
    <3>1. count > 1
      BY <2>2 DEF HttpInv, ConnTypeOK
    <3> QED
      BY <2>2, <3>1 DEF Api!Answer, Working
  <2> QED
    BY <2>1, <2>2
<1>3. Waits \in Api!ReadRoutes \cup Api!SendRoutes
  BY <1>1 DEF Plain, Api!ReadRoutes, Api!SendRoutes
<1>4. Api!Handle(1)
  BY <1>2, <1>3 DEF Api!Handle, Working, Waits
<1> QED
  BY <1>4 DEF Api!Next, Api!Worker, Api!Serve

Arriving == {"keepAlive", "line", "headers", "content", "dispatch"}

\* What a step does as far as ApiServer can tell.
LEMMA StepKinds ==
  ASSUME HttpInv, [Next]_vars
  PROVE  \/ /\ UNCHANGED <<stage, count, status>>
            /\ stage \in {"handler", "respond"} => Path' = Path
         \/ stage = "new" /\ stage' = "queued" /\ count' = count
         \/ stage = "queued" /\ stage' = "keepAlive" /\ count' = count
         \/ stage \in Arriving /\ stage' \in Arriving /\ count' = count
         \/ stage \in {"keepAlive", "line"} /\ stage' = "closed" /\ count' = 0
         \/ /\ stage \in {"line", "headers", "content", "dispatch"} /\ count' = count
            /\ \/ stage' = "handler"
               \/ stage' = "respond" /\ status' \in {400, 404}
               \/ stage' = "respond" /\ status' = 200 /\ Path' \in Plain
         \/ /\ stage = "handler" /\ stage' = "respond" /\ count' = count
            /\ status' \in {200, 500} /\ Path' = Path /\ Path' \in Plain
         \/ /\ stage = "respond"
            /\ \/ stage' = "closed" /\ count' = 0
               \/ stage' = "keepAlive" /\ count # 1 /\ count' = count - 1
<1> USE DEF Arriving
<1>1. ASSUME NEW q \in Requests, Ask(q)
      PROVE  /\ UNCHANGED <<stage, count, status>>
             /\ stage \in {"handler", "respond"} => Path' = Path
  <2>1. /\ UNCHANGED <<stage, count, status>> /\ read' = read
        /\ asked' = Append(asked, q)
    BY <1>1 DEF Ask, requestVars
  <2>2. ASSUME stage \in {"handler", "respond"} PROVE read # << >>
    <3>1. stage = "handler" => Len(read) >= 3
      BY HttpAssumption DEF HttpInv, ReadInv, PartCount
    <3>2. Len(<< >>) = 0
      OBVIOUS
    <3> QED
      BY <2>2, <3>1, <3>2 DEF HttpInv, ReadInv
  <2>3. read # << >> => Current \in 1 .. Len(asked)
    BY ReadIs DEF HttpInv
  <2>4. read # << >> => asked'[Current] = asked[Current]
    BY <2>1, <2>3 DEF HttpInv, ConnTypeOK
  <2> QED
    BY <2>1, <2>2, <2>4 DEF Path, Current
<1>2. CASE SendPart \/ GoAway \/ Receive
  BY <1>2 DEF SendPart, GoAway, Receive, clientVars, requestVars, Path, Current
<1>3. CASE Accept \/ TakeJob \/ KeepAlive \/ KeepAliveTimesOut
  BY <1>3 DEF Accept, TakeJob, KeepAlive, KeepAliveTimesOut, CloseSocket
<1>4. CASE LineContinues \/ LineParsed \/ LineMalformed \/ LineMissing
  BY <1>4 DEF LineContinues, LineParsed, LineMalformed, LineMissing, CloseSocket, Respond
<1>5. CASE ReadHeader \/ HeadersMissing \/ ReadContent \/ ContentMissing \/ NotFound
  BY <1>5 DEF ReadHeader, HeadersMissing, ReadContent, ContentMissing, NotFound, Respond
<1>6. CASE CallPlain \/ CallSendTextMsgEx \/ CallGetLoginQRCode
  BY <1>6 DEF CallPlain, CallSendTextMsgEx, CallGetLoginQRCode, Dispatched, Respond, clientVars,
              Path, Current, Plain
<1>7. CASE RunHandler
  <2>1. /\ stage = "handler" /\ Path \in Plain /\ count' = count /\ Path' = Path
    BY <1>7 DEF RunHandler, clientVars, Path, Current, HttpInv, HandlerInv, Plain
  <2>2. \/ UNCHANGED <<stage, status>>
        \/ stage' = "respond" /\ status' \in {200, 500}
    BY <1>7 DEF RunHandler, Respond
  <2> QED
    BY <2>1, <2>2
<1>8. CASE WriteResponse
  BY <1>8 DEF WriteResponse, CloseSocket, NextTurn
<1>9. CASE UNCHANGED vars
  BY <1>9 DEF vars, clientVars, requestVars, Path, Current
<1> QED
  BY <1>1, <1>2, <1>3, <1>4, <1>5, <1>6, <1>7, <1>8, <1>9 DEF Next, Client, Server, ReadRequest

LEMMA ServeStep ==
  ASSUME HttpInv, HttpInv', TakenInv, [Next]_vars
  PROVE  TakenInv' /\ [Api!Next]_Api!vars
<1>1. CASE /\ UNCHANGED <<stage, count, status>>
           /\ stage \in {"handler", "respond"} => Path' = Path
  <2>1. TakenInv'
    BY <1>1 DEF TakenInv
  <2>2. Waits' = Waits /\ (Working' <=> Working)
    BY <1>1 DEF Waits, Working
  <2> QED
    BY <1>1, <2>1, <2>2, Stutters
<1>2. CASE stage = "new" /\ stage' = "queued" /\ count' = count
  BY <1>2, Accepts DEF TakenInv
<1>3. CASE stage = "queued" /\ stage' = "keepAlive" /\ count' = count
  BY <1>3, TakesJob DEF TakenInv
<1>4. CASE stage \in Arriving /\ stage' \in Arriving /\ count' = count
  <2>1. Waits' = Waits /\ (Working' <=> Working) /\ TakenInv'
    BY <1>4 DEF Waits, Working, TakenInv, Arriving
  <2> QED
    BY <1>4, <2>1, Stutters DEF Arriving
<1>5. CASE stage \in {"keepAlive", "line"} /\ stage' = "closed" /\ count' = 0
  BY <1>5, Ends DEF TakenInv
<1>6. CASE /\ stage \in {"line", "headers", "content", "dispatch"} /\ count' = count
           /\ \/ stage' = "handler"
              \/ stage' = "respond" /\ status' \in {400, 404}
              \/ stage' = "respond" /\ status' = 200 /\ Path' \in Plain
  <2>1. TakenInv'
    BY <1>6 DEF TakenInv
  <2>2. Waits' \in Plain \cup {"noHandler"}
    <3>1. stage' = "handler" => Path' \in Plain
      BY DEF HttpInv, HandlerInv, Plain
    <3> QED
      BY <1>6, <3>1 DEF Waits
  <2> QED
    BY <1>6, <2>1, <2>2, Takes
<1>7. CASE /\ stage = "handler" /\ stage' = "respond" /\ count' = count
           /\ status' \in {200, 500} /\ Path' = Path /\ Path' \in Plain
  <2>1. Waits' = Waits /\ (Working' <=> Working) /\ TakenInv'
    BY <1>7 DEF Waits, Working, TakenInv
  <2> QED
    BY <1>7, <2>1, Stutters
<1>8. CASE /\ stage = "respond"
           /\ \/ stage' = "closed" /\ count' = 0
              \/ stage' = "keepAlive" /\ count # 1 /\ count' = count - 1
  BY <1>8, Answers DEF TakenInv
<1> QED
  BY <1>1, <1>2, <1>3, <1>4, <1>5, <1>6, <1>7, <1>8, StepKinds

\* What a connection does, however it is read from its stream, is what ApiServer says
\* of one: accepted once, taken up by a worker, at most KeepAliveMax requests, each
\* answered once, and the worker free again at the end.
THEOREM HttpImplementsServe ==
  Spec => ImplementsServe
<1>1. Init => Api!Init /\ TakenInv
  BY DEF Init, Api!Init, TakenInv, Working
<1>2. HttpInv /\ HttpInv' /\ TakenInv /\ [Next]_vars => TakenInv' /\ [Api!Next]_Api!vars
  BY ServeStep
<1> QED
  BY <1>1, <1>2, HttpInvHolds, PTL DEF Spec, Api!Spec, ImplementsServe

=============================================================================
