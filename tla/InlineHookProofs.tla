--------------------------- MODULE InlineHookProofs ---------------------------
(***************************************************************************)
(* AddHook's arrays are large enough for every target, and the order of    *)
(* its writes keeps the target runnable and restorable.                    *)
(*                                                                         *)
(* While the loop runs, at most four bytes have been passed, and no        *)
(* instruction is moved into more than three times its length; the last    *)
(* one adds at most the fifteen bytes of the longest instruction           *)
(* (LengthInv).  PhaseInv says what has been saved and written by when.    *)
(* MovedInv relates what has been written for the trampoline to the        *)
(* instructions that the loop has passed; it rests on IInv.                *)
(***************************************************************************)
EXTENDS InlineHook, SequenceTheorems, TLAPS

LengthInv ==
  /\ phase = "idle" => sum = 0 /\ CmdLen = 0
  /\ phase = "scan" => sum < JmpSize /\ CmdLen <= 3 * sum
  /\ CmdLen <= 3 * (JmpSize - 1) + MaxInstr

PhaseInv ==
  /\ phase \in {"idle", "scan"} => ~m_dwHookAddr
  /\ phase \in {"idle", "scan", "write", "patch"} => target = "original"
  /\ phase \in {"scan", "write", "patch", "true"} => m_OldCode = "original"
  /\ phase = "false" => ~m_dwHookAddr
  /\ phase \in {"patch", "true"} => shellCode
  /\ TrampolineFirst
  /\ RemovedIsOriginal

IInv == TypeOK /\ LengthInv /\ PhaseInv

-----------------------------------------------------------------------------
\* What the assumption says of an instruction.
LEMMA InstrType ==
  ASSUME NEW i \in Instrs
  PROVE  /\ i.len \in 1 .. MaxInstr
         /\ i.dest \in 0 .. AddressSpace - 1
<1>1. i \in [branch : {"none", "indirect", "ret", "relative"},
             opcode : {"jmp", "jcc", "other"},
             len : 1 .. MaxInstr,
             dest : 0 .. AddressSpace - 1]
  BY HookAssumption
<1> QED BY <1>1

\* The numbers that the loop counts with.
LEMMA Counters ==
  ASSUME TypeOK
  PROVE  sum \in Nat /\ CmdLen \in Nat /\ Len(scanned) \in Nat
<1>1. scanned \in Seq(Instrs) /\ sum \in Nat /\ CmdLen \in Nat
  BY DEF TypeOK
<1> QED BY <1>1, LenProperties

\* An offset is a number of the address space.
LEMMA OffsetType ==
  ASSUME TypeOK, NEW i \in Instrs, NEW size \in Nat
  PROVE  Offset(i, size) \in 0 .. AddressSpace - 1
<1>0. AddressSpace \in Nat \ {0} /\ Trampoline \in Nat
  BY HookAssumption
<1>1. i.dest \in Int /\ CmdLen \in Int /\ Trampoline \in Int /\ AddressSpace \in Nat \ {0}
  BY <1>0, InstrType, Counters
<1>2. i.dest - (Trampoline + CmdLen) - size \in Int
  BY <1>1
<1> DEFINE d == i.dest - (Trampoline + CmdLen) - size
<1>3. d \in Int
  BY <1>2
<1> HIDE DEF d
<1>4. d % AddressSpace \in 0 .. AddressSpace - 1
  BY <1>1, <1>3
<1> QED BY <1>4 DEF d, Offset

\* Writing one more instruction keeps the types of the trampoline.
LEMMA EmitType ==
  ASSUME TypeOK, NEW i \in Instrs, NEW size \in 1 .. MaxInstr,
         NEW offset \in 0 .. AddressSpace - 1, Emit(i, size, offset)
  PROVE  /\ NewCmd' \in Seq([of : Nat, at : Nat, size : 1 .. MaxInstr,
                             offset : 0 .. AddressSpace - 1])
         /\ CmdLen' = CmdLen + size
         /\ CmdLen' \in Nat
<1> DEFINE e == [of |-> Len(scanned) + 1, at |-> CmdLen, size |-> size, offset |-> offset]
           E == [of : Nat, at : Nat, size : 1 .. MaxInstr, offset : 0 .. AddressSpace - 1]
<1>1. Len(scanned) + 1 \in Nat /\ CmdLen \in Nat
  BY Counters
<1>2. e \in E
  BY <1>1
<1>3. NewCmd \in Seq(E)
  BY DEF TypeOK
<1>4. NewCmd' = Append(NewCmd, e)
  BY DEF Emit
<1> HIDE DEF e, E
<1>5. NewCmd' \in Seq(E)
  BY <1>2, <1>3, <1>4, AppendProperties
<1>6. CmdLen' = CmdLen + size /\ CmdLen' \in Nat
  BY <1>1 DEF Emit, MaxInstr
<1> QED BY <1>5, <1>6 DEF E

\* A turn of the loop that moves an instruction of length n into at most 3n
\* bytes, and into n if n is more than six, keeps the invariant.
LEMMA TurnInv ==
  ASSUME IInv, NEW i \in Instrs, NEW size \in Nat,
         phase = "scan", Pass(i), UNCHANGED memory,
         CmdLen' = CmdLen + size,
         size <= 3 * i.len, size <= MaxInstr,
         NewCmd' \in Seq([of : Nat, at : Nat, size : 1 .. MaxInstr,
                          offset : 0 .. AddressSpace - 1])
  PROVE  IInv'
<1> USE DEF IInv
<1>1. i.len \in 1 .. MaxInstr
  BY InstrType
<1>2. sum \in Nat /\ CmdLen \in Nat /\ sum < 5 /\ CmdLen <= 3 * sum
  BY Counters DEF LengthInv, JmpSize
<1>3. sum' = sum + i.len
  BY DEF Pass
<1>4. TypeOK'
  <2>1. scanned' \in Seq(Instrs)
    BY AppendProperties DEF Pass, TypeOK
  <2>2. sum' \in Nat /\ CmdLen' \in Nat
    <3>1. i.len \in Nat /\ CmdLen' = CmdLen + size
      BY <1>1 DEF MaxInstr
    <3> HIDE DEF IInv
    <3> QED
      BY <1>2, <1>3, <3>1
  <2>3. dwRetAddr' \in Nat \cup {Garbage}
    BY <2>2, <1>3 DEF Pass, TypeOK
  <2>4. m_dwHookAddr' \in BOOLEAN
    BY DEF Pass, TypeOK
  <2>5. phase' \in {"scan", "write"}
    BY DEF Pass
  <2> QED BY <2>1, <2>2, <2>3, <2>4, <2>5 DEF TypeOK, memory
<1>5. LengthInv'
  <2>1. phase' \in {"scan", "write"}
    BY DEF Pass
  <2>2. phase' = "scan" => sum' < 5
    BY <1>1, <1>2, <1>3 DEF Pass, JmpSize, MaxInstr
  <2>3. CmdLen' <= 3 * sum'
    <3>1. i.len \in Nat
      BY <1>1 DEF MaxInstr
    <3>2. CmdLen + size <= 3 * sum + 3 * i.len
      BY <1>2, <3>1
    <3> QED BY <1>2, <1>3, <3>1, <3>2
  <2>4. CmdLen' <= 27
    BY <1>2 DEF MaxInstr
  <2> QED BY <2>1, <2>2, <2>3, <2>4 DEF LengthInv, JmpSize, MaxInstr
<1>6. PhaseInv'
  BY DEF Pass, memory, PhaseInv, TrampolineFirst, RemovedIsOriginal
<1> QED BY <1>4, <1>5, <1>6

-----------------------------------------------------------------------------
\* The invariant holds before AddHook is called.
LEMMA InitIInv == Init => IInv
<1> SUFFICES ASSUME Init
             PROVE  IInv
  OBVIOUS
<1> USE DEF Init
<1>1. TypeOK
  BY EmptySeq DEF TypeOK
<1>2. LengthInv
  BY DEF LengthInv, JmpSize, MaxInstr
<1>3. PhaseInv
  BY DEF PhaseInv, TrampolineFirst, RemovedIsOriginal
<1> QED BY <1>1, <1>2, <1>3 DEF IInv

\* The invariant is inductive.
LEMMA NextIInv == IInv /\ [Next]_vars => IInv'
<1> SUFFICES ASSUME IInv, [Next]_vars
             PROVE  IInv'
  OBVIOUS
<1>1. TypeOK
  BY DEF IInv
<1>2. ASSUME NEW i \in Instrs, Turn(i)
      PROVE  IInv'
  <2>0. i.len \in 1 .. MaxInstr
    BY InstrType
  <2>1. CASE Copy(i)
    <3>1. 0 \in 0 .. AddressSpace - 1
      BY HookAssumption
    <3>2. Emit(i, i.len, 0)
      BY <2>1 DEF Copy
    <3>3. i.len \in Nat /\ i.len <= 3 * i.len /\ i.len <= MaxInstr
      BY <2>0 DEF MaxInstr
    <3> QED BY <1>1, <2>0, <2>1, <3>1, <3>2, <3>3, EmitType, TurnInv DEF Copy
  <2>2. CASE MoveShortJmp(i)
    <3>1. Offset(i, 5) \in 0 .. AddressSpace - 1
      BY <1>1, OffsetType
    <3>2. 5 \in 1 .. MaxInstr /\ 5 <= 3 * i.len /\ 5 <= MaxInstr
      BY <2>2 DEF MoveShortJmp, MaxInstr
    <3> QED BY <1>1, <2>2, <3>1, <3>2, EmitType, TurnInv DEF MoveShortJmp
  <2>3. CASE MoveShortJcc(i)
    <3>1. Offset(i, 6) \in 0 .. AddressSpace - 1
      BY <1>1, OffsetType
    <3>2. 6 \in 1 .. MaxInstr /\ 6 <= 3 * i.len /\ 6 <= MaxInstr
      BY <2>3 DEF MoveShortJcc, MaxInstr
    <3> QED BY <1>1, <2>3, <3>1, <3>2, EmitType, TurnInv DEF MoveShortJcc
  <2>4. CASE MoveNear(i)
    <3>1. Offset(i, 5) \in 0 .. AddressSpace - 1
      BY <1>1, OffsetType
    <3>2. 5 \in 1 .. MaxInstr /\ 5 <= 3 * i.len /\ 5 <= MaxInstr
      BY <2>4 DEF MoveNear, MaxInstr
    <3> QED BY <1>1, <2>4, <3>1, <3>2, EmitType, TurnInv DEF MoveNear
  <2>5. CASE Drop(i)
    <3>1. CmdLen' = CmdLen + 0
      BY <1>1, <2>5 DEF Drop, TypeOK
    <3>2. 0 <= 3 * i.len /\ 0 <= MaxInstr
      BY <2>0 DEF MaxInstr
    <3>3. NewCmd' \in Seq([of : Nat, at : Nat, size : 1 .. MaxInstr,
                           offset : 0 .. AddressSpace - 1])
      BY <1>1, <2>5 DEF Drop, TypeOK
    <3> QED BY <2>5, <3>1, <3>2, <3>3, TurnInv DEF Drop
  <2>6. CASE BreakOff(i)
    BY <2>6 DEF BreakOff, IInv, TypeOK, LengthInv, PhaseInv, TrampolineFirst,
                RemovedIsOriginal, memory
  <2> QED BY <1>2, <2>1, <2>2, <2>3, <2>4, <2>5, <2>6 DEF Turn
<1>3. CASE AddHookDenied
  BY <1>3 DEF AddHookDenied, IInv, TypeOK, LengthInv, PhaseInv, TrampolineFirst,
              RemovedIsOriginal, scan
<1>4. CASE AddHookBegin
  BY <1>4 DEF AddHookBegin, IInv, TypeOK, LengthInv, PhaseInv, TrampolineFirst,
              RemovedIsOriginal, scan, JmpSize
<1>5. CASE DisasmFails
  BY <1>5 DEF DisasmFails, IInv, TypeOK, LengthInv, PhaseInv, TrampolineFirst,
              RemovedIsOriginal, scan, memory
<1>6. CASE WriteShellCode
  BY <1>6 DEF WriteShellCode, IInv, TypeOK, LengthInv, PhaseInv, TrampolineFirst,
              RemovedIsOriginal, scan
<1>7. CASE Patch
  BY <1>7 DEF Patch, IInv, TypeOK, LengthInv, PhaseInv, TrampolineFirst,
              RemovedIsOriginal, scan
<1>8. CASE RemoveHook
  BY <1>8 DEF RemoveHook, IInv, TypeOK, LengthInv, PhaseInv, TrampolineFirst,
              RemovedIsOriginal, scan
<1>9. CASE UNCHANGED vars
  BY <1>9 DEF vars, scan, memory, IInv, TypeOK, LengthInv, PhaseInv, TrampolineFirst,
              RemovedIsOriginal
<1> QED BY <1>2, <1>3, <1>4, <1>5, <1>6, <1>7, <1>8, <1>9 DEF Next, AddHook

LEMMA SpecIInv == Spec => []IInv
BY InitIInv, NextIInv, PTL DEF Spec

-----------------------------------------------------------------------------
\* Every variable keeps its type.
THEOREM HookTypeCorrect == Spec => []TypeOK
<1>1. IInv => TypeOK
  BY DEF IInv
<1> QED BY SpecIInv, <1>1, PTL

\* AddHook never writes behind NewCmd or ShellCode, whatever the target holds.
THEOREM HookStaysInArrays == Spec => []NewCmdFits
<1>1. ASSUME IInv
      PROVE  NewCmdFits
  <2>1. CmdLen \in Nat
    BY <1>1, Counters DEF IInv
  <2>2. CmdLen <= 27
    BY <1>1 DEF IInv, LengthInv, JmpSize, MaxInstr
  <2> QED BY <2>1, <2>2 DEF NewCmdFits, NewCmdSize, HeadSize, PushRetSize, ShellCodeSize
<1> QED BY SpecIInv, <1>1, PTL

\* The target never jumps to a trampoline that has not been written.
THEOREM HookWritesTrampolineFirst == Spec => []TrampolineFirst
<1>1. IInv => TrampolineFirst
  BY DEF IInv, PhaseInv
<1> QED BY SpecIInv, <1>1, PTL

\* A removed hook leaves the target as it was.
THEOREM HookRemovalRestores == Spec => []RemovedIsOriginal
<1>1. IInv => RemovedIsOriginal
  BY DEF IInv, PhaseInv
<1> QED BY SpecIInv, <1>1, PTL

-----------------------------------------------------------------------------
(* Arithmetic modulo the address space *)

LEMMA Division ==
  ASSUME NEW A \in Nat \ {0}, NEW x \in Int
  PROVE  x % A \in 0 .. A - 1 /\ \E q \in Int : x = A * q + (x % A)
<1>1. x % A \in 0 .. A - 1
  OBVIOUS
<1>2. x = A * (x \div A) + (x % A)
  OBVIOUS
<1>3. x \div A \in Int
  OBVIOUS
<1> QED BY <1>1, <1>2, <1>3

LEMMA NoMultipleBetween ==
  ASSUME NEW A \in Nat \ {0}, NEW k \in Int, A * k < A, -A < A * k
  PROVE  k = 0
<1>1. CASE k >= 1
  <2>1. A * k >= A
    BY <1>1
  <2> QED BY <2>1
<1>2. CASE k <= -1
  <2>1. A * k <= -A
    BY <1>2
  <2> QED BY <2>1
<1> QED BY <1>1, <1>2

\* A remainder is determined by its range.
LEMMA Remainder ==
  ASSUME NEW A \in Nat \ {0}, NEW q \in Int, NEW d \in 0 .. A - 1, NEW x \in Int, x = A * q + d
  PROVE  x % A = d
<1>1. PICK r \in Int : x = A * r + (x % A)
  BY Division
<1>2. x % A \in 0 .. A - 1
  BY Division
<1> DEFINE y == x % A
<1>3. y \in 0 .. A - 1 /\ x = A * r + y
  BY <1>1, <1>2
<1> HIDE DEF y
<1>4. A * (q - r) = y - d
  <2>1. A * (q - r) = A * q - A * r
    OBVIOUS
  <2>2. A * q \in Int /\ A * r \in Int
    OBVIOUS
  <2> QED BY <1>3, <2>1, <2>2
<1>5. q - r = 0
  <2>1. A * (q - r) < A /\ -A < A * (q - r)
    BY <1>3, <1>4
  <2>2. q - r \in Int
    OBVIOUS
  <2> QED BY <2>1, <2>2, NoMultipleBetween
<1>6. y = d
  <2>1. A * (q - r) = 0
    BY <1>5
  <2> QED BY <1>3, <1>4, <2>1
<1> QED BY <1>6 DEF y

\* An offset that wraps around leads to its destination nevertheless.
LEMMA OffsetLeadsBack ==
  ASSUME NEW A \in Nat \ {0}, NEW d \in 0 .. A - 1, NEW from \in Int
  PROVE  (from + ((d - from) % A)) % A = d
<1>1. d - from \in Int
  OBVIOUS
<1>2. PICK q \in Int : d - from = A * q + ((d - from) % A)
  BY <1>1, Division
<1> DEFINE o == (d - from) % A
<1>3. o \in 0 .. A - 1 /\ d - from = A * q + o
  BY <1>1, <1>2, Division
<1> HIDE DEF o
<1>4. from + o \in Int /\ -q \in Int /\ A * q \in Int /\ A * (-q) = -(A * q)
  BY <1>3
<1>5. from + o = A * (-q) + d
  BY <1>3, <1>4
<1>6. (from + o) % A = d
  <2> DEFINE x == from + o
             p == -q
  <2>1. x \in Int /\ p \in Int /\ x = A * p + d
    BY <1>4, <1>5
  <2> HIDE DEF x, p
  <2>2. x % A = d
    BY <2>1, Remainder
  <2> QED
    BY <2>2 DEF x
<1> QED BY <1>6 DEF o

-----------------------------------------------------------------------------
(* The length of the instructions scanned *)

\* f gives the length of the first k instructions of s, for every k.
Lengths(f, s) == f = [k \in 0 .. Len(s) |-> IF k = 0 THEN 0 ELSE f[k - 1] + s[k].len]

\* The instructions of s have n bytes.
HasLength(s, n) == (\E f : Lengths(f, s)) /\ (\A f : Lengths(f, s) => f[Len(s)] = n)

LEMMA LengthIs ==
  ASSUME TypeOK, NEW n, HasLength(scanned, n)
  PROVE  LengthOf(Len(scanned)) = n
<1>1. Lengths(CHOOSE f : Lengths(f, scanned), scanned)
  BY DEF HasLength
<1>2. LengthOf(Len(scanned)) = (CHOOSE f : Lengths(f, scanned))[Len(scanned)]
  BY DEF LengthOf, Lengths
<1> QED BY <1>1, <1>2 DEF HasLength

LEMMA NoLength == HasLength(<< >>, 0)
<1>1. Len(<< >>) = 0 /\ 0 \in 0 .. 0 /\ \A k \in 0 .. 0 : k = 0
  OBVIOUS
<1>2. Lengths([k \in 0 .. 0 |-> 0], << >>)
  BY <1>1 DEF Lengths
<1>3. ASSUME NEW f, Lengths(f, << >>)
      PROVE  f[0] = 0
  BY <1>1, <1>3 DEF Lengths
<1> QED BY <1>1, <1>2, <1>3 DEF HasLength

LEMMA LengthGrows ==
  ASSUME NEW s \in Seq(Instrs), NEW i \in Instrs, NEW n \in Nat, HasLength(s, n)
  PROVE  HasLength(Append(s, i), n + i.len)
<1> DEFINE t == Append(s, i)
<1>1. /\ Len(s) \in Nat /\ Len(t) = Len(s) + 1 /\ t[Len(s) + 1] = i
      /\ \A k \in 1 .. Len(s) : t[k] = s[k]
  BY AppendProperties, LenProperties
<1> HIDE DEF t
<1>2. PICK f : Lengths(f, s)
  BY DEF HasLength
<1>3. f[Len(s)] = n
  BY <1>2 DEF HasLength
<1> DEFINE g == [k \in 0 .. Len(t) |-> IF k = Len(t) THEN n + i.len ELSE f[k]]
<1>4. Lengths(g, t)
  <2>1. ASSUME NEW k \in 0 .. Len(t)
        PROVE  g[k] = IF k = 0 THEN 0 ELSE g[k - 1] + t[k].len
    <3>1. CASE k = Len(t)
      BY <1>1, <1>3, <3>1
    <3>2. CASE k # Len(t)
      <4>1. k \in 0 .. Len(s) /\ f[k] = IF k = 0 THEN 0 ELSE f[k - 1] + s[k].len
        BY <1>1, <1>2, <3>2 DEF Lengths
      <4> QED BY <1>1, <3>2, <4>1
    <3> QED BY <3>1, <3>2
  <2> QED BY <2>1 DEF Lengths
<1>5. ASSUME NEW e, Lengths(e, t)
      PROVE  e[Len(t)] = n + i.len
  <2> DEFINE d == [k \in 0 .. Len(s) |-> e[k]]
  <2>1. Lengths(d, s)
    <3>1. ASSUME NEW k \in 0 .. Len(s)
          PROVE  d[k] = IF k = 0 THEN 0 ELSE d[k - 1] + s[k].len
      <4>1. e[k] = IF k = 0 THEN 0 ELSE e[k - 1] + t[k].len
        BY <1>1, <1>5 DEF Lengths
      <4> QED BY <1>1, <4>1
    <3> QED BY <3>1 DEF Lengths
  <2>2. d[Len(s)] = n /\ d[Len(s)] = e[Len(s)]
    BY <1>1, <2>1 DEF HasLength
  <2>3. e[Len(t)] = e[Len(t) - 1] + t[Len(t)].len
    BY <1>1, <1>5 DEF Lengths
  <2> QED BY <1>1, <2>2, <2>3
<1>6. HasLength(t, n + i.len)
  BY <1>4, <1>5 DEF HasLength
<1> QED BY <1>6 DEF t

-----------------------------------------------------------------------------
(* What has been moved *)

\* Every moved instruction is one of those scanned, and a branch leads where it led.
BranchInv ==
  \A n \in DOMAIN NewCmd :
    /\ NewCmd[n].of \in 1 .. Len(scanned)
    /\ scanned[NewCmd[n].of].branch = "relative" =>
         (Trampoline + NewCmd[n].at + NewCmd[n].size + NewCmd[n].offset) % AddressSpace =
           scanned[NewCmd[n].of].dest

\* As long as no instruction is left out, they are moved one by one and one behind the
\* other, and the next one will be behind the last.
OrderInv ==
  (\A n \in DOMAIN scanned : ~Unmoved(scanned[n])) =>
    /\ Len(NewCmd) = Len(scanned)
    /\ \A n \in DOMAIN NewCmd : NewCmd[n].of = n
    /\ \A n \in 2 .. Len(NewCmd) : NewCmd[n].at = NewCmd[n - 1].at + NewCmd[n - 1].size
    /\ NewCmd # << >> =>
         CmdLen = NewCmd[Len(NewCmd)].at + NewCmd[Len(NewCmd)].size

\* sum counts what has been scanned until the trampoline's return is computed from it.
SumInv ==
  /\ phase \in {"idle", "scan"} => HasLength(scanned, sum) /\ dwRetAddr = Garbage
  /\ dwRetAddr # Garbage => HasLength(scanned, dwRetAddr) /\ dwRetAddr >= JmpSize

MovedInv == BranchInv /\ OrderInv /\ SumInv

\* The end of a turn.
LEMMA PassSum ==
  ASSUME IInv, SumInv, phase = "scan", NEW i \in Instrs, Pass(i)
  PROVE  SumInv'
<1>1. sum \in Nat /\ i.len \in Nat /\ scanned \in Seq(Instrs)
  <2>1. i.len \in 1 .. 15
    BY InstrType DEF MaxInstr
  <2>2. sum \in Nat /\ scanned \in Seq(Instrs)
    BY DEF IInv, TypeOK
  <2> QED BY <2>1, <2>2
<1>2. HasLength(scanned, sum) /\ dwRetAddr = Garbage
  BY DEF SumInv
<1>3. HasLength(Append(scanned, i), sum + i.len)
  BY <1>1, <1>2, LengthGrows
<1>4. CASE sum + i.len >= JmpSize
  BY <1>1, <1>3, <1>4 DEF Pass, SumInv
<1>5. CASE ~(sum + i.len >= JmpSize)
  BY <1>1, <1>2, <1>3, <1>5 DEF Pass, SumInv
<1> QED BY <1>4, <1>5

\* An instruction is written with an offset that leads its branch to its destination.
LEMMA EmitMoves ==
  ASSUME IInv, BranchInv, OrderInv, NEW i \in Instrs, NEW size \in Nat, NEW offset,
         Emit(i, size, offset), Pass(i),
         i.branch = "relative" => offset = Offset(i, size)
  PROVE  BranchInv' /\ OrderInv'
<1> DEFINE E == [of : Nat, at : Nat, size : 1 .. MaxInstr, offset : 0 .. AddressSpace - 1]
<1>1. /\ NewCmd \in Seq(E) /\ scanned \in Seq(Instrs) /\ CmdLen \in Nat
  BY DEF IInv, TypeOK
<1> HIDE DEF E
<1>2. PICK e : /\ e.of = Len(scanned) + 1 /\ e.at = CmdLen /\ e.size = size /\ e.offset = offset
               /\ NewCmd' = Append(NewCmd, e) /\ CmdLen' = CmdLen + size
  BY DEF Emit
<1>3. /\ Len(NewCmd) \in Nat /\ DOMAIN NewCmd = 1 .. Len(NewCmd)
      /\ Len(NewCmd') = Len(NewCmd) + 1 /\ DOMAIN NewCmd' = 1 .. Len(NewCmd) + 1
      /\ NewCmd'[Len(NewCmd) + 1] = e
      /\ \A n \in 1 .. Len(NewCmd) : NewCmd'[n] = NewCmd[n]
  BY <1>1, <1>2
<1>4. /\ Len(scanned) \in Nat /\ DOMAIN scanned = 1 .. Len(scanned)
      /\ Len(scanned') = Len(scanned) + 1 /\ DOMAIN scanned' = 1 .. Len(scanned) + 1
      /\ scanned'[Len(scanned) + 1] = i
      /\ \A n \in 1 .. Len(scanned) : scanned'[n] = scanned[n]
  BY <1>1 DEF Pass
<1>5. i.branch = "relative" =>
        (Trampoline + CmdLen + size + offset) % AddressSpace = i.dest
  <2> SUFFICES ASSUME i.branch = "relative"
               PROVE  (Trampoline + CmdLen + size + offset) % AddressSpace = i.dest
    OBVIOUS
  <2>1. AddressSpace \in Nat \ {0} /\ Trampoline \in Nat /\ i.dest \in 0 .. AddressSpace - 1
    BY HookAssumption, InstrType
  <2> DEFINE from == Trampoline + CmdLen + size
  <2>2. from \in Int /\ i.dest - (Trampoline + CmdLen) - size = i.dest - from
    BY <1>1, <2>1
  <2>3. offset = (i.dest - from) % AddressSpace
    BY <2>2 DEF Offset
  <2> HIDE DEF from
  <2>4. (from + offset) % AddressSpace = i.dest
    BY <2>1, <2>2, <2>3, OffsetLeadsBack
  <2> QED BY <2>4 DEF from
<1>6. BranchInv'
  <2>1. ASSUME NEW n \in 1 .. Len(NewCmd)
        PROVE  /\ NewCmd'[n].of \in 1 .. Len(scanned')
               /\ scanned'[NewCmd'[n].of].branch = "relative" =>
                    (Trampoline + NewCmd'[n].at + NewCmd'[n].size + NewCmd'[n].offset) % AddressSpace =
                      scanned'[NewCmd'[n].of].dest
    <3>1. NewCmd'[n] = NewCmd[n] /\ NewCmd[n].of \in 1 .. Len(scanned)
      BY <1>3, <2>1 DEF BranchInv
    <3>2. scanned'[NewCmd'[n].of] = scanned[NewCmd[n].of] /\ NewCmd'[n].of \in 1 .. Len(scanned')
      BY <1>4, <3>1
    <3> QED BY <1>3, <3>1, <3>2 DEF BranchInv
  <2>2. \A n \in DOMAIN NewCmd' : n \in 1 .. Len(NewCmd) \/ n = Len(NewCmd) + 1
    BY <1>3
  <2>3. Len(scanned) + 1 \in 1 .. Len(scanned')
    BY <1>4
  <2> QED BY <1>2, <1>3, <1>4, <1>5, <2>1, <2>2, <2>3 DEF BranchInv
<1>7. OrderInv'
  <2> SUFFICES ASSUME \A n \in DOMAIN scanned' : ~Unmoved(scanned'[n])
               PROVE  /\ Len(NewCmd') = Len(scanned')
                      /\ \A n \in DOMAIN NewCmd' : NewCmd'[n].of = n
                      /\ \A n \in 2 .. Len(NewCmd') :
                           NewCmd'[n].at = NewCmd'[n - 1].at + NewCmd'[n - 1].size
                      /\ CmdLen' = NewCmd'[Len(NewCmd')].at + NewCmd'[Len(NewCmd')].size
    BY DEF OrderInv
  <2>1. \A n \in DOMAIN scanned : ~Unmoved(scanned[n])
    <3>1. ASSUME NEW n \in DOMAIN scanned
          PROVE  n \in DOMAIN scanned' /\ scanned'[n] = scanned[n]
      BY <1>4, <3>1
    <3> QED BY <3>1
  <2>2. /\ Len(NewCmd) = Len(scanned)
        /\ \A n \in DOMAIN NewCmd : NewCmd[n].of = n
        /\ \A n \in 2 .. Len(NewCmd) : NewCmd[n].at = NewCmd[n - 1].at + NewCmd[n - 1].size
        /\ NewCmd # << >> => CmdLen = NewCmd[Len(NewCmd)].at + NewCmd[Len(NewCmd)].size
    BY <2>1 DEF OrderInv
  <2>3. Len(NewCmd') = Len(scanned') /\ CmdLen' = NewCmd'[Len(NewCmd')].at + NewCmd'[Len(NewCmd')].size
    BY <1>2, <1>3, <1>4, <2>2
  <2>4. \A n \in DOMAIN NewCmd' : NewCmd'[n].of = n
    BY <1>2, <1>3, <2>2
  <2>5. ASSUME NEW n \in 2 .. Len(NewCmd')
        PROVE  NewCmd'[n].at = NewCmd'[n - 1].at + NewCmd'[n - 1].size
    <3>1. CASE n = Len(NewCmd) + 1
      <4>1. NewCmd # << >> /\ n - 1 = Len(NewCmd) /\ n - 1 \in 1 .. Len(NewCmd)
        BY <1>1, <1>3, <2>5, <3>1
      <4> QED BY <1>2, <1>3, <2>2, <3>1, <4>1
    <3>2. CASE n # Len(NewCmd) + 1
      <4>1. n \in 2 .. Len(NewCmd) /\ n \in 1 .. Len(NewCmd) /\ n - 1 \in 1 .. Len(NewCmd)
        BY <1>3, <2>5, <3>2
      <4> QED BY <1>3, <2>2, <4>1
    <3> QED BY <3>1, <3>2
  <2> QED BY <2>3, <2>4, <2>5
<1> QED BY <1>6, <1>7

\* An instruction that is dropped is one that AddHook does not move.
LEMMA DropMoves ==
  ASSUME IInv, BranchInv, OrderInv, NEW i \in Instrs, Drop(i)
  PROVE  BranchInv' /\ OrderInv'
<1>1. /\ scanned \in Seq(Instrs) /\ UNCHANGED <<NewCmd, CmdLen>> /\ Unmoved(i)
  BY DEF IInv, TypeOK, Drop, Unmoved
<1>2. /\ Len(scanned) \in Nat /\ DOMAIN scanned = 1 .. Len(scanned)
      /\ Len(scanned') = Len(scanned) + 1 /\ DOMAIN scanned' = 1 .. Len(scanned) + 1
      /\ scanned'[Len(scanned) + 1] = i
      /\ \A n \in 1 .. Len(scanned) : scanned'[n] = scanned[n]
  BY <1>1 DEF Drop, Pass
<1>3. BranchInv'
  BY <1>1, <1>2 DEF BranchInv
<1>4. Len(scanned) + 1 \in DOMAIN scanned' /\ Unmoved(scanned'[Len(scanned) + 1])
  BY <1>1, <1>2
<1>5. OrderInv'
  BY <1>4 DEF OrderInv
<1> QED BY <1>3, <1>5

LEMMA InitMoved == Init => MovedInv
<1> SUFFICES ASSUME Init
             PROVE  MovedInv
  OBVIOUS
<1> USE DEF Init
<1>1. BranchInv /\ OrderInv
  BY DEF BranchInv, OrderInv
<1>2. SumInv
  BY NoLength DEF SumInv
<1> QED BY <1>1, <1>2 DEF MovedInv

LEMMA NextMoved == IInv /\ MovedInv /\ [Next]_vars => MovedInv'
<1> SUFFICES ASSUME IInv, MovedInv, [Next]_vars
             PROVE  MovedInv'
  OBVIOUS
<1> USE DEF MovedInv
<1>1. ASSUME NEW i \in Instrs, Turn(i)
      PROVE  MovedInv'
  <2>1. CASE Copy(i)
    <3>1. i.len \in Nat
      BY InstrType DEF MaxInstr
    <3> QED BY <2>1, <3>1, EmitMoves, PassSum DEF Copy
  <2>2. CASE MoveShortJmp(i) \/ MoveNear(i)
    BY <2>2, EmitMoves, PassSum DEF MoveShortJmp, MoveNear
  <2>3. CASE MoveShortJcc(i)
    BY <2>3, EmitMoves, PassSum DEF MoveShortJcc
  <2>4. CASE Drop(i)
    <3>1. BranchInv' /\ OrderInv'
      BY <2>4, DropMoves
    <3> QED BY <2>4, <3>1, PassSum DEF Drop
  <2>5. CASE BreakOff(i)
    BY <2>5 DEF BreakOff, BranchInv, OrderInv, SumInv
  <2> QED BY <1>1, <2>1, <2>2, <2>3, <2>4, <2>5 DEF Turn
<1>2. ASSUME UNCHANGED scan, phase' \in {"idle", "scan"} => phase \in {"idle", "scan"}
      PROVE  MovedInv'
  BY <1>2 DEF scan, BranchInv, OrderInv, SumInv
<1>3. CASE AddHookDenied \/ AddHookBegin \/ DisasmFails \/ WriteShellCode \/ Patch
  BY <1>2, <1>3 DEF AddHookDenied, AddHookBegin, DisasmFails, WriteShellCode, Patch
<1>4. CASE RemoveHook
  BY <1>2, <1>4 DEF RemoveHook
<1>5. CASE UNCHANGED vars
  BY <1>2, <1>5 DEF vars
<1> QED BY <1>1, <1>3, <1>4, <1>5 DEF Next, AddHook

LEMMA SpecMoved == Spec => [](IInv /\ MovedInv)
BY InitIInv, NextIInv, InitMoved, NextMoved, PTL DEF Spec

\* A relative branch that has been moved leads from the trampoline to where it led from the
\* target, however far apart they are and whether or not the offset wraps around.
THEOREM HookBranchesKeepTargets == Spec => []BranchesKeepTargets
<1>1. BranchInv => BranchesKeepTargets
  BY DEF BranchInv, BranchesKeepTargets
<1> QED BY <1>1, SpecMoved, PTL DEF MovedInv

\* A target that jumps to the trampoline loses no instruction that the jump overwrites,
\* provided that AddHook can move them all, and the trampoline returns behind the last.
THEOREM HookTrampolineRunsOriginals == Spec => []TrampolineRunsOriginals
<1>1. ASSUME IInv, MovedInv
      PROVE  TrampolineRunsOriginals
  <2>1. TypeOK /\ TrampolineFirst
    BY <1>1 DEF IInv, PhaseInv
  <2>2. dwRetAddr # Garbage => dwRetAddr = LengthOf(Len(scanned)) /\ dwRetAddr >= JmpSize
    BY <1>1, <2>1, LengthIs DEF MovedInv, SumInv
  <2> QED BY <1>1, <2>1, <2>2 DEF MovedInv, OrderInv, TrampolineRunsOriginals
<1> QED BY <1>1, SpecMoved, PTL

=============================================================================
