------------------------------ MODULE InlineHook ------------------------------
(***************************************************************************)
(* InlineHook (InlineHook/InlineHook.cpp): AddHook overwrites the first    *)
(* five bytes of a function of WeChat with a jump to a trampoline, which   *)
(* calls the hook's callback and then has to do what the overwritten       *)
(* instructions did before it returns behind them.                         *)
(*                                                                         *)
(* The instructions at the target are not known beforehand: AddHook asks a *)
(* disassembler for one after the other, so each turn of its loop takes    *)
(* any instruction of Instrs.  An instruction is what the code looks at:   *)
(*   branch  "none", "indirect" (opcode FF), "ret" or "relative"           *)
(*   opcode  of a short relative branch: "jmp" (EB), "jcc" (70 - 7F) or    *)
(*           "other" (loop, jecxz)                                         *)
(*   len     its length                                                    *)
(*   dest    where a relative branch goes                                  *)
(* Addresses are numbers modulo AddressSpace.                              *)
(***************************************************************************)
EXTENDS Integers, Sequences

CONSTANTS
  Instrs,        \* the instructions that a target may hold
  AddressSpace,  \* 2^32 in the code
  Trampoline,    \* m_dwVirtualAddr + 0xC: where the moved instructions go
  Garbage        \* dwRetAddr before it is computed: 0x90909090

MaxInstr == 15   \* length of the longest x86 instruction
JmpSize == 5     \* what a jump to the trampoline overwrites

ASSUME HookAssumption ==
  /\ AddressSpace \in Nat \ {0}
  /\ Trampoline \in Nat
  /\ Garbage \notin Nat
  /\ Instrs \subseteq [branch : {"none", "indirect", "ret", "relative"},
                       opcode : {"jmp", "jcc", "other"},
                       len : 1 .. MaxInstr,
                       dest : 0 .. AddressSpace - 1]

VARIABLES
  phase,         \* where AddHook or RemoveHook is, and what it returned
  scanned,       \* the target's instructions that the loop has passed
  sum,           \* their length, as the code counts it
  NewCmd,        \* the instructions written for the trampoline
  CmdLen,        \* their length
  dwRetAddr,     \* where the trampoline returns to, from the target on
  m_dwHookAddr,  \* has the hook's address been saved?
  m_OldCode,     \* the five bytes saved: "original", "jmp" or "none"
  target,        \* the five bytes at the target: "original" or "jmp"
  shellCode      \* has the trampoline been written?

scan == <<scanned, sum, NewCmd, CmdLen, dwRetAddr, m_dwHookAddr>>
memory == <<m_OldCode, target, shellCode>>
vars == <<phase, scan, memory>>

Init ==
  /\ phase = "idle"
  /\ scanned = << >>
  /\ sum = 0
  /\ NewCmd = << >>
  /\ CmdLen = 0
  /\ dwRetAddr = Garbage
  /\ m_dwHookAddr = FALSE
  /\ m_OldCode = "none"
  /\ target = "original"
  /\ shellCode = FALSE

-----------------------------------------------------------------------------
(* AddHook *)

\* VirtualProtect or VirtualAlloc fails: AddHook returns false, before or
\* after it has saved the old code.
AddHookDenied ==
  /\ phase = "idle"
  /\ phase' = "false"
  /\ m_OldCode' \in {m_OldCode, target}
  /\ UNCHANGED <<scan, target, shellCode>>

\* The old code is saved and the loop begins.
AddHookBegin ==
  /\ phase = "idle"
  /\ phase' = "scan"
  /\ m_OldCode' = target
  /\ UNCHANGED <<scan, target, shellCode>>

\* Mutant: the trampoline returns behind the five bytes of the jump.
PassReturnsBehindJmp(i) ==
  /\ scanned' = Append(scanned, i)
  /\ sum' = sum + i.len
  /\ IF sum + i.len >= JmpSize
     THEN dwRetAddr' = JmpSize /\ m_dwHookAddr' = TRUE /\ phase' = "write"
     ELSE UNCHANGED <<dwRetAddr, m_dwHookAddr, phase>>

\* Mutant: the loop makes room for a jump of 14 bytes.
PassLong(i) ==
  /\ scanned' = Append(scanned, i)
  /\ sum' = sum + i.len
  /\ IF sum + i.len >= 14
     THEN dwRetAddr' = sum + i.len /\ m_dwHookAddr' = TRUE /\ phase' = "write"
     ELSE UNCHANGED <<dwRetAddr, m_dwHookAddr, phase>>

\* The end of a turn: the loop is over once the jump has room.
Pass(i) ==
  /\ scanned' = Append(scanned, i)
  /\ sum' = sum + i.len
  /\ IF sum + i.len >= JmpSize
     THEN dwRetAddr' = sum + i.len /\ m_dwHookAddr' = TRUE /\ phase' = "write"
     ELSE UNCHANGED <<dwRetAddr, m_dwHookAddr, phase>>

\* Mutant: the offset is computed in wider integers and does not wrap.
OffsetUnwrapped(i, size) == i.dest - (Trampoline + CmdLen) - size

\* The offset that leads i's branch to its destination, from an instruction of
\* that size at CmdLen.
Offset(i, size) == (i.dest - (Trampoline + CmdLen) - size) % AddressSpace

Emit(i, size, offset) ==
  /\ NewCmd' = Append(NewCmd, [of |-> Len(scanned) + 1, at |-> CmdLen,
                               size |-> size, offset |-> offset])
  /\ CmdLen' = CmdLen + size

\* Not a branch, an indirect one or a return: copied as it is.
Copy(i) ==
  /\ phase = "scan"
  /\ i.branch # "relative"
  /\ Emit(i, i.len, 0)
  /\ Pass(i)
  /\ UNCHANGED memory

\* A short jmp becomes a near one.
MoveShortJmp(i) ==
  /\ phase = "scan"
  /\ i.branch = "relative" /\ i.len = 2 /\ i.opcode = "jmp"
  /\ Emit(i, 5, Offset(i, 5))
  /\ Pass(i)
  /\ UNCHANGED memory

\* Mutant: the offset of the conditional jump is that of a jmp.
MoveShortJccAsJmp(i) ==
  /\ phase = "scan"
  /\ i.branch = "relative" /\ i.len = 2 /\ i.opcode = "jcc"
  /\ Emit(i, 6, Offset(i, 5))
  /\ Pass(i)
  /\ UNCHANGED memory

\* A short conditional jump becomes a near one.
MoveShortJcc(i) ==
  /\ phase = "scan"
  /\ i.branch = "relative" /\ i.len = 2 /\ i.opcode = "jcc"
  /\ Emit(i, 6, Offset(i, 6))
  /\ Pass(i)
  /\ UNCHANGED memory

\* A near jmp or call keeps its size.
MoveNear(i) ==
  /\ phase = "scan"
  /\ i.branch = "relative" /\ i.len = 5
  /\ Emit(i, 5, Offset(i, 5))
  /\ Pass(i)
  /\ UNCHANGED memory

\* A relative branch of any other length (a near jcc has six bytes): nothing
\* is written for it.
Drop(i) ==
  /\ phase = "scan"
  /\ i.branch = "relative" /\ i.len \notin {2, 5}
  /\ UNCHANGED <<NewCmd, CmdLen>>
  /\ Pass(i)
  /\ UNCHANGED memory

\* loop or jecxz: sum = 0 and break.
BreakOff(i) ==
  /\ phase = "scan"
  /\ i.branch = "relative" /\ i.len = 2 /\ i.opcode = "other"
  /\ sum' = 0
  /\ phase' = "write"
  /\ UNCHANGED <<scanned, NewCmd, CmdLen, dwRetAddr, m_dwHookAddr, memory>>

\* The disassembler does not know the instruction: AddHook returns false.
DisasmFails ==
  /\ phase = "scan"
  /\ phase' = "false"
  /\ UNCHANGED <<scan, memory>>

\* The moved instructions and a push-and-return to dwRetAddr complete the
\* trampoline.
WriteShellCode ==
  /\ phase = "write"
  /\ shellCode' = TRUE
  /\ phase' = "patch"
  /\ UNCHANGED <<scan, m_OldCode, target>>

\* The jump is written over the target; AddHook returns true.
Patch ==
  /\ phase = "patch"
  /\ target' = "jmp"
  /\ phase' = "true"
  /\ UNCHANGED <<scan, m_OldCode, shellCode>>

-----------------------------------------------------------------------------
(* RemoveHook *)

\* RemoveHook puts the saved code back; without a saved address it does
\* nothing.
RemoveHook ==
  /\ phase \in {"true", "false"}
  /\ IF m_dwHookAddr
     THEN target' = m_OldCode /\ phase' = "removed"
     ELSE UNCHANGED target /\ phase' = "not removed"
  /\ UNCHANGED <<scan, m_OldCode, shellCode>>

-----------------------------------------------------------------------------
Turn(i) ==
  Copy(i) \/ MoveShortJmp(i) \/ MoveShortJcc(i) \/ MoveNear(i) \/ Drop(i) \/ BreakOff(i)

AddHook ==
  \/ AddHookDenied \/ AddHookBegin
  \/ \E i \in Instrs : Turn(i)
  \/ DisasmFails \/ WriteShellCode \/ Patch

Next == AddHook \/ RemoveHook

Spec == Init /\ [][Next]_vars

-----------------------------------------------------------------------------
(* Properties *)

TypeOK ==
  /\ phase \in {"idle", "scan", "write", "patch", "true", "false", "removed",
                "not removed"}
  /\ scanned \in Seq(Instrs)
  /\ sum \in Nat
  /\ NewCmd \in Seq([of : Nat, at : Nat, size : 1 .. MaxInstr,
                     offset : 0 .. AddressSpace - 1])
  /\ CmdLen \in Nat
  /\ dwRetAddr \in Nat \cup {Garbage}
  /\ m_dwHookAddr \in BOOLEAN
  /\ m_OldCode \in {"none", "original", "jmp"}
  /\ target \in {"original", "jmp"}
  /\ shellCode \in BOOLEAN

\* Sizes of the arrays NewCmd and ShellCode, of ShellCode's head and of the
\* push-and-return at its end.
NewCmdSize == 32
ShellCodeSize == 64
HeadSize == 12
PushRetSize == 6

\* Moved instructions may be longer than the ones they stand for, yet they
\* never outgrow the two arrays on AddHook's stack.
NewCmdFits ==
  /\ CmdLen <= NewCmdSize
  /\ HeadSize + CmdLen + PushRetSize <= ShellCodeSize

\* The instructions that AddHook does not move.
Unmoved(i) ==
  i.branch = "relative" /\ i.len # 5 /\ ~(i.len = 2 /\ i.opcode \in {"jmp", "jcc"})

\* The length of the first n instructions scanned.
LengthOf(n) ==
  LET length[k \in 0 .. n] == IF k = 0 THEN 0 ELSE length[k - 1] + scanned[k].len
  IN  length[n]

\* At no moment does the target jump to a trampoline that is not written yet.
TrampolineFirst == target = "jmp" => shellCode

\* A target that jumps to the trampoline loses nothing: every instruction that
\* the jump overwrites, in part or whole, has been moved, once and in order,
\* one behind the other, and the trampoline returns right behind the last of
\* them.  Said of the instructions that AddHook can move; the trampoline is written
\* before the jump to it in any case.
TrampolineRunsOriginals ==
  /\ TrampolineFirst
  /\ target = "jmp" /\ dwRetAddr # Garbage /\ (\A n \in DOMAIN scanned : ~Unmoved(scanned[n])) =>
    /\ Len(NewCmd) = Len(scanned)
    /\ \A n \in DOMAIN NewCmd : NewCmd[n].of = n
    /\ \A n \in 2 .. Len(NewCmd) : NewCmd[n].at = NewCmd[n - 1].at + NewCmd[n - 1].size
    /\ dwRetAddr = LengthOf(Len(scanned))
    /\ dwRetAddr >= JmpSize

\* A relative branch leads from the trampoline to where it led from the target.
BranchesKeepTargets ==
  \A n \in DOMAIN NewCmd :
    LET e == NewCmd[n]
        i == scanned[e.of]
    IN  i.branch = "relative" =>
          (Trampoline + e.at + e.size + e.offset) % AddressSpace = i.dest

\* A hook that RemoveHook reports as removed leaves the target as it was.
RemovedIsOriginal == phase = "removed" => target = "original"

=============================================================================
