------------------------------ MODULE PpcCode ------------------------------
(* The PowerPC instructions condenstation writes and reads: the macros of    *)
(* ppcasm.h, the branch decoder and the address pairs of                     *)
(* steamclient_utils.c, and the processor that executes the result.  A word  *)
(* is a number; addresses are below 2^31 and instructions are aligned.       *)
EXTENDS Integers

HalfWord   == \h10000
BranchSpan == \h4000000          \* 26 bits of displacement
Reach      == \h2000000          \* half of them forward, half of them back

LIS(dest, val)      == \h3C000000 + dest * \h200000 + (val % HalfWord)
ORI(dest, src, val) == \h60000000 + dest * \h200000 + src * HalfWord + (val % HalfWord)
B(dest, src)        == \h48000000 + ((dest - src) % BranchSpan)
BL(dest, src)       == B(dest, src) + 1

\* The two halves of an address: LIS of the upper and ORI of the lower one.
Upper(address) == address \div HalfWord
Lower(address) == address % HalfWord

\* SCUtils_GetFirstBranchTargetAfterInstruction, once it has found the word:
\* the low two bits are flags, and the upper half of the span is negative.
BranchTarget(address, word) ==
  LET offset == (word % BranchSpan) - (word % 4)
  IN  address + (IF offset >= Reach THEN offset - BranchSpan ELSE offset)

-----------------------------------------------------------------------------
(* lis/addic pairs.  addic sign-extends its operand, so that the compiler    *)
(* puts one more into the lis when the lower half is 0x8000 or above.        *)

Signed(half) == IF half >= \h8000 THEN half - HalfWord ELSE half

\* What the compiler emits for an address: the only pair that loads it.
Compiled(address) == <<Upper(address + \h8000), Lower(address)>>

\* A fault: the carry is forgotten.
PairWithoutCarry(address) == <<Upper(address), Lower(address)>>

\* The pair SCUtils_GetProtobufVtable and SCUtils_FindCCMInterfaceConnect
\* search for.
Pair(address) ==
  <<Upper(address) + (IF Lower(address) >= \h8000 THEN 1 ELSE 0), Lower(address)>>

\* The address SCUtils_FindSteamEngine reads out of a pair.
PairAddress(hi, lo) == (IF lo >= \h8000 THEN hi - 1 ELSE hi) * HalfWord + lo

-----------------------------------------------------------------------------
(* The processor: program counter and r2 after one instruction.  Only the    *)
(* instructions above change anything but the program counter.               *)

Opcode(word) == word \div BranchSpan

\* The upper half of a word names the instruction and its registers.
IsLoad(word) == Upper(word) = Upper(LIS(2, 0))
IsOr(word)   == Upper(word) = Upper(ORI(2, 2, 0))

Execute(pc, r2, word) ==
  IF Opcode(word) = 18 THEN <<BranchTarget(pc, word), r2>>
  ELSE IF IsLoad(word) THEN <<pc + 4, Lower(word) * HalfWord>>
  ELSE IF IsOr(word) /\ Lower(r2) = 0 THEN <<pc + 4, r2 + Lower(word)>>
  ELSE <<pc + 4, r2>>
=============================================================================
