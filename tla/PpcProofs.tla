------------------------------ MODULE PpcProofs ------------------------------
(* What the instructions of PpcCode do, for every address.                   *)
EXTENDS PpcCode, TLAPS

\* The displacement kept in a branch.
LEMMA Residue ==
  ASSUME NEW n \in Int, 0 - Reach <= n, n < Reach
  PROVE  n % BranchSpan = (IF n < 0 THEN n + BranchSpan ELSE n)
BY SMT DEF BranchSpan, Reach

\* A branch and a call, executed where they are written, arrive.
THEOREM BranchArrives ==
  ASSUME NEW src \in Nat, NEW dest \in Nat, src % 4 = 0, dest % 4 = 0,
         0 - Reach <= dest - src, dest - src < Reach
  PROVE  /\ BranchTarget(src, B(dest, src)) = dest
         /\ BranchTarget(src, BL(dest, src)) = dest
<1> DEFINE n == dest - src
<1> DEFINE m == IF n < 0 THEN n + BranchSpan ELSE n
<1>1. n \in Int /\ n % 4 = 0
  BY SMT
<1>2. (dest - src) % BranchSpan = m
  BY <1>1, Residue, SMT
<1>3. m \in Int /\ 0 <= m /\ m < BranchSpan /\ m % 4 = 0
  BY <1>1, SMT DEF BranchSpan, Reach
<1>4. B(dest, src) \in Nat /\ B(dest, src) % BranchSpan = m /\ B(dest, src) % 4 = 0
  <2> HIDE DEF m
  <2> QED  BY <1>2, <1>3, SMT DEF B, BranchSpan
<1>5. BL(dest, src) \in Nat /\ BL(dest, src) % BranchSpan = m + 1 /\ BL(dest, src) % 4 = 1
  <2> HIDE DEF m
  <2> QED  BY <1>2, <1>3, SMT DEF B, BL, BranchSpan
<1>6. BranchTarget(src, B(dest, src)) = dest
  BY <1>1, <1>3, <1>4, SMT DEF BranchTarget, BranchSpan, Reach
<1>7. BranchTarget(src, BL(dest, src)) = dest
  BY <1>1, <1>3, <1>5, SMT DEF BranchTarget, BranchSpan, Reach
<1> QED  BY <1>6, <1>7

\* One instruction of each kind.
LEMMA ExecuteBranch ==
  ASSUME NEW src \in Nat, NEW dest \in Nat, src % 4 = 0, dest % 4 = 0,
         0 - Reach <= dest - src, dest - src < Reach, NEW r2
  PROVE  Execute(src, r2, B(dest, src)) = <<dest, r2>>
<1>1. Opcode(B(dest, src)) = 18
  <2>1. /\ (dest - src) % BranchSpan \in Int
        /\ 0 <= (dest - src) % BranchSpan /\ (dest - src) % BranchSpan < BranchSpan
    BY SMT DEF BranchSpan
  <2> QED BY <2>1, SMT DEF Opcode, B, BranchSpan
<1>2. BranchTarget(src, B(dest, src)) = dest
  BY BranchArrives
<1> QED  BY <1>1, <1>2, SMT DEF Execute

LEMMA ExecuteOther ==
  ASSUME NEW pc \in Nat, NEW r2, NEW word \in Nat, Opcode(word) \notin {15, 18, 24}
  PROVE  Execute(pc, r2, word) = <<pc + 4, r2>>
<1>1. ~IsLoad(word)
  BY SMT DEF Opcode, BranchSpan, IsLoad, Upper, LIS, HalfWord
<1>2. ~IsOr(word)
  BY SMT DEF Opcode, BranchSpan, IsOr, Upper, ORI, HalfWord
<1>3. Opcode(word) # 18
  OBVIOUS
<1> QED  BY <1>1, <1>2, <1>3 DEF Execute

LEMMA ExecuteLoad ==
  ASSUME NEW pc \in Nat, NEW r2, NEW half \in Nat, half < HalfWord
  PROVE  Execute(pc, r2, LIS(2, half)) = <<pc + 4, half * HalfWord>>
<1>1. IsLoad(LIS(2, half))
  BY SMT DEF IsLoad, Upper, LIS, HalfWord
<1>2. Opcode(LIS(2, half)) # 18
  BY SMT DEF LIS, HalfWord, Opcode, BranchSpan
<1>3. Lower(LIS(2, half)) = half
  BY SMT DEF LIS, HalfWord, Lower
<1> QED  BY <1>1, <1>2, <1>3, Zenon DEF Execute

LEMMA ExecuteOr ==
  ASSUME NEW pc \in Nat, NEW r2 \in Nat, Lower(r2) = 0, NEW half \in Nat, half < HalfWord
  PROVE  Execute(pc, r2, ORI(2, 2, half)) = <<pc + 4, r2 + half>>
<1>1. IsOr(ORI(2, 2, half)) /\ ~IsLoad(ORI(2, 2, half))
  BY SMT DEF IsOr, IsLoad, Upper, ORI, LIS, HalfWord
<1>2. Opcode(ORI(2, 2, half)) # 18
  BY SMT DEF ORI, HalfWord, Opcode, BranchSpan
<1>3. Lower(ORI(2, 2, half)) = half
  BY SMT DEF ORI, HalfWord, Lower
<1> QED  BY <1>1, <1>2, <1>3, Zenon DEF Execute

\* The two instructions that load an address, executed one after the other.
THEOREM AddressLoaded ==
  ASSUME NEW pc \in Nat, NEW r2, NEW address \in Nat, Upper(address) < HalfWord
  PROVE  LET high == Execute(pc, r2, LIS(2, Upper(address)))
             low  == Execute(high[1], high[2], ORI(2, 2, Lower(address)))
         IN  low[2] = address
<1>1. Upper(address) \in Nat /\ Lower(address) \in Nat /\ Lower(address) < HalfWord
  BY SMT DEF Upper, Lower, HalfWord
<1>2. Execute(pc, r2, LIS(2, Upper(address))) = <<pc + 4, Upper(address) * HalfWord>>
  BY <1>1, ExecuteLoad
<1>3. /\ Upper(address) * HalfWord \in Nat /\ Lower(Upper(address) * HalfWord) = 0
      /\ Upper(address) * HalfWord + Lower(address) = address
  BY <1>1, SMT DEF Upper, Lower, HalfWord
<1>4. Execute(pc + 4, Upper(address) * HalfWord, ORI(2, 2, Lower(address)))
        = <<pc + 4 + 4, Upper(address) * HalfWord + Lower(address)>>
  <2>1. pc + 4 \in Nat
    OBVIOUS
  <2> QED  BY <2>1, <1>1, <1>3, ExecuteOr
<1> QED  BY <1>2, <1>3, <1>4

\* The pair the plugin searches for is the one the compiler emits.
THEOREM PairIsCompiled ==
  ASSUME NEW address \in Nat
  PROVE  Pair(address) = Compiled(address)
BY SMT DEF Pair, Compiled, Upper, Lower, HalfWord

\* An address read out of a compiled pair is the address.
THEOREM PairAddressInverts ==
  ASSUME NEW address \in Nat
  PROVE  PairAddress(Compiled(address)[1], Compiled(address)[2]) = address
BY SMT DEF PairAddress, Compiled, Upper, Lower, HalfWord
=============================================================================
