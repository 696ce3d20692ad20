--------------------------- MODULE HookPatchProofs ---------------------------
(* HookPatch for every layout, every number of callers and every moment at   *)
(* which the system calls stop working.  The argument: HookFunction writes   *)
(* the entry last, so that a caller can only be inside the stub when all of  *)
(* it is written (EntryLast, InsideOnly); what each word then does is        *)
(* PpcProofs.                                                                *)
EXTENDS HookPatch, PpcProofs

\* What the words of the stub, and the first one of the original, become.
StubWord(i) ==
  <<FirstWord,
    B(Orig(1), Stub(1)),
    LIS(2, Upper(layout["pluginToc"])),
    ORI(2, 2, Lower(layout["pluginToc"])),
    B(layout["hook"], Stub(4))>>[i + 1]
Entry == B(Stub(2), Orig(0))

\* The assumption on layouts, taken apart.
LEMMA Placed ==
  ASSUME layout \in Layouts
  PROVE  /\ layout["orig"] \in Nat /\ layout["stub"] \in Nat /\ layout["hook"] \in Nat
         /\ layout["caller"] \in Nat /\ layout["clientToc"] \in Nat /\ layout["pluginToc"] \in Nat
         /\ layout["orig"] > 0 /\ layout["stub"] > 0 /\ layout["hook"] > 0
         /\ layout["pluginToc"] <= AddressLimit
         /\ layout["orig"] % 4 = 0 /\ layout["stub"] % 4 = 0 /\ layout["hook"] % 4 = 0
         /\ layout["caller"] % 4 = 0
<1>1. \A f \in Fields : layout[f] \in 4 .. AddressLimit
  BY Zenon, LayoutsAssumption
<1>2. \A f \in {"orig", "stub", "hook", "caller"} : layout[f] % 4 = 0
  BY Zenon, LayoutsAssumption
<1>3. \A f \in Fields : layout[f] \in Nat /\ layout[f] > 0 /\ layout[f] <= AddressLimit
  <2> AddressLimit \in Nat
    BY SMT DEF AddressLimit
  <2> QED  BY <1>1
<1> QED  BY <1>2, <1>3 DEF Fields

LEMMA Reachable ==
  ASSUME layout \in Layouts
  PROVE  /\ \A i \in 0 .. 4 :
              /\ Near(Stub(i), Orig(1)) /\ Near(Orig(0), Stub(i)) /\ Near(Stub(i), layout["hook"])
              /\ Stub(i) \notin {Orig(0), Orig(1), layout["hook"]}
         /\ Near(layout["caller"], Orig(0))
         /\ layout["clientToc"] # layout["pluginToc"]
         /\ layout["hook"] \notin {Orig(0), Orig(1)}
<1>1. /\ Orig(0) = layout["orig"] /\ Orig(1) = layout["orig"] + 4
      /\ \A i \in 0 .. 4 : Stub(i) = layout["stub"] + 4 * i
  BY Placed, SMT DEF Orig, Stub
<1>2. \A i \in 0 .. 4 : Stub(i) \in {layout["stub"] + 4 * j : j \in 0 .. 4}
  BY <1>1, SMT
<1>3. \A a \in {layout["stub"] + 4 * j : j \in 0 .. 4} :
         /\ Near(a, layout["orig"] + 4) /\ Near(layout["orig"], a) /\ Near(a, layout["hook"])
         /\ a \notin {layout["orig"], layout["orig"] + 4, layout["hook"]}
  BY LayoutsAssumption, Zenon
<1>4. /\ Near(layout["caller"], layout["orig"])
      /\ layout["clientToc"] # layout["pluginToc"]
      /\ layout["hook"] \notin {layout["orig"], layout["orig"] + 4}
  BY LayoutsAssumption, Zenon
<1> QED  BY <1>1, <1>2, <1>3, <1>4

LEMMA Unmoved ==
  ASSUME layout' = layout
  PROVE  /\ Words' = Words /\ Entry' = Entry
         /\ \A i \in 0 .. 4 : Stub(i)' = Stub(i) /\ StubWord(i)' = StubWord(i)
         /\ Orig(0)' = Orig(0) /\ Orig(1)' = Orig(1)
         /\ \A a : StageOf(a)' = StageOf(a)
BY DEF Words, Entry, Stub, Orig, StubWord, StageOf

LEMMA Addresses ==
  ASSUME layout \in Layouts
  PROVE  /\ \A i \in 0 .. 4 : Stub(i) \in Nat /\ Stub(i) % 4 = 0 /\ Stub(i) # 0
         /\ \A i, j \in 0 .. 4 : Stub(i) = Stub(j) => i = j
         /\ \A i \in 0 .. 3 : Stub(i) + 4 = Stub(i + 1)
         /\ Orig(0) \in Nat /\ Orig(0) % 4 = 0 /\ Orig(0) # 0
         /\ Orig(1) = Orig(0) + 4 /\ Orig(1) \in Nat /\ Orig(1) % 4 = 0 /\ Orig(1) # 0
         /\ layout["hook"] # 0
<1>1. \A i \in 0 .. 4 : Stub(i) = layout["stub"] + 4 * i
  BY DEF Stub
<1>2. Orig(0) = layout["orig"] /\ Orig(1) = layout["orig"] + 4
  BY Placed DEF Orig
<1>3. ASSUME NEW n \in Nat, n % 4 = 0, NEW i \in 0 .. 4
      PROVE  (n + 4 * i) % 4 = 0
  BY <1>3, SMT
<1>4. \A i \in 0 .. 4 : Stub(i) \in Nat /\ Stub(i) % 4 = 0 /\ Stub(i) # 0
  <2> TAKE i \in 0 .. 4
  <2>1. Stub(i) = layout["stub"] + 4 * i
    BY <1>1
  <2>2. layout["stub"] \in Nat /\ layout["stub"] > 0
    BY Placed
  <2>3. Stub(i) % 4 = 0
    BY <2>1, <1>3, Placed
  <2> QED  BY <2>1, <2>2, <2>3, SMT
<1>5. \A i, j \in 0 .. 4 : Stub(i) = Stub(j) => i = j
  <2>1. layout["stub"] \in Nat
    BY Placed
  <2>2. ASSUME NEW i \in 0 .. 4, NEW j \in 0 .. 4,
               layout["stub"] + 4 * i = layout["stub"] + 4 * j
        PROVE  i = j
    BY <2>1, <2>2, SMT
  <2> QED  BY <1>1, <2>2, Zenon
<1>6. \A i \in 0 .. 3 : Stub(i) + 4 = Stub(i + 1)
  <2>1. layout["stub"] \in Nat
    BY Placed
  <2> QED  BY <2>1, SMT DEF Stub
<1> QED  BY <1>2, <1>3, <1>4, <1>5, <1>6, Placed

\* The words of the stub do what they are there for.
LEMMA Entered ==
  ASSUME layout \in Layouts, NEW toc
  PROVE  Execute(Orig(0), toc, Entry) = <<Stub(2), toc>>
<1>1. Near(Orig(0), Stub(2))
  BY Reachable
<1>2. 0 - Reach <= Stub(2) - Orig(0) /\ Stub(2) - Orig(0) < Reach
  BY <1>1, Addresses, SMT DEF Near, Reach
<1> QED  BY <1>2, Addresses, ExecuteBranch DEF Entry

LEMMA NotYetEntered ==
  ASSUME layout \in Layouts, NEW toc
  PROVE  Execute(Orig(0), toc, FirstWord) = <<Orig(1), toc>>
BY Addresses, ExecuteOther, FirstWordAssumption

LEMMA StubRuns ==
  ASSUME layout \in Layouts, NEW toc
  PROVE  /\ Execute(Stub(0), toc, StubWord(0)) = <<Stub(1), toc>>
         /\ Execute(Stub(1), toc, StubWord(1)) = <<Orig(1), toc>>
         /\ Execute(Stub(2), toc, StubWord(2))
              = <<Stub(3), Upper(layout["pluginToc"]) * HalfWord>>
         /\ Execute(Stub(3), Upper(layout["pluginToc"]) * HalfWord, StubWord(3))
              = <<Stub(4), layout["pluginToc"]>>
         /\ Execute(Stub(4), toc, StubWord(4)) = <<layout["hook"], toc>>
<1> DEFINE plugin == layout["pluginToc"]
<1>1. /\ StubWord(0) = FirstWord /\ StubWord(1) = B(Orig(1), Stub(1))
      /\ StubWord(2) = LIS(2, Upper(plugin)) /\ StubWord(3) = ORI(2, 2, Lower(plugin))
      /\ StubWord(4) = B(layout["hook"], Stub(4))
  BY DEF StubWord
<1>2. plugin \in Nat /\ plugin <= AddressLimit
  BY Placed
<1>3. /\ Upper(plugin) \in Nat /\ Upper(plugin) < HalfWord
      /\ Lower(plugin) \in Nat /\ Lower(plugin) < HalfWord
      /\ Upper(plugin) * HalfWord \in Nat /\ Lower(Upper(plugin) * HalfWord) = 0
      /\ Upper(plugin) * HalfWord + Lower(plugin) = plugin
  <2> HIDE DEF plugin
  <2> QED  BY <1>2, SMT DEF Upper, Lower, HalfWord, AddressLimit
<1>4. /\ Stub(0) + 4 = Stub(1) /\ Stub(2) + 4 = Stub(3) /\ Stub(3) + 4 = Stub(4)
  BY Addresses
<1>5. \A i \in 0 .. 4 : Stub(i) \in Nat /\ Stub(i) % 4 = 0
  BY Addresses
<1>6. Execute(Stub(0), toc, StubWord(0)) = <<Stub(1), toc>>
  BY <1>1, <1>4, <1>5, ExecuteOther, FirstWordAssumption
<1>7. Execute(Stub(1), toc, StubWord(1)) = <<Orig(1), toc>>
  <2>1. Near(Stub(1), Orig(1))
    BY Reachable
  <2>2. 0 - Reach <= Orig(1) - Stub(1) /\ Orig(1) - Stub(1) < Reach
    BY <2>1, Addresses, SMT DEF Near, Reach
  <2> QED  BY <2>2, <1>1, Addresses, ExecuteBranch
<1>8. Execute(Stub(2), toc, StubWord(2)) = <<Stub(3), Upper(plugin) * HalfWord>>
  <2> HIDE DEF plugin
  <2> QED  BY <1>1, <1>3, <1>4, <1>5, ExecuteLoad
<1>9. Execute(Stub(3), Upper(plugin) * HalfWord, StubWord(3)) = <<Stub(4), plugin>>
  <2> HIDE DEF plugin
  <2> QED  BY <1>1, <1>3, <1>4, <1>5, ExecuteOr
<1>10. Execute(Stub(4), toc, StubWord(4)) = <<layout["hook"], toc>>
  <2>1. Near(Stub(4), layout["hook"])
    BY Reachable
  <2>2. 0 - Reach <= layout["hook"] - Stub(4) /\ layout["hook"] - Stub(4) < Reach
    BY <2>1, Addresses, Placed, SMT DEF Near, Reach
  <2> QED  BY <2>2, <1>1, Addresses, Placed, ExecuteBranch
<1> QED  BY <1>6, <1>7, <1>8, <1>9, <1>10

LEMMA EntryIsNew ==
  ASSUME layout \in Layouts
  PROVE  Entry # FirstWord /\ Entry \in Nat
<1>1. Stub(2) - Orig(0) \in Int
  BY Addresses
<1>2. /\ (Stub(2) - Orig(0)) % BranchSpan \in Int
      /\ 0 <= (Stub(2) - Orig(0)) % BranchSpan
      /\ (Stub(2) - Orig(0)) % BranchSpan < BranchSpan
  BY <1>1, SMT DEF BranchSpan
<1>3. Entry \in Nat /\ Opcode(Entry) = 18
  BY <1>2, SMT DEF Entry, B, Opcode, BranchSpan
<1> QED  BY <1>3, FirstWordAssumption

LEMMA StubWordsAreNumbers ==
  ASSUME layout \in Layouts, NEW i \in 0 .. 4
  PROVE  StubWord(i) \in Nat
<1>1. \A a, b \in Int : B(a, b) \in Nat
  BY SMT DEF B, BranchSpan
<1>2. \A n \in Nat : LIS(2, n) \in Nat /\ ORI(2, 2, n) \in Nat
  BY SMT DEF LIS, ORI, HalfWord
<1>3. Upper(layout["pluginToc"]) \in Nat /\ Lower(layout["pluginToc"]) \in Nat
  BY Placed, SMT DEF Upper, Lower, HalfWord
<1>4. /\ Orig(1) \in Int /\ Stub(1) \in Int /\ Stub(4) \in Int /\ layout["hook"] \in Int
  BY Addresses, Placed
<1>5. B(Orig(1), Stub(1)) \in Nat /\ B(layout["hook"], Stub(4)) \in Nat
  BY <1>1, <1>4
<1>6. /\ LIS(2, Upper(layout["pluginToc"])) \in Nat
      /\ ORI(2, 2, Lower(layout["pluginToc"])) \in Nat
  BY <1>2, <1>3
<1> QED  BY <1>5, <1>6, FirstWordAssumption DEF StubWord

\* What HookFunction writes, when the TOC is set and the original is whole.
LEMMA WritesOfTheHook ==
  ASSUME layout \in Layouts, mem[Orig(0)] = FirstWord, plugin_toc_base = layout["pluginToc"],
         NEW k \in 1 .. 6
  PROVE  HookWrite(k) = IF k = 6 THEN <<Orig(0), Entry>> ELSE <<Stub(k - 1), StubWord(k - 1)>>
<1>1. Near(layout["caller"], Orig(0))
  BY Reachable
<1>2. 0 - Reach <= Orig(0) - layout["caller"] /\ Orig(0) - layout["caller"] < Reach
  BY <1>1, Placed, Addresses, SMT DEF Near, Reach
<1>3. BranchTarget(layout["caller"], BL(Orig(0), layout["caller"])) = Orig(0)
  BY <1>2, Placed, Addresses, BranchArrives
<1>4. layout["orig"] = Orig(0)
  BY Placed DEF Orig
<1>5. Original(0) = Orig(0) /\ Original(1) = Orig(1)
  BY <1>3, <1>4, Addresses DEF Original
<1>6. WordAt(Original(0)) = FirstWord
  BY <1>5 DEF WordAt, Words
<1>7. HookWrite(k) = << <<Stub(0), FirstWord>>,
     <<Stub(1), B(Orig(1), Stub(1))>>,
     <<Stub(2), LIS(2, Upper(layout["pluginToc"]))>>,
     <<Stub(3), ORI(2, 2, Lower(layout["pluginToc"]))>>,
     <<Stub(4), B(layout["hook"], Stub(4))>>,
     <<Orig(0), Entry>> >>[k]
  BY <1>5, <1>6, Zenon DEF HookWrite, HookWrites, Entry
<1>8. k = 1 \/ k = 2 \/ k = 3 \/ k = 4 \/ k = 5 \/ k = 6
  OBVIOUS
<1> QED  BY <1>7, <1>8, SMT DEF StubWord

-----------------------------------------------------------------------------
(* The inductive invariant.                                                  *)

Inside == {Stub(i) : i \in 0 .. 4} \cup {layout["hook"]}

TocFor(a, toc) ==
  /\ a = Stub(3) => toc = Upper(layout["pluginToc"]) * HalfWord
  /\ a \in {Stub(4), layout["hook"]} => toc = layout["pluginToc"]
  /\ a \in {0, Orig(0), Orig(1), Stub(0), Stub(1)} =>
       \/ toc = layout["clientToc"]
       \/ toc = layout["pluginToc"] /\ tocCopied

TocKnown   == hookStep > 2 => plugin_toc_base = layout["pluginToc"]
TocCopied  == hookStep > 1 /\ Writable => tocCopied
StubDone   == \A i \in 0 .. 4 : hookStep > i + 3 /\ Writable => mem[Stub(i)] = StubWord(i)
EntryLast  ==
  \/ mem[Orig(0)] = FirstWord
  \/ /\ mem[Orig(0)] = Entry /\ hookStep = 9 /\ tocCopied
     /\ \A i \in 0 .. 4 : mem[Stub(i)] = StubWord(i)
InsideOnly == \A c \in Callers : pc[c] \in Inside => mem[Orig(0)] # FirstWord
TocHeld    == \A c \in Callers : TocFor(pc[c], r2[c])

HookInv ==
  HookTypeOK /\ TocKnown /\ TocCopied /\ StubDone /\ EntryLast /\ InsideOnly /\ TocHeld

LEMMA HookInvInit == InitHook => HookInv
<1> SUFFICES ASSUME InitHook
             PROVE  HookInv
  OBVIOUS
<1> USE DEF InitHook
<1>1. layout \in Layouts
  OBVIOUS
<1>2. mem[Orig(0)] = FirstWord
  BY DEF Words
<1>3. HookTypeOK
  <2>1. ORI(0, 0, 0) \in Nat
    BY SMT DEF ORI, HalfWord
  <2>2. \A a \in Words : mem[a] \in Nat
    BY <2>1, FirstWordAssumption
  <2>3. layout["clientToc"] \in Nat
    BY <1>1, Placed
  <2>4. syscalls \subseteq Kinds /\ hookStep \in 0 .. 9 /\ plugin_toc_base \in Nat
    BY SMT
  <2>5. should_use_mapi \in BOOLEAN /\ tocCopied \in BOOLEAN
    BY Zenon
  <2>6. /\ pc \in [Callers -> Words \cup {0, layout["hook"], Orig(1)}]
        /\ r2 \in [Callers -> Nat] /\ DOMAIN mem = Words
    BY <2>3
  <2> QED  BY <1>1, <2>2, <2>4, <2>5, <2>6, Zenon DEF HookTypeOK
<1>4. TocHeld
  BY <1>1, Addresses DEF TocHeld, TocFor
<1>5. InsideOnly
  <2> 0 \notin Inside
    BY <1>1, Addresses DEF Inside
  <2> QED  BY DEF InsideOnly
<1> QED  BY <1>2, <1>3, <1>4, <1>5 DEF HookInv, TocKnown, TocCopied, StubDone, EntryLast

\* The loader's steps leave the callers alone.
LEMMA LoaderLeaves ==
  ASSUME HookInv, NEW step, LoaderAt(step)
  PROVE  /\ layout \in Layouts /\ layout' = layout /\ pc' = pc /\ r2' = r2
         /\ hookStep = step /\ hookStep' = step + 1
         /\ Words' = Words /\ Inside' = Inside /\ Entry' = Entry
         /\ Orig(0)' = Orig(0) /\ Orig(1)' = Orig(1)
         /\ \A i \in 0 .. 4 : Stub(i)' = Stub(i) /\ StubWord(i)' = StubWord(i)
<1>1. /\ layout \in Layouts /\ layout' = layout /\ pc' = pc /\ r2' = r2
      /\ hookStep = step /\ hookStep' = step + 1
  BY DEF HookInv, HookTypeOK, LoaderAt, callVars
<1>2. Inside' = Inside
  BY <1>1 DEF Inside, Stub
<1> QED  BY <1>1, <1>2, Unmoved

\* Whatever the callers held, they still do, as the TOC is never taken back.
LEMMA HeldStays ==
  ASSUME HookInv, layout' = layout, pc' = pc, r2' = r2, tocCopied => tocCopied',
         mem[Orig(0)] # FirstWord => mem'[Orig(0)] # FirstWord
  PROVE  TocHeld' /\ InsideOnly'
<1>1. \A a, toc : TocFor(a, toc) => TocFor(a, toc)'
  BY DEF TocFor, Stub, Orig
<1>2. TocHeld'
  BY <1>1 DEF HookInv, TocHeld
<1>3. Inside' = Inside /\ Orig(0)' = Orig(0)
  BY DEF Inside, Stub, Orig
<1> QED  BY <1>2, <1>3 DEF HookInv, InsideOnly

LEMMA CheckKeeps == HookInv /\ MemoryWriteCheck => HookInv'
<1> SUFFICES ASSUME HookInv, MemoryWriteCheck
             PROVE  HookInv'
  OBVIOUS
<1>1. LoaderAt(0) /\ mem' = mem /\ syscalls' = syscalls /\ should_use_mapi' \in BOOLEAN
      /\ plugin_toc_base' = plugin_toc_base /\ tocCopied' = tocCopied
  BY DEF MemoryWriteCheck, tocVars
<1>2. TocHeld' /\ InsideOnly'
  BY <1>1, LoaderLeaves, HeldStays
<1>3. HookTypeOK'
  BY <1>1, LoaderLeaves DEF HookInv, HookTypeOK
<1>4. hookStep' = 1 /\ mem[Orig(0)] = FirstWord
  BY <1>1, LoaderLeaves DEF HookInv, EntryLast
<1>5. EntryLast' /\ TocKnown' /\ TocCopied' /\ StubDone'
  BY <1>1, <1>4, LoaderLeaves DEF EntryLast, TocKnown, TocCopied, StubDone
<1> QED  BY <1>2, <1>3, <1>5 DEF HookInv

LEMMA CopyKeeps == HookInv /\ CopyToc => HookInv'
<1> SUFFICES ASSUME HookInv, CopyToc
             PROVE  HookInv'
  OBVIOUS
<1>1. LoaderAt(1) /\ mem' = mem /\ Writable' = Writable /\ tocCopied' = Written(tocCopied, TRUE)
      /\ plugin_toc_base' = plugin_toc_base /\ syscalls' = syscalls
      /\ should_use_mapi' = should_use_mapi
  BY DEF CopyToc, kernelVars, Writable
<1>2. tocCopied' \in BOOLEAN /\ (tocCopied => tocCopied') /\ (Writable => tocCopied')
  BY <1>1 DEF Written, HookInv, HookTypeOK
<1>3. TocHeld' /\ InsideOnly'
  BY <1>1, <1>2, LoaderLeaves, HeldStays
<1>4. HookTypeOK'
  <2>1. hookStep' \in 0 .. 9
    BY <1>1, LoaderLeaves
  <2>2. /\ layout' \in Layouts /\ DOMAIN mem' = Words' /\ \A a \in Words' : mem'[a] \in Nat
        /\ syscalls' \subseteq Kinds /\ should_use_mapi' \in BOOLEAN /\ plugin_toc_base' \in Nat
        /\ pc' \in [Callers -> Words' \cup {0, layout'["hook"], Orig(1)'}]
        /\ r2' \in [Callers -> Nat]
    BY <1>1, LoaderLeaves, Zenon DEF HookInv, HookTypeOK
  <2> QED  BY <1>2, <2>1, <2>2, Zenon DEF HookTypeOK
<1>5. hookStep' = 2 /\ mem[Orig(0)] = FirstWord
  BY <1>1, LoaderLeaves DEF HookInv, EntryLast
<1>6. EntryLast' /\ TocKnown' /\ TocCopied' /\ StubDone'
  <2>1. EntryLast' /\ TocKnown' /\ StubDone'
    <3> mem' = mem
      BY <1>1
    <3> QED  BY <1>5, <1>1, LoaderLeaves DEF EntryLast, TocKnown, StubDone
  <2>2. TocCopied'
    BY <1>1, <1>2, Zenon DEF TocCopied
  <2> QED  BY <2>1, <2>2
<1> QED  BY <1>3, <1>4, <1>6 DEF HookInv

LEMMA TocBaseKeeps == HookInv /\ SetPluginTOCBase => HookInv'
<1> SUFFICES ASSUME HookInv, SetPluginTOCBase
             PROVE  HookInv'
  OBVIOUS
<1>1. LoaderAt(2) /\ mem' = mem /\ Writable' = Writable /\ tocCopied' = tocCopied
      /\ plugin_toc_base' = layout["pluginToc"] /\ syscalls' = syscalls
      /\ should_use_mapi' = should_use_mapi
  BY DEF SetPluginTOCBase, kernelVars, Writable
<1>2. TocHeld' /\ InsideOnly'
  BY <1>1, LoaderLeaves, HeldStays
<1>3. layout["pluginToc"] \in Nat
  BY <1>1, LoaderLeaves, Placed
<1>4. HookTypeOK'
  BY <1>1, <1>3, LoaderLeaves DEF HookInv, HookTypeOK
<1>5. hookStep' = 3 /\ mem[Orig(0)] = FirstWord
  BY <1>1, LoaderLeaves DEF HookInv, EntryLast
<1>6. EntryLast' /\ TocKnown' /\ TocCopied' /\ StubDone'
  BY <1>1, <1>5, LoaderLeaves DEF HookInv, EntryLast, TocKnown, TocCopied, StubDone
<1> QED  BY <1>2, <1>4, <1>6 DEF HookInv

\* The heart of it: the words behind the entry are there before the entry is.
LEMMA WriteKeeps == HookInv /\ HookFunction => HookInv'
<1> SUFFICES ASSUME HookInv, HookFunction
             PROVE  HookInv'
  OBVIOUS
<1>1. PICK k \in 1 .. 6 :
        /\ LoaderAt(k + 2)
        /\ mem' = [a \in Words |-> IF a = HookWrite(k)[1] THEN Written(mem[a], HookWrite(k)[2])
                                   ELSE mem[a]]
        /\ UNCHANGED <<kernelVars, tocVars>>
  BY DEF HookFunction
<1>2. /\ Writable' = Writable /\ tocCopied' = tocCopied /\ plugin_toc_base' = plugin_toc_base
      /\ syscalls' = syscalls /\ should_use_mapi' = should_use_mapi
  BY <1>1 DEF kernelVars, tocVars, Writable
<1>3. layout \in Layouts /\ hookStep = k + 2 /\ hookStep' = k + 3
  BY <1>1, LoaderLeaves
<1>4. mem[Orig(0)] = FirstWord
  BY <1>3 DEF HookInv, EntryLast
<1>5. plugin_toc_base = layout["pluginToc"]
  BY <1>3 DEF HookInv, TocKnown
<1>6. HookWrite(k) = IF k = 6 THEN <<Orig(0), Entry>> ELSE <<Stub(k - 1), StubWord(k - 1)>>
  BY <1>3, <1>4, <1>5, WritesOfTheHook
<1>7. Orig(0) \in Words /\ \A i \in 0 .. 4 : Stub(i) \in Words /\ Stub(i) # Orig(0)
  BY <1>3, Reachable DEF Words
<1>8. HookTypeOK'
  <2>1. HookWrite(k)[2] \in Nat
    BY <1>3, <1>6, EntryIsNew, StubWordsAreNumbers
  <2>2. \A a \in Words : mem'[a] \in Nat
    BY <1>1, <2>1 DEF Written, HookInv, HookTypeOK
  <2>3. hookStep' \in 0 .. 9
    BY <1>3
  <2>4. layout' = layout /\ pc' = pc /\ r2' = r2 /\ Words' = Words /\ Orig(1)' = Orig(1)
    BY <1>1, LoaderLeaves
  <2>5. DOMAIN mem' = Words
    BY <1>1
  <2> QED  BY <1>2, <2>2, <2>3, <2>4, <2>5 DEF HookInv, HookTypeOK
<1>9. TocHeld' /\ InsideOnly'
  BY <1>1, <1>2, <1>4, LoaderLeaves, HeldStays
<1>10. ASSUME NEW i \in 0 .. 4, k > i, Writable
       PROVE  mem'[Stub(i)] = StubWord(i)
  <2>1. CASE k = i + 1
    <3>1. HookWrite(k) = <<Stub(i), StubWord(i)>>
      BY <2>1, <1>6
    <3> QED  BY <3>1, <1>1, <1>7, <1>10 DEF Written
  <2>2. CASE k > i + 1
    <3>1. mem[Stub(i)] = StubWord(i)
      BY <2>2, <1>3, <1>10 DEF HookInv, StubDone
    <3>2. HookWrite(k)[1] # Stub(i)
      <4>1. CASE k = 6
        BY <4>1, <1>6, <1>7
      <4>2. CASE k # 6
        <5>1. k - 1 \in 0 .. 4 /\ k - 1 # i /\ HookWrite(k)[1] = Stub(k - 1)
          BY <4>2, <2>2, <1>6
        <5> QED  BY <5>1, <1>3, Addresses
      <4> QED  BY <4>1, <4>2
    <3> QED  BY <3>1, <3>2, <1>1, <1>7
  <2> QED  BY <2>1, <2>2, <1>10
<1>11. StubDone'
  <2>1. \A i \in 0 .. 4 : Stub(i)' = Stub(i) /\ StubWord(i)' = StubWord(i)
    BY <1>1, LoaderLeaves
  <2>2. ASSUME NEW i \in 0 .. 4, hookStep' > i + 3, Writable'
        PROVE  mem'[Stub(i)] = StubWord(i)
    BY <2>2, <1>2, <1>3, <1>10
  <2> QED  BY <2>1, <2>2 DEF StubDone
<1>12. EntryLast'
  <2>1. /\ Orig(0)' = Orig(0) /\ Entry' = Entry
        /\ \A i \in 0 .. 4 : Stub(i)' = Stub(i) /\ StubWord(i)' = StubWord(i)
    BY <1>1, LoaderLeaves
  <2>2. CASE k = 6 /\ Writable
    <3>1. mem'[Orig(0)] = Entry
      BY <2>2, <1>1, <1>6, <1>7 DEF Written
    <3>2. \A i \in 0 .. 4 : mem'[Stub(i)] = StubWord(i)
      BY <2>2, <1>10
    <3>3. tocCopied' /\ hookStep' = 9
      BY <2>2, <1>2, <1>3 DEF HookInv, TocCopied
    <3> QED  BY <2>1, <3>1, <3>2, <3>3 DEF EntryLast
  <2>3. CASE k = 6 /\ ~Writable
    BY <2>1, <2>3, <1>1, <1>4, <1>7 DEF Written, EntryLast
  <2>4. CASE k # 6
    <3>1. k - 1 \in 0 .. 4 /\ HookWrite(k)[1] = Stub(k - 1)
      BY <2>4, <1>6
    <3>2. HookWrite(k)[1] # Orig(0)
      BY <3>1, <1>7
    <3> QED  BY <2>1, <3>2, <1>1, <1>4, <1>7 DEF EntryLast
  <2> QED  BY <2>2, <2>3, <2>4
<1>13. TocKnown' /\ TocCopied'
  <2> layout' = layout
    BY <1>1, LoaderLeaves
  <2> QED  BY <1>2, <1>3, <1>5 DEF HookInv, TocKnown, TocCopied
<1> QED  BY <1>8, <1>9, <1>11, <1>12, <1>13 DEF HookInv

LEMMA DisableKeeps == HookInv /\ DisableSyscalls => HookInv'
<1> SUFFICES ASSUME HookInv, DisableSyscalls
             PROVE  HookInv'
  OBVIOUS
<1>1. /\ layout' = layout /\ mem' = mem /\ should_use_mapi' = should_use_mapi
      /\ plugin_toc_base' = plugin_toc_base /\ tocCopied' = tocCopied /\ hookStep' = hookStep
      /\ pc' = pc /\ r2' = r2 /\ syscalls' = {} /\ ~Writable'
  BY DEF DisableSyscalls, tocVars, callVars, Writable
<1>2. TocHeld' /\ InsideOnly'
  BY <1>1, HeldStays
<1>3. /\ Words' = Words /\ Orig(0)' = Orig(0) /\ Orig(1)' = Orig(1) /\ Entry' = Entry
      /\ \A i \in 0 .. 4 : Stub(i)' = Stub(i) /\ StubWord(i)' = StubWord(i)
  BY <1>1, Unmoved
<1>4. HookTypeOK'
  BY <1>1, <1>3 DEF HookInv, HookTypeOK
<1>5. EntryLast' /\ TocKnown' /\ TocCopied' /\ StubDone'
  BY <1>1, <1>3 DEF HookInv, EntryLast, TocKnown, TocCopied, StubDone
<1> QED  BY <1>2, <1>4, <1>5 DEF HookInv

-----------------------------------------------------------------------------
(* The callers, one move at a time.                                          *)

LEMMA StagesOfAddresses ==
  ASSUME layout \in Layouts
  PROVE  /\ StageOf(0) = "idle" /\ StageOf(Orig(0)) = "called"
         /\ StageOf(Stub(2)) = "hooked" /\ StageOf(Stub(3)) = "hooked"
         /\ StageOf(Stub(4)) = "hooked" /\ StageOf(layout["hook"]) = "hooked"
         /\ StageOf(Stub(0)) = "calling"
         /\ StageOf(Stub(1)) = "body" /\ StageOf(Orig(1)) = "body"
<1>1. /\ Stub(0) # Stub(1) /\ Stub(0) \notin {Stub(2), Stub(3), Stub(4)}
      /\ Stub(1) \notin {Stub(2), Stub(3), Stub(4)}
  BY Addresses
<1>2. /\ \A i \in 0 .. 4 : Stub(i) # 0 /\ Stub(i) \notin {Orig(0), Orig(1), layout["hook"]}
      /\ Orig(0) # 0 /\ Orig(1) # 0 /\ Orig(0) # Orig(1)
      /\ layout["hook"] \notin {0, Orig(0), Orig(1)}
  BY Addresses, Reachable
<1>3. /\ Stub(0) # 0 /\ Stub(1) # 0 /\ Stub(2) # 0 /\ Stub(3) # 0 /\ Stub(4) # 0
      /\ Stub(0) \notin {Orig(0), Orig(1), layout["hook"]}
      /\ Stub(1) \notin {Orig(0), Orig(1), layout["hook"]}
      /\ Stub(2) \notin {Orig(0), Orig(1), layout["hook"]}
      /\ Stub(3) \notin {Orig(0), Orig(1), layout["hook"]}
      /\ Stub(4) \notin {Orig(0), Orig(1), layout["hook"]}
  BY <1>2
<1> QED  BY <1>1, <1>2, <1>3 DEF StageOf

\* A jump that keeps the invariant, and is a step of the abstract hook.
Sound(from, to, toc) ==
  /\ to \in Words \cup {0, layout["hook"], Orig(1)} /\ toc \in Nat
  /\ to \in Inside => mem[Orig(0)] # FirstWord
  /\ TocFor(to, toc)
  /\ \/ StageOf(to) = StageOf(from)
     \/ StageOf(from) = "idle" /\ StageOf(to) = "called"
     \/ /\ StageOf(from) = "called"
        /\ StageOf(to) = IF mem[Orig(0)] # FirstWord THEN "hooked" ELSE "body"
     \/ StageOf(from) = "hooked" /\ StageOf(to) = "calling"
     \/ StageOf(from) = "calling" /\ StageOf(to) = "body"
     \/ StageOf(from) = "body" /\ StageOf(to) = "idle"

LEMMA FetchSound ==
  ASSUME HookInv, NEW c \in Callers, NEW a \in Words, pc[c] = a
  PROVE  Sound(a, Execute(a, r2[c], mem[a])[1], Execute(a, r2[c], mem[a])[2])
<1>1. layout \in Layouts /\ r2[c] \in Nat
  BY DEF HookInv, HookTypeOK
<1>2. TocFor(a, r2[c])
  BY DEF HookInv, TocHeld
<1>3. a = Orig(0) \/ a \in {Stub(i) : i \in 0 .. 4}
  BY DEF Words
<1>4. CASE a = Orig(0) /\ mem[Orig(0)] = FirstWord
  <2>1. Execute(a, r2[c], mem[a]) = <<Orig(1), r2[c]>>
    BY <1>1, <1>4, NotYetEntered
  <2>2. TocFor(Orig(1), r2[c])
    BY <1>1, <1>2, <1>4, Addresses, Reachable DEF TocFor
  <2>3. Orig(1) \notin Inside
    BY <1>1, Reachable DEF Inside
  <2> QED  BY <2>1, <2>2, <2>3, <1>1, <1>4, StagesOfAddresses DEF Sound
<1>5. CASE a = Orig(0) /\ mem[Orig(0)] # FirstWord
  <2>1. mem[Orig(0)] = Entry
    BY <1>5 DEF HookInv, EntryLast
  <2>2. Execute(a, r2[c], mem[a]) = <<Stub(2), r2[c]>>
    BY <1>1, <1>5, <2>1, Entered
  <2>3. TocFor(Stub(2), r2[c])
    BY <1>1, Addresses, Reachable DEF TocFor
  <2>4. Stub(2) \in Words
    BY DEF Words
  <2> QED  BY <2>2, <2>3, <2>4, <1>1, <1>5, StagesOfAddresses DEF Sound
<1>6. CASE a \in {Stub(i) : i \in 0 .. 4}
  <2>1. mem[Orig(0)] # FirstWord
    BY <1>6 DEF HookInv, InsideOnly, Inside
  <2>2. tocCopied /\ \A i \in 0 .. 4 : mem[Stub(i)] = StubWord(i)
    BY <2>1 DEF HookInv, EntryLast
  <2>3. \A i \in 0 .. 4 : Stub(i) \in Words
    BY DEF Words
  <2>4. /\ Upper(layout["pluginToc"]) * HalfWord \in Nat /\ layout["pluginToc"] \in Nat
    <3>1. layout["pluginToc"] \in Nat
      BY <1>1, Placed
    <3>2. Upper(layout["pluginToc"]) * HalfWord \in Nat
      BY <3>1, SMT DEF Upper, HalfWord
    <3> QED  BY <3>1, <3>2
  <2>5. CASE a = Stub(0)
    <3>1. Execute(a, r2[c], mem[a]) = <<Stub(1), r2[c]>>
      BY <2>5, <2>2, <1>1, StubRuns
    <3>2. TocFor(Stub(1), r2[c])
      BY <1>1, <1>2, <2>5, Addresses, Reachable DEF TocFor
    <3> QED  BY <3>1, <3>2, <2>1, <2>3, <2>5, <1>1, StagesOfAddresses DEF Sound
  <2>6. CASE a = Stub(1)
    <3>1. Execute(a, r2[c], mem[a]) = <<Orig(1), r2[c]>>
      BY <2>6, <2>2, <1>1, StubRuns
    <3>2. TocFor(Orig(1), r2[c])
      BY <1>1, <1>2, <2>6, Addresses, Reachable DEF TocFor
    <3> QED  BY <3>1, <3>2, <2>1, <2>6, <1>1, StagesOfAddresses DEF Sound
  <2>7. CASE a = Stub(2)
    <3>1. Execute(a, r2[c], mem[a]) = <<Stub(3), Upper(layout["pluginToc"]) * HalfWord>>
      BY <2>7, <2>2, <1>1, StubRuns
    <3>2. TocFor(Stub(3), Upper(layout["pluginToc"]) * HalfWord)
      BY <1>1, Addresses, Reachable DEF TocFor
    <3> QED  BY <3>1, <3>2, <2>1, <2>3, <2>4, <2>7, <1>1, StagesOfAddresses DEF Sound
  <2>8. CASE a = Stub(3)
    <3>1. r2[c] = Upper(layout["pluginToc"]) * HalfWord
      BY <1>2, <2>8 DEF TocFor
    <3>2. Execute(a, r2[c], mem[a]) = <<Stub(4), layout["pluginToc"]>>
      BY <3>1, <2>8, <2>2, <1>1, StubRuns
    <3>3. TocFor(Stub(4), layout["pluginToc"])
      BY <1>1, Addresses, Reachable DEF TocFor
    <3> QED  BY <3>2, <3>3, <2>1, <2>3, <2>4, <2>8, <1>1, StagesOfAddresses DEF Sound
  <2>9. CASE a = Stub(4)
    <3>1. r2[c] = layout["pluginToc"]
      BY <1>2, <2>9 DEF TocFor
    <3>2. Execute(a, r2[c], mem[a]) = <<layout["hook"], r2[c]>>
      BY <2>9, <2>2, <1>1, StubRuns
    <3>3. TocFor(layout["hook"], r2[c])
      BY <3>1, <1>1, Addresses, Reachable DEF TocFor
    <3> QED  BY <3>2, <3>3, <2>1, <2>9, <1>1, StagesOfAddresses DEF Sound
  <2> QED  BY <1>6, <2>5, <2>6, <2>7, <2>8, <2>9
<1> QED  BY <1>3, <1>4, <1>5, <1>6

\* The same instruction, as a move along the path.
LEMMA FetchForward == HookInv => CallsGoForward
<1> SUFFICES ASSUME HookInv, NEW c \in Callers, NEW a \in Words, pc[c] = a
             PROVE  \E i, j \in 1 .. 9 :
                      /\ i < j
                      /\ CallPath[i] = a /\ CallPath[j] = Execute(a, r2[c], mem[a])[1]
  BY DEF CallsGoForward
<1> DEFINE next == Execute(a, r2[c], mem[a])[1]
<1>1. layout \in Layouts /\ TocFor(a, r2[c])
  BY DEF HookInv, HookTypeOK, TocHeld
<1>2. /\ CallPath[1] = Orig(0) /\ CallPath[2] = Stub(2) /\ CallPath[3] = Stub(3)
      /\ CallPath[4] = Stub(4) /\ CallPath[5] = layout["hook"] /\ CallPath[6] = Stub(0)
      /\ CallPath[7] = Stub(1) /\ CallPath[8] = Orig(1)
  BY DEF CallPath
<1>3. a = Orig(0) \/ a \in {Stub(i) : i \in 0 .. 4}
  BY DEF Words
<1>4. CASE a = Orig(0)
  <2>1. mem[a] = FirstWord => next = CallPath[8]
    BY <1>1, <1>2, <1>4, NotYetEntered
  <2>2. mem[a] # FirstWord => next = CallPath[2]
    BY <1>1, <1>2, <1>4, Entered DEF HookInv, EntryLast
  <2> QED  BY <1>2, <1>4, <2>1, <2>2
<1>5. CASE a \in {Stub(i) : i \in 0 .. 4}
  <2>1. mem[Orig(0)] # FirstWord
    BY <1>5 DEF HookInv, InsideOnly, Inside
  <2>2. \A i \in 0 .. 4 : mem[Stub(i)] = StubWord(i)
    BY <2>1 DEF HookInv, EntryLast
  <2>3. CASE a = Stub(0)
    <3>1. next = CallPath[7]
      BY <1>1, <1>2, <2>2, <2>3, StubRuns
    <3> QED  BY <1>2, <2>3, <3>1
  <2>4. CASE a = Stub(1)
    <3>1. next = CallPath[8]
      BY <1>1, <1>2, <2>2, <2>4, StubRuns
    <3> QED  BY <1>2, <2>4, <3>1
  <2>5. CASE a = Stub(2)
    <3>1. next = CallPath[3]
      BY <1>1, <1>2, <2>2, <2>5, StubRuns
    <3> QED  BY <1>2, <2>5, <3>1
  <2>6. CASE a = Stub(3)
    <3>1. r2[c] = Upper(layout["pluginToc"]) * HalfWord
      BY <1>1, <2>6 DEF TocFor
    <3>2. next = CallPath[4]
      BY <1>1, <1>2, <2>2, <2>6, <3>1, StubRuns
    <3> QED  BY <1>2, <2>6, <3>2
  <2>7. CASE a = Stub(4)
    <3>1. next = CallPath[5]
      BY <1>1, <1>2, <2>2, <2>7, StubRuns
    <3> QED  BY <1>2, <2>7, <3>1
  <2> QED  BY <1>5, <2>3, <2>4, <2>5, <2>6, <2>7
<1> QED  BY <1>3, <1>4, <1>5

LEMMA CallerSound ==
  ASSUME HookInv, NEW c \in Callers, Call(c) \/ InCall(c)
  PROVE  \E from, to, toc : Jump(c, from, to, toc) /\ Sound(from, to, toc)
<1>1. layout \in Layouts /\ r2[c] \in Nat /\ TocFor(pc[c], r2[c])
  BY DEF HookInv, HookTypeOK, TocHeld
<1>2. CASE Call(c)
  <2>1. Jump(c, 0, Orig(0), r2[c]) /\ pc[c] = 0
    BY <1>2 DEF Call, Jump
  <2>2. TocFor(Orig(0), r2[c])
    BY <1>1, <2>1, Addresses, Reachable DEF TocFor
  <2>3. Orig(0) \in Words /\ Orig(0) \notin Inside
    BY <1>1, Reachable DEF Words, Inside
  <2>4. Sound(0, Orig(0), r2[c])
    BY <2>2, <2>3, <1>1, StagesOfAddresses DEF Sound
  <2> QED  BY <2>1, <2>4
<1>3. CASE Fetch(c)
  <2>1. PICK a \in Words :
          Jump(c, a, Execute(a, r2[c], mem[a])[1], Execute(a, r2[c], mem[a])[2])
    BY <1>3, Zenon DEF Fetch
  <2>2. pc[c] = a
    BY <2>1 DEF Jump
  <2> QED  BY <2>1, <2>2, FetchSound, Zenon
<1>4. CASE Hook(c)
  <2>1. Jump(c, layout["hook"], Stub(0), r2[c]) /\ pc[c] = layout["hook"]
    BY <1>4 DEF Hook, Jump
  <2>2. mem[Orig(0)] # FirstWord
    BY <2>1 DEF HookInv, InsideOnly, Inside
  <2>3. tocCopied
    BY <2>2 DEF HookInv, EntryLast
  <2>4. TocFor(Stub(0), r2[c])
    BY <1>1, <2>1, <2>3, Addresses, Reachable DEF TocFor
  <2>5. Stub(0) \in Words
    BY DEF Words
  <2>6. Sound(layout["hook"], Stub(0), r2[c])
    BY <2>2, <2>4, <2>5, <1>1, StagesOfAddresses DEF Sound
  <2> QED  BY <2>1, <2>6
<1>5. CASE Body(c)
  <2>1. Jump(c, Orig(1), 0, r2[c]) /\ pc[c] = Orig(1)
    BY <1>5 DEF Body, Jump
  <2>2. TocFor(0, r2[c])
    BY <1>1, <2>1, Addresses, Reachable DEF TocFor
  <2>3. 0 \notin Inside
    BY <1>1, Addresses DEF Inside
  <2>4. Sound(Orig(1), 0, r2[c])
    BY <2>2, <2>3, <1>1, StagesOfAddresses DEF Sound
  <2> QED  BY <2>1, <2>4
<1> QED  BY <1>2, <1>3, <1>4, <1>5 DEF InCall

LEMMA JumpKeeps ==
  ASSUME HookInv, NEW c \in Callers, NEW from, NEW to, NEW toc,
         Jump(c, from, to, toc), Sound(from, to, toc)
  PROVE  HookInv'
<1>1. /\ layout' = layout /\ mem' = mem /\ syscalls' = syscalls
      /\ should_use_mapi' = should_use_mapi /\ plugin_toc_base' = plugin_toc_base
      /\ tocCopied' = tocCopied /\ hookStep' = hookStep /\ Writable' = Writable
      /\ pc' = [pc EXCEPT ![c] = to] /\ r2' = [r2 EXCEPT ![c] = toc]
  BY DEF Jump, kernelVars, tocVars, Writable
<1>2. /\ Words' = Words /\ Orig(0)' = Orig(0) /\ Orig(1)' = Orig(1) /\ Entry' = Entry
      /\ \A i \in 0 .. 4 : Stub(i)' = Stub(i) /\ StubWord(i)' = StubWord(i)
  BY <1>1, Unmoved
<1>3. Inside' = Inside /\ \A a, t : TocFor(a, t)' = TocFor(a, t)
  BY <1>1 DEF Inside, TocFor, Stub, Orig
<1>4. HookTypeOK'
  BY <1>1, <1>2 DEF HookInv, HookTypeOK, Sound
<1>5. EntryLast' /\ TocKnown' /\ TocCopied' /\ StubDone'
  BY <1>1, <1>2 DEF HookInv, EntryLast, TocKnown, TocCopied, StubDone
<1>6. ASSUME NEW d \in Callers
      PROVE  /\ TocFor(pc'[d], r2'[d])
             /\ pc'[d] \in Inside => mem[Orig(0)] # FirstWord
  <2>1. pc \in [Callers -> Words \cup {0, layout["hook"], Orig(1)}] /\ r2 \in [Callers -> Nat]
    BY DEF HookInv, HookTypeOK
  <2>2. CASE d = c
    <3>1. pc'[d] = to /\ r2'[d] = toc
      BY <1>1, <2>1, <2>2
    <3> QED  BY <3>1 DEF Sound
  <2>3. CASE d # c
    <3>1. pc'[d] = pc[d] /\ r2'[d] = r2[d]
      BY <1>1, <2>1, <2>3
    <3> QED  BY <3>1 DEF HookInv, TocHeld, InsideOnly
  <2> QED  BY <2>2, <2>3
<1>7. TocHeld' /\ InsideOnly'
  BY <1>1, <1>2, <1>3, <1>6 DEF TocHeld, InsideOnly
<1> QED  BY <1>4, <1>5, <1>7 DEF HookInv

LEMMA HookInvNext == HookInv /\ [NextHook]_hookVars => HookInv'
<1> SUFFICES ASSUME HookInv, [NextHook]_hookVars
             PROVE  HookInv'
  OBVIOUS
<1>1. CASE LoaderStep
  BY <1>1, CheckKeeps, CopyKeeps, TocBaseKeeps, WriteKeeps DEF LoaderStep
<1>2. CASE DisableSyscalls
  BY <1>2, DisableKeeps
<1>3. ASSUME NEW c \in Callers, Call(c) \/ InCall(c)
      PROVE  HookInv'
  BY <1>3, CallerSound, JumpKeeps
<1>4. CASE UNCHANGED hookVars
  <2>1. /\ layout' = layout /\ mem' = mem /\ syscalls' = syscalls
        /\ should_use_mapi' = should_use_mapi /\ plugin_toc_base' = plugin_toc_base
        /\ tocCopied' = tocCopied /\ hookStep' = hookStep /\ pc' = pc /\ r2' = r2
    BY <1>4 DEF hookVars, kernelVars, tocVars, callVars
  <2> QED  BY <2>1 DEF HookInv, HookTypeOK, TocKnown, TocCopied, StubDone, EntryLast, InsideOnly,
                       TocHeld, Words, Orig, Stub, Writable, StubWord, Entry, Inside, TocFor
<1> QED  BY <1>1, <1>2, <1>3, <1>4 DEF NextHook

\* In every reachable state the invariant holds, wherever the modules are
\* loaded and whenever the system calls stop working.
THEOREM HookInvariant == SpecHook => []HookInv
BY HookInvInit, HookInvNext, PTL DEF SpecHook

\* The memory, the callers and the loader stay well-typed; above all, a caller
\* never leaves the original, the stub and the hook.
THEOREM HookTypeCorrect == SpecHook => []HookTypeOK
<1>1. HookInv => HookTypeOK
  BY DEF HookInv
<1> QED  BY <1>1, HookInvariant, PTL

\* The hook runs with the plugin's TOC, and the Steam client's code with a TOC
\* that has its entries (ps3_utilities.c:181-185, condenstation.c:447-452).
THEOREM TocAlwaysReady == SpecHook => []TocReady
<1>1. HookInv => TocReady
  BY DEF HookInv, TocHeld, TocFor, TocReady
<1> QED  BY <1>1, HookInvariant, PTL

\* A call only goes forward, whenever it was made and whatever has been
\* written (ps3_utilities.c:172-189): each returns after eight instructions.
THEOREM CallsAlwaysForward == SpecHook => []CallsGoForward
BY HookInvariant, FetchForward, PTL

-----------------------------------------------------------------------------
(* HookFunction implements the hook that is installed at one instant.        *)

LEMMA InitRefines == InitHook => Atomic!Init
<1> SUFFICES ASSUME InitHook
             PROVE  Atomic!Init
  OBVIOUS
<1>1. mem[Orig(0)] = FirstWord
  BY DEF InitHook, Words
<1>2. \A c \in Callers : StageOf(pc[c]) = "idle"
  BY DEF InitHook, StageOf
<1> QED  BY <1>1, <1>2 DEF Atomic!Init

LEMMA LoaderRefines ==
  ASSUME HookInv, HookInv', LoaderStep \/ DisableSyscalls
  PROVE  [Atomic!Next]_Atomic!vars
<1>1. layout' = layout /\ pc' = pc
  BY DEF LoaderStep, MemoryWriteCheck, CopyToc, SetPluginTOCBase, HookFunction, LoaderAt,
         DisableSyscalls, callVars
<1>2. \A a : StageOf(a)' = StageOf(a)
  BY <1>1, Unmoved
<1>3. UNCHANGED [c \in Callers |-> StageOf(pc[c])]
  BY <1>1, <1>2 DEF StageOf, Orig, Stub
<1>4. mem[Orig(0)] # FirstWord => (mem[Orig(0)] # FirstWord)'
  <2> SUFFICES ASSUME mem[Orig(0)] # FirstWord
               PROVE  (mem[Orig(0)] # FirstWord)'
    OBVIOUS
  <2>1. hookStep = 9
    BY DEF HookInv, EntryLast
  <2>2. ~LoaderStep
    BY <2>1 DEF LoaderStep, MemoryWriteCheck, CopyToc, SetPluginTOCBase, HookFunction, LoaderAt
  <2> QED  BY <2>2, <1>1 DEF DisableSyscalls, Orig
<1> QED  BY <1>3, <1>4 DEF Atomic!Next, Atomic!Install, Atomic!vars

LEMMA JumpRefines ==
  ASSUME HookInv, NEW c \in Callers, NEW from, NEW to, NEW toc,
         Jump(c, from, to, toc), Sound(from, to, toc)
  PROVE  [Atomic!Next]_Atomic!vars
<1> DEFINE stage == [d \in Callers |-> StageOf(pc[d])]
<1>1. layout' = layout /\ mem' = mem /\ pc' = [pc EXCEPT ![c] = to] /\ pc[c] = from
  BY DEF Jump
<1>2. pc \in [Callers -> Words \cup {0, layout["hook"], Orig(1)}]
  BY DEF HookInv, HookTypeOK
<1>3. UNCHANGED (mem[Orig(0)] # FirstWord)
  BY <1>1 DEF Orig
<1>4. stage' = [d \in Callers |-> StageOf(pc'[d])]
  BY <1>1 DEF StageOf, Orig, Stub
<1>5. stage' = [stage EXCEPT ![c] = StageOf(to)] /\ stage[c] = StageOf(from)
  <2> HIDE DEF StageOf
  <2> QED  BY <1>1, <1>2, <1>4
<1>6. CASE StageOf(to) = StageOf(from)
  <2>1. stage' = stage
    BY <1>5, <1>6
  <2> QED  BY <1>3, <2>1 DEF Atomic!vars
<1>7. CASE StageOf(to) # StageOf(from)
  <2> HIDE DEF stage
  <2>1. \/ Atomic!Call(c) \/ Atomic!Enter(c) \/ Atomic!CallOriginal(c) \/ Atomic!RunOriginal(c)
        \/ Atomic!Return(c)
    <3> USE DEF stage
    <3> QED  BY <1>3, <1>5, <1>7 DEF Sound, Atomic!Call, Atomic!Enter, Atomic!CallOriginal,
                  Atomic!RunOriginal, Atomic!Return, Atomic!Move
  <2> QED  BY <2>1 DEF Atomic!Next
<1> QED  BY <1>6, <1>7

\* The hook is installed atomically (HooksAtomically): however the writes
\* of HookFunction and the instructions of callers interleave, and wherever the
\* system calls stop working, each call runs the original once, and the hook
\* before it exactly if the hook was installed when the call was made.
THEOREM HookIsAtomic == SpecHook => HooksAtomically
<1>1. HookInv /\ HookInv' /\ [NextHook]_hookVars => [Atomic!Next]_Atomic!vars
  <2> SUFFICES ASSUME HookInv, HookInv', [NextHook]_hookVars
               PROVE  [Atomic!Next]_Atomic!vars
    OBVIOUS
  <2>1. CASE LoaderStep \/ DisableSyscalls
    BY <2>1, LoaderRefines
  <2>2. ASSUME NEW c \in Callers, Call(c) \/ InCall(c)
        PROVE  [Atomic!Next]_Atomic!vars
    BY <2>2, CallerSound, JumpRefines
  <2>3. CASE UNCHANGED hookVars
    BY <2>3 DEF hookVars, callVars, Atomic!vars, StageOf, Orig, Stub
  <2> QED  BY <2>1, <2>2, <2>3 DEF NextHook
<1> QED  BY <1>1, InitRefines, HookInvariant, PTL DEF SpecHook, HooksAtomically, Atomic!Spec

-----------------------------------------------------------------------------
(* What the rest of start-up builds on: the hook and the TOC stay, and the   *)
(* system calls do not come back.                                            *)

Hooked       == mem[Orig(0)] # FirstWord
KindKept     == hookStep > 0 => (Writable <=> syscalls # {})
EntryWritten == hookStep = 9 /\ Writable => Hooked

LEMMA HookGoesOn ==
  ASSUME HookInv, [NextHook]_hookVars
  PROVE  /\ Hooked => Hooked'
         /\ tocCopied => tocCopied'
         /\ syscalls = {} => syscalls' = {}
         /\ hookStep > 0 /\ Writable' => Writable
         /\ KindKept => KindKept'
         /\ EntryWritten => EntryWritten'
<1>0. hookStep \in 0 .. 9 /\ layout \in Layouts /\ syscalls \subseteq Kinds
  BY DEF HookInv, HookTypeOK
<1>1. CASE MemoryWriteCheck
  <2>1. /\ hookStep = 0 /\ hookStep' = 1 /\ mem' = mem /\ Orig(0)' = Orig(0)
        /\ tocCopied' = tocCopied /\ syscalls' = syscalls
    BY <1>1 DEF MemoryWriteCheck, LoaderAt, tocVars, Orig
  <2>2. Writable' <=> syscalls # {}
    <3>1. /\ syscalls' = syscalls
          /\ should_use_mapi' = ("dbg" \notin syscalls /\ "ps3mapi" \in syscalls)
      BY <1>1 DEF MemoryWriteCheck
    <3> QED  BY <1>0, <3>1 DEF Writable, Kinds
  <2>3. KindKept'
    BY <2>1, <2>2, Zenon DEF KindKept
  <2>4. EntryWritten'
    BY <2>1 DEF EntryWritten
  <2> QED  BY <2>1, <2>3, <2>4 DEF Hooked
<1>2. CASE CopyToc
  <2>1. /\ hookStep = 1 /\ hookStep' = 2 /\ mem' = mem /\ Orig(0)' = Orig(0)
        /\ syscalls' = syscalls /\ Writable' = Writable
    BY <1>2 DEF CopyToc, LoaderAt, kernelVars, Orig, Writable
  <2>2. tocCopied => tocCopied'
    BY <1>2, Zenon DEF CopyToc, Written
  <2> QED  BY <2>1, <2>2 DEF Hooked, KindKept, EntryWritten
<1>3. CASE SetPluginTOCBase
  <2>1. /\ hookStep = 2 /\ hookStep' = 3 /\ mem' = mem /\ Orig(0)' = Orig(0)
        /\ tocCopied' = tocCopied /\ syscalls' = syscalls /\ Writable' = Writable
    BY <1>3 DEF SetPluginTOCBase, LoaderAt, kernelVars, Orig, Writable
  <2> QED  BY <2>1 DEF Hooked, KindKept, EntryWritten
<1>4. CASE HookFunction
  <2>1. PICK k \in 1 .. 6 :
          /\ LoaderAt(k + 2)
          /\ mem' = [a \in Words |-> IF a = HookWrite(k)[1] THEN Written(mem[a], HookWrite(k)[2])
                                     ELSE mem[a]]
          /\ UNCHANGED <<kernelVars, tocVars>>
    BY <1>4 DEF HookFunction
  <2>2. /\ hookStep = k + 2 /\ hookStep' = k + 3 /\ Orig(0)' = Orig(0) /\ Writable' = Writable
        /\ tocCopied' = tocCopied /\ syscalls' = syscalls
    BY <2>1 DEF LoaderAt, kernelVars, tocVars, Orig, Writable
  <2>3. ~Hooked /\ plugin_toc_base = layout["pluginToc"]
    BY <2>2 DEF HookInv, EntryLast, TocKnown, Hooked
  <2>4. k = 6 => HookWrite(k) = <<Orig(0), Entry>>
    BY <1>0, <2>3, WritesOfTheHook DEF Hooked
  <2>5. k = 6 /\ Writable => Hooked'
    BY <1>0, <2>1, <2>2, <2>4, EntryIsNew DEF Words, Written, Hooked
  <2> QED  BY <2>2, <2>3, <2>5 DEF KindKept, EntryWritten
<1>5. CASE DisableSyscalls
  <2>1. /\ hookStep' = hookStep /\ mem' = mem /\ Orig(0)' = Orig(0) /\ tocCopied' = tocCopied
        /\ syscalls' = {} /\ ~Writable'
    BY <1>5 DEF DisableSyscalls, tocVars, Orig, Writable
  <2> QED  BY <2>1 DEF Hooked, KindKept, EntryWritten
<1>6. CASE UNCHANGED <<layout, mem, kernelVars, tocVars, hookStep>>
  <2>1. /\ hookStep' = hookStep /\ mem' = mem /\ Orig(0)' = Orig(0) /\ tocCopied' = tocCopied
        /\ syscalls' = syscalls /\ Writable' = Writable
    BY <1>6 DEF kernelVars, tocVars, Orig, Writable
  <2> QED  BY <2>1 DEF Hooked, KindKept, EntryWritten
<1>7. CASE \E c \in Callers : Call(c) \/ InCall(c)
  BY <1>6, <1>7, Zenon DEF Call, InCall, Fetch, Hook, Body, Jump
<1>8. CASE UNCHANGED hookVars
  BY <1>6, <1>8 DEF hookVars
<1> QED  BY <1>1, <1>2, <1>3, <1>4, <1>5, <1>7, <1>8 DEF NextHook, LoaderStep
=============================================================================
