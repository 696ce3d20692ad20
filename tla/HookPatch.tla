----------------------------- MODULE HookPatch ------------------------------
(* HookFunction and PS3_Write32: CUtlVector::AddMultipleToTail is hooked by  *)
(* writing its code, one instruction at a time, while threads of the game    *)
(* may be calling it.  The stub of five words in the plugin holds the first  *)
(* instruction of the original with a branch to its second one, and then a   *)
(* jump to the hook that loads the plugin's TOC into r2 first.               *)
(*                                                                           *)
(* A write is a system call, and has no effect when the kind of system call  *)
(* chosen at start-up is not there.  The memory is the first word of the     *)
(* original and the five of the stub; the rest of the original, and the      *)
(* hook, are one step each.                                                  *)
EXTENDS PpcCode, Sequences

CONSTANTS
  Callers,      \* threads of the game that call the hooked function
  Layouts,      \* where the modules may have been loaded
  FirstWord     \* the first instruction of the original, "mflr r0"

\* A layout: the original, the stub and the hook; a bl to the original; the
\* TOCs of the Steam client and of the plugin; and two addresses of data in
\* the Steam client that the plugin rebuilds from instruction pairs.
Fields == {"orig", "stub", "hook", "caller", "clientToc", "pluginToc", "typeName", "engine"}

AddressLimit == \h7FFF0000

Near(a, b) == b - a >= -Reach /\ b - a < Reach

\* What the branches take for granted: everything is within their reach.
ASSUME LayoutsAssumption ==
  \A l \in Layouts :
    /\ DOMAIN l = Fields /\ \A f \in Fields : l[f] \in 4 .. AddressLimit
    /\ \A f \in {"orig", "stub", "hook", "caller"} : l[f] % 4 = 0
    /\ \A a \in {l["stub"] + 4 * i : i \in 0 .. 4} :
         /\ Near(a, l["orig"] + 4) /\ Near(l["orig"], a) /\ Near(a, l["hook"])
         /\ a \notin {l["orig"], l["orig"] + 4, l["hook"]}
    /\ Near(l["caller"], l["orig"])
    /\ l["clientToc"] # l["pluginToc"]
    /\ l["hook"] \notin {l["orig"], l["orig"] + 4}

\* It does the same wherever it stands.
ASSUME FirstWordAssumption == FirstWord \in Nat /\ Opcode(FirstWord) \notin {15, 18, 24}

VARIABLES
  layout,
  mem,                \* the first word of the original, and the stub
  syscalls,           \* the kinds of memory system call that work
  should_use_mapi,
  plugin_toc_base,
  tocCopied,          \* the Steam client's TOC entries are below the plugin's
  hookStep,           \* steps of the loader towards the hook, 9 of them
  pc,                 \* where each caller is, 0 outside the function
  r2                  \* the TOC register of each caller

kernelVars == <<syscalls, should_use_mapi>>
tocVars    == <<plugin_toc_base, tocCopied>>
callVars   == <<pc, r2>>
hookVars   == <<layout, mem, kernelVars, tocVars, hookStep, callVars>>

Orig(i) == layout["orig"] + 4 * i
Stub(i) == layout["stub"] + 4 * i
Words   == {Orig(0)} \cup {Stub(i) : i \in 0 .. 4}

Kinds == {"dbg", "ps3mapi"}

InitHook ==
  /\ layout \in Layouts
  /\ mem = [a \in Words |-> IF a = Orig(0) THEN FirstWord ELSE ORI(0, 0, 0)]
  /\ syscalls \in SUBSET Kinds /\ should_use_mapi = FALSE
  /\ plugin_toc_base = 0 /\ tocCopied = FALSE
  /\ hookStep = 0
  /\ pc = [c \in Callers |-> 0]
  /\ r2 = [c \in Callers |-> layout["clientToc"]]

-----------------------------------------------------------------------------
(* The loader, up to the hook.  PS3_Code, the record of all writes that      *)
(* nothing reads, is left out.                                               *)

LoaderAt(step) == hookStep = step /\ hookStep' = step + 1 /\ UNCHANGED <<layout, callVars>>

\* PS3_MemoryWriteCheck; that neither kind works is returned, and not used.
MemoryWriteCheck ==
  /\ LoaderAt(0)
  /\ should_use_mapi' = ("dbg" \notin syscalls /\ "ps3mapi" \in syscalls)
  /\ UNCHANGED <<mem, syscalls, tocVars>>

\* PS3_Write32 and PS3_WriteMemory.
Writable          == (IF should_use_mapi THEN "ps3mapi" ELSE "dbg") \in syscalls
Written(old, new) == IF Writable THEN new ELSE old

\* A fault: the Steam client's TOC entries are not copied.
CopyTocForgotten == LoaderAt(1) /\ UNCHANGED <<mem, kernelVars, tocVars>>

CopyToc ==
  /\ LoaderAt(1)
  /\ tocCopied' = Written(tocCopied, TRUE)
  /\ UNCHANGED <<mem, kernelVars, plugin_toc_base>>

SetPluginTOCBase ==
  /\ LoaderAt(2)
  /\ plugin_toc_base' = layout["pluginToc"]
  /\ UNCHANGED <<mem, kernelVars, tocCopied>>

\* addmultipletotail, decoded from the bl in CCMInterface::Connect.
Original(i) == BranchTarget(layout["caller"], BL(layout["orig"], layout["caller"])) + 4 * i

WordAt(address) == IF address \in Words THEN mem[address] ELSE 0

\* The six writes of HookFunction, <<address, value>>.
HookWrites ==
  << <<Stub(0), WordAt(Original(0))>>,
     <<Stub(1), B(Original(1), Stub(1))>>,
     <<Stub(2), LIS(2, Upper(plugin_toc_base))>>,
     <<Stub(3), ORI(2, 2, Lower(plugin_toc_base))>>,
     <<Stub(4), B(layout["hook"], Stub(4))>>,
     <<Original(0), B(Stub(2), Original(0))>> >>

\* Three faults: the original is redirected before the jump to the hook is
\* written, or before its first word is saved; or the stub branches back to
\* the first word instead of the second.
HookWriteJumpLast(k)    == HookWrites[CASE k = 5 -> 6 [] k = 6 -> 5 [] OTHER -> k]
HookWriteBranchFirst(k) == HookWrites[CASE k = 1 -> 6 [] k = 6 -> 1 [] OTHER -> k]
HookWriteBackToStart(k) ==
  IF k = 2 THEN <<Stub(1), B(Original(0), Stub(1))>> ELSE HookWrites[k]

HookWrite(k) == HookWrites[k]

HookFunction ==
  \E k \in 1 .. 6 :
    /\ LoaderAt(k + 2)
    /\ LET address == HookWrite(k)[1]
           value   == HookWrite(k)[2]
       IN  mem' = [a \in Words |-> IF a = address THEN Written(mem[a], value) ELSE mem[a]]
    /\ UNCHANGED <<kernelVars, tocVars>>

LoaderStep == MemoryWriteCheck \/ CopyToc \/ SetPluginTOCBase \/ HookFunction

\* The player disables the system calls; only a restart brings them back.
DisableSyscalls ==
  /\ syscalls # {}
  /\ syscalls' = {}
  /\ UNCHANGED <<layout, mem, should_use_mapi, tocVars, hookStep, callVars>>

-----------------------------------------------------------------------------
(* The callers.                                                              *)

Jump(c, from, to, toc) ==
  /\ pc[c] = from
  /\ pc' = [pc EXCEPT ![c] = to]
  /\ r2' = [r2 EXCEPT ![c] = toc]
  /\ UNCHANGED <<layout, mem, kernelVars, tocVars, hookStep>>

\* A call keeps r2: the Steam client does not set it within its own module, so
\* that the plugin's TOC stays in force after a call through the hook.
Call(c) == Jump(c, 0, Orig(0), r2[c])

Fetch(c) ==
  \E a \in Words :
    LET next == Execute(a, r2[c], mem[a])
    IN  Jump(c, a, next[1], next[2])

\* CUtlVector_AddMultipleToTail_netadr_hook: the original is called through
\* the stub, with the one address instead of the caller's.
Hook(c) == Jump(c, layout["hook"], Stub(0), r2[c])

\* The rest of the original, and the return.
Body(c) == Jump(c, Orig(1), 0, r2[c])

InCall(c) == Fetch(c) \/ Hook(c) \/ Body(c)

NextHook ==
  \/ LoaderStep \/ DisableSyscalls
  \/ \E c \in Callers : Call(c) \/ InCall(c)

SpecHook == InitHook /\ [][NextHook]_hookVars

-----------------------------------------------------------------------------
(* Properties.                                                               *)

HookTypeOK ==
  /\ layout \in Layouts
  /\ DOMAIN mem = Words /\ \A a \in Words : mem[a] \in Nat
  /\ syscalls \subseteq Kinds /\ should_use_mapi \in BOOLEAN
  /\ plugin_toc_base \in Nat /\ tocCopied \in BOOLEAN
  /\ hookStep \in 0 .. 9
  /\ pc \in [Callers -> Words \cup {0, layout["hook"], Orig(1)}]
  /\ r2 \in [Callers -> Nat]

\* Where a call has got to, as HookAtomic sees it.
StageOf(a) ==
  IF a = 0 THEN "idle"
  ELSE IF a = Orig(0) THEN "called"
  ELSE IF a \in {Stub(2), Stub(3), Stub(4), layout["hook"]} THEN "hooked"
  ELSE IF a = Stub(0) THEN "calling"
  ELSE IF a \in {Stub(1), Orig(1)} THEN "body"
  ELSE "lost"

\* HookFunction's separate writes (ps3_utilities.c:172-189) install the hook
\* atomically: whatever a caller has fetched before, it runs the original once,
\* and the hook before it exactly if the last write had been made.
Atomic == INSTANCE HookAtomic WITH
  installed <- mem[Orig(0)] # FirstWord,
  stage     <- [c \in Callers |-> StageOf(pc[c])]
HooksAtomically == Atomic!Spec

\* The places a call passes on its way to its return.
CallPath == <<Orig(0), Stub(2), Stub(3), Stub(4), layout["hook"], Stub(0), Stub(1), Orig(1), 0>>

\* Whatever HookFunction has written by then (ps3_utilities.c:172-189), the next
\* instruction of a call takes it forward on this path: no call runs in a
\* circle, and each has returned after eight instructions.
CallsGoForward ==
  \A c \in Callers, a \in Words :
    pc[c] = a => \E i, j \in 1 .. 9 :
                   /\ i < j
                   /\ CallPath[i] = a /\ CallPath[j] = Execute(a, r2[c], mem[a])[1]

\* The hook runs with the plugin's TOC, and the Steam client's code with its
\* own or with the plugin's once its entries have been copied there.
TocReady ==
  \A c \in Callers :
    /\ pc[c] = layout["hook"] => r2[c] = layout["pluginToc"]
    /\ pc[c] \in {0, Orig(0), Orig(1), Stub(0), Stub(1)} =>
         \/ r2[c] = layout["clientToc"]
         \/ r2[c] = layout["pluginToc"] /\ tocCopied
=============================================================================
