---------------------------- MODULE StartupProofs -----------------------------
(* Startup for every layout, every number of callers and every moment at     *)
(* which the system calls stop working.  Its steps on code and callers are   *)
(* those of HookPatch, whatever the program of the loader is; addresses      *)
(* survive their pairs; a message has the size that was answered for it.     *)
(* The rest depends on the order of the program: each step comes after the   *)
(* ones that provide what it relies on (InOrder), which is shown part by     *)
(* part, and what has been done at each step follows (OrderInv).             *)
EXTENDS Startup, HookPatchProofs, SequenceTheorems

LEMMA StepIsHookStep == [Next]_vars => [NextHook]_hookVars
<1> SUFFICES ASSUME [Next]_vars
             PROVE  [NextHook]_hookVars
  OBVIOUS
<1>1. CASE Loader
  <2>1. PICK op \in {Program[at]} :
          Save(op) \/ Write(op) \/ Verify(op) \/ SetStub(op) \/ HookStep(op)
            \/ FindVtables(op) \/ InitCDNCache(op) \/ Threads(op)
    BY <1>1, Zenon DEF Loader
  <2>2. CASE HookStep(op)
    BY <2>2, Zenon DEF HookStep, NextHook
  <2>3. CASE ~HookStep(op)
    BY <2>1, <2>3, Zenon DEF Save, Write, Verify, SetStub, FindVtables, InitCDNCache, Threads
  <2> QED  BY <2>2, <2>3
<1>2. CASE Disable
  BY <1>2, Zenon DEF Disable, NextHook
<1>3. CASE ClientStep
  BY <1>3, Zenon DEF ClientStep
<1>4. ASSUME NEW c \in Callers, Caller(c) \/ NewCall(c)
      PROVE  NextHook
  BY <1>4, Zenon DEF Caller, NewCall, NextHook
<1>5. CASE UNCHANGED vars
  BY <1>5, Zenon DEF vars
<1> QED  BY <1>1, <1>2, <1>3, <1>4, <1>5 DEF Next

\* Start-up takes no step on code and callers but HookPatch's.
LEMMA StartupIsHookPatch == Spec => SpecHook
<1>1. Init => InitHook
  BY DEF Init
<1> QED  BY <1>1, StepIsHookStep, PTL DEF Spec, SpecHook

LEMMA LayoutFixed == [Next]_vars => layout' = layout
<1>1. [NextHook]_hookVars => layout' = layout
  BY Zenon DEF NextHook, hookVars, LoaderStep, MemoryWriteCheck, CopyToc, SetPluginTOCBase,
     HookFunction, LoaderAt, DisableSyscalls, InCall, Call, Fetch, Hook, Body, Jump
<1> QED  BY <1>1, StepIsHookStep

\* During the whole of start-up, the hook on AddMultipleToTail is atomic ...
THEOREM StartupHooksAtomically == Spec => HooksAtomically
BY StartupIsHookPatch, HookIsAtomic, PTL

\* ... and runs, as does the Steam client's code, with a TOC of its own.
THEOREM StartupTocReady == Spec => []TocReady
BY StartupIsHookPatch, TocAlwaysReady, PTL

\* No call that meets start-up is caught in the code that is being patched
\* (ps3_utilities.c:172-189).
THEOREM StartupCallsForward == Spec => []CallsGoForward
BY StartupIsHookPatch, CallsAlwaysForward, PTL

-----------------------------------------------------------------------------
(* Addresses.                                                                *)

LEMMA LayoutTyped == HookTypeOK => layout["typeName"] \in Nat /\ layout["engine"] \in Nat
<1> SUFFICES ASSUME HookTypeOK
             PROVE  layout["typeName"] \in Nat /\ layout["engine"] \in Nat
  OBVIOUS
<1>1. layout \in Layouts
  BY DEF HookTypeOK
<1>2. \A f \in Fields : layout[f] \in 4 .. AddressLimit
  BY <1>1, LayoutsAssumption, Zenon
<1>3. AddressLimit \in Nat
  BY SMT DEF AddressLimit
<1> QED  BY <1>2, <1>3 DEF Fields

\* For every address, vtables are found when they are there, and the CDN
\* cache is set up on the engine (steamclient_utils.c:191-196, 258-264).
THEOREM AddressesAlwaysRebuilt == Spec => []AddressesRebuilt
<1>1. Init => AddressesRebuilt
  BY DEF Init, AddressesRebuilt
<1>2. HookTypeOK /\ AddressesRebuilt /\ [Next]_vars => AddressesRebuilt'
  <2> SUFFICES ASSUME HookTypeOK, AddressesRebuilt, [Next]_vars
               PROVE  AddressesRebuilt'
    OBVIOUS
  <2>1. layout' = layout
    BY LayoutFixed
  <2>2. layout["typeName"] \in Nat /\ layout["engine"] \in Nat
    BY LayoutTyped
  <2>3. CASE Loader
    <3>1. PICK op \in {Program[at]} :
            Save(op) \/ Write(op) \/ Verify(op) \/ SetStub(op) \/ HookStep(op)
              \/ FindVtables(op) \/ InitCDNCache(op) \/ Threads(op)
      BY <2>3, Zenon DEF Loader
    <3>2. present' = present
      BY <2>3, Zenon DEF Loader
    <3>3. CASE FindVtables(op)
      <4>1. crashed' = ~present
        BY <3>3, <2>2, PairIsCompiled, Zenon DEF FindVtables
      <4>2. engineAddress' = engineAddress
        BY <3>3 DEF FindVtables
      <4> QED  BY <4>1, <4>2, <3>2, <2>1, Zenon DEF AddressesRebuilt
    <3>4. CASE InitCDNCache(op)
      <4>1. engineAddress' = layout["engine"] /\ crashed' = crashed
        BY <3>4, <2>2, PairAddressInverts, Zenon DEF InitCDNCache
      <4> QED  BY <4>1, <3>2, <2>1, Zenon DEF AddressesRebuilt
    <3>5. CASE ~FindVtables(op) /\ ~InitCDNCache(op)
      <4>1. engineAddress' = engineAddress /\ crashed' = crashed
        BY <3>1, <3>5, Zenon DEF Save, Write, Verify, SetStub, HookStep, Threads
      <4> QED  BY <4>1, <3>2, <2>1, Zenon DEF AddressesRebuilt
    <3> QED  BY <3>3, <3>4, <3>5
  <2>4. CASE ~Loader
    <3>1. present' = present /\ engineAddress' = engineAddress /\ crashed' = crashed
      BY <2>4, Zenon DEF Next, Disable, ClientStep, Caller, NewCall, vars, startVars
    <3> QED  BY <3>1, <2>1, Zenon DEF AddressesRebuilt
  <2> QED  BY <2>3, <2>4
<1> QED  BY <1>1, <1>2, StartupIsHookPatch, HookTypeCorrect, PTL DEF Spec

-----------------------------------------------------------------------------
(* The logon message.                                                        *)

LEMMA SizesAreNumbers == \A fields : Size(fields) \in Nat
<1>1. /\ FieldSize["others"] \in Nat /\ FieldSize["psn_ticket"] \in Nat
      /\ FieldSize["psn_service"] \in Nat /\ FieldSize["remember_password"] \in Nat
      /\ FieldSize["account_name"] \in Nat
  BY FieldSizeAssumption DEF Enabled
<1> QED  BY <1>1, SMT DEF Size

\* Both hooks may fix the same message up.
LEMMA FixUpTwice == \A fields : FixUp(FixUp(fields)) = FixUp(fields)
BY DEF FixUp

\* The hook on ByteSize adds what WriteString will write.
LEMMA PrefixIsVarint ==
  ASSUME NEW n \in 0 .. 1023
  PROVE  (IF n >= 128 THEN VarintSize(n) ELSE 1) + n + 2 = StringSize(108, n)
BY SMT DEF VarintSize, StringSize

MessageInv ==
  /\ token \in 0 .. 1023
  /\ message # "none" => Done
  /\ message = "sized" =>
       /\ length = Size(enabled_fields)
                     + (IF "ByteSize" \in patched THEN StringSize(108, token) ELSE 0)
       /\ "ByteSize" \in patched => enabled_fields = FixUp(enabled_fields)
  /\ MessageSized

LEMMA MessageInvInit == Init => MessageInv
BY DEF Init, InitMessage, MessageInv, MessageSized

LEMMA ProgramFixed ==
  found' = found /\ use_v2_cmsgclientlogon' = use_v2_cmsgclientlogon => Program' = Program
BY DEF Program, ApplyOverlayHooks, HookLobbySearch, ApplyUserStatsHooks, ApplyRemoteStorageHooks,
   HookConnect, HookMessages, PatchUrls, ReplaceString, HookLogOn, If, Portal2, Op, Each, SaveAndHook

LEMMA MessageInvNext == MessageInv /\ [Next]_vars => MessageInv'
<1> SUFFICES ASSUME MessageInv, [Next]_vars
             PROVE  MessageInv'
  OBVIOUS
<1>1. CASE Loader
  <2>1. message = "none" /\ message' = message /\ token' = token
    <3>1. ~Done /\ UNCHANGED messageVars
      BY <1>1, Zenon DEF Loader
    <3>2. message = "none"
      BY <3>1 DEF MessageInv
    <3> QED  BY <3>1, <3>2, Zenon DEF messageVars
  <2> QED  BY <2>1 DEF MessageInv, MessageSized
<1>2. CASE ClientStep
  <2>1. Done /\ Done' /\ patched' = patched
    <3>1. /\ Done /\ at' = at /\ patched' = patched /\ found' = found
          /\ use_v2_cmsgclientlogon' = use_v2_cmsgclientlogon
      BY <1>2, Zenon DEF ClientStep, startVars
    <3> QED  BY <3>1, ProgramFixed, Zenon DEF Done
  <2>2. CASE NewMessage
    <3>1. token' \in 0 .. 1023 /\ message' = "new"
      BY <2>2, TokenLengthsAssumption DEF NewMessage
    <3> QED  BY <3>1, <2>1 DEF MessageInv, MessageSized
  <2>3. CASE ByteSize("ByteSize" \in patched)
    <3>1. message' = "sized" /\ token' = token
      BY <2>3 DEF ByteSize
    <3>2. CASE "ByteSize" \in patched
      <4>1. /\ enabled_fields' = FixUp(enabled_fields)
            /\ length' = Size(enabled_fields')
                           + ((IF token >= 128 THEN VarintSize(token) ELSE 1) + token + 2)
        BY <2>3, <3>2 DEF ByteSize
      <4>2. length' = Size(enabled_fields') + StringSize(108, token)
        BY <4>1, PrefixIsVarint DEF MessageInv
      <4> QED  BY <3>1, <3>2, <4>1, <4>2, <2>1, FixUpTwice DEF MessageInv, MessageSized, StringSize
    <3>3. CASE "ByteSize" \notin patched
      <4>1. length' = Size(enabled_fields') + 0
        BY <2>3, <3>3 DEF ByteSize
      <4> QED  BY <3>1, <3>3, <4>1, <2>1 DEF MessageInv, MessageSized
    <3> QED  BY <3>2, <3>3
  <2>4. CASE Serialize("Serialize" \in patched)
    <3>1. message = "sized" /\ message' = "sent" /\ token' = token /\ length' = length
      BY <2>4 DEF Serialize
    <3>2. CASE "ByteSize" \in patched /\ "Serialize" \in patched
      <4>1. enabled_fields' = enabled_fields
        BY <2>4, <3>1, <3>2 DEF Serialize, MessageInv
      <4>2. bytes' = Size(enabled_fields') + StringSize(108, token)
        BY <2>4, <3>2 DEF Serialize
      <4> QED  BY <3>1, <3>2, <4>1, <4>2, <2>1 DEF MessageInv, MessageSized
    <3>3. CASE "ByteSize" \notin patched /\ "Serialize" \notin patched
      <4>1. enabled_fields' = enabled_fields
        BY <2>4, <3>3 DEF Serialize
      <4>2. bytes' = Size(enabled_fields') + 0
        BY <2>4, <3>3 DEF Serialize
      <4> QED  BY <3>1, <3>3, <4>1, <4>2, <2>1 DEF MessageInv, MessageSized
    <3>4. CASE ~("ByteSize" \in patched <=> "Serialize" \in patched)
      BY <3>1, <3>4, <2>1 DEF MessageInv, MessageSized
    <3> QED  BY <3>2, <3>3, <3>4
  <2> QED  BY <1>2, <2>2, <2>3, <2>4 DEF ClientStep
<1>3. CASE ~Loader /\ ~ClientStep
  <2>1. UNCHANGED <<messageVars, startVars>>
    BY <1>3, Zenon DEF Next, Disable, Caller, NewCall, vars
  <2>2. /\ message' = message /\ enabled_fields' = enabled_fields /\ token' = token
        /\ length' = length /\ bytes' = bytes /\ patched' = patched /\ at' = at /\ found' = found
        /\ use_v2_cmsgclientlogon' = use_v2_cmsgclientlogon
    BY <2>1 DEF messageVars, startVars
  <2>3. Done' = Done
    BY <2>2, ProgramFixed DEF Done
  <2>4. Size(enabled_fields)' = Size(enabled_fields) /\ StringSize(108, token)' = StringSize(108, token)
        /\ FixUp(enabled_fields)' = FixUp(enabled_fields)
    BY <2>2 DEF Size, StringSize, FixUp, VarintSize
  <2> QED  BY <2>2, <2>3, <2>4 DEF MessageInv, MessageSized
<1> QED  BY <1>1, <1>2, <1>3

\* For every token and every size of the fields, a message has the size that
\* was answered for it (condenstation.c:124-173).
THEOREM MessageAlwaysSized == Spec => []MessageSized
<1>1. MessageInv => MessageSized
  BY DEF MessageInv
<1> QED  BY <1>1, MessageInvInit, MessageInvNext, PTL DEF Spec

-----------------------------------------------------------------------------
(* The loader's program as a sequence of steps, each of which may rely on    *)
(* what an earlier one has provided.                                         *)

\* What the steps of the loader's program do, and to what.
Acts   == {"hook", "save", "write", "verify", "vtables", "stub", "cdn", "threads"}
Things ==
  Slots \cup FunctionStubs
    \cup {"MemoryWriteCheck", "CMsgClientLogon", "AddMultipleToTail", "InitCDNCache", "shill"}
Steps  == [do : Acts, arg : Things]

\* What a program does with an action, at any place.
Doing(p, do) == {p[i].arg : i \in {j \in 1 .. Len(p) : p[j].do = do}}

\* What a step relies on, and the actions that provide it.
Needs(step) ==
  IF step.do = "write" THEN Uses(step.arg) ELSE IF step.do = "verify" THEN {step.arg} ELSE {}
Providers(do) == IF do = "write" THEN {"save", "stub"} ELSE {"write"}

Provided(p, i, u, do) == \E k \in 1 .. i : p[k].do \in Providers(do) /\ p[k].arg = u

\* What a step relies on is provided by steps before it.
InOrder(p) ==
  \A j \in 1 .. Len(p) : \A u \in Needs(p[j]) : Provided(p, j - 1, u, p[j].do)

\* The slots, one by one.
LEMMA SlotsAre ==
  /\ Elements(OverlaySlots) = {"BHostInitialise", "Render", "BHandleCellPadData"}
  /\ Elements(StatsSlots) = {"GetStatInt", "GetStatFloat", "SetStatInt", "SetStatFloat"}
  /\ Elements(StorageSlots) = {"IsCloudEnabledForApp", "SynchronizeToClient",
                               "SynchronizeToServer", "SetCloudEnabledForApp"}
  /\ Elements(MessageSlots) = {"Serialize", "ByteSize", "MergePartial"}
<1>1. Elements(OverlaySlots) = {"BHostInitialise", "Render", "BHandleCellPadData"}
  BY DEF OverlaySlots, Elements
<1>2. Elements(StatsSlots) = {"GetStatInt", "GetStatFloat", "SetStatInt", "SetStatFloat"}
  BY DEF StatsSlots, Elements
<1>3. Elements(StorageSlots) = {"IsCloudEnabledForApp", "SynchronizeToClient",
                               "SynchronizeToServer", "SetCloudEnabledForApp"}
  BY DEF StorageSlots, Elements
<1>4. Elements(MessageSlots) = {"Serialize", "ByteSize", "MergePartial"}
  BY DEF MessageSlots, Elements
<1> QED  BY <1>1, <1>2, <1>3, <1>4, Zenon

LEMMA ActsAre ==
  /\ "hook" \in Acts /\ "save" \in Acts /\ "write" \in Acts /\ "verify" \in Acts
  /\ "vtables" \in Acts /\ "stub" \in Acts /\ "cdn" \in Acts /\ "threads" \in Acts
BY DEF Acts

LEMMA ThingsAre ==
  /\ OverlaySlots \in Seq(Things) /\ StatsSlots \in Seq(Things) /\ StorageSlots \in Seq(Things)
  /\ MessageSlots \in Seq(Things) /\ UrlStrings \subseteq Things
  /\ "MemoryWriteCheck" \in Things /\ "CMsgClientLogon" \in Things
  /\ "AddMultipleToTail" \in Things /\ "InitCDNCache" \in Things /\ "shill" \in Things
  /\ "RequestLobbyList" \in Things /\ "LogOn" \in Things
  /\ <<"std_basic_string_constructor", "VarintSize32Fallback", "WriteString">> \in Seq(Things)
<1> DEFINE all == {"BHostInitialise", "Render", "BHandleCellPadData",
              "GetStatInt", "GetStatFloat", "SetStatInt", "SetStatFloat",
              "IsCloudEnabledForApp", "SynchronizeToClient", "SynchronizeToServer",
              "SetCloudEnabledForApp", "Serialize", "ByteSize", "MergePartial"}
<1>1. all \subseteq Things
  BY SlotsAre DEF Things, Slots
<1> HIDE DEF all
<1>2. /\ OverlaySlots \in Seq(Things) /\ StatsSlots \in Seq(Things)
      /\ StorageSlots \in Seq(Things) /\ MessageSlots \in Seq(Things)
  BY <1>1 DEF OverlaySlots, StatsSlots, StorageSlots, MessageSlots, all
<1>3. /\ "MemoryWriteCheck" \in Things /\ "CMsgClientLogon" \in Things
      /\ "AddMultipleToTail" \in Things /\ "InitCDNCache" \in Things /\ "shill" \in Things
      /\ "RequestLobbyList" \in Things /\ "LogOn" \in Things
  BY DEF Things, Slots
<1>4. <<"std_basic_string_constructor", "VarintSize32Fallback", "WriteString">> \in Seq(Things)
  BY DEF Things, FunctionStubs
<1>5. UrlStrings \subseteq Things
  BY DEF Things, Slots
<1> QED  BY <1>2, <1>3, <1>4, <1>5

\* The sequences the program is put together from.
LEMMA OpIs ==
  ASSUME NEW do \in Acts, NEW arg \in Things
  PROVE  /\ Op(do, arg) \in Seq(Steps) /\ Len(Op(do, arg)) = 1
         /\ Op(do, arg)[1].do = do /\ Op(do, arg)[1].arg = arg
BY DEF Op, Steps

LEMMA SameInterval ==
  ASSUME NEW a \in Nat, NEW b \in Nat, 1 .. a = 1 .. b
  PROVE  a = b
<1>1. ~(a < b)
  <2>1. a < b => b \in 1 .. b /\ b \notin 1 .. a
    OBVIOUS
  <2> QED  BY <2>1
<1>2. ~(b < a)
  <2>1. b < a => a \in 1 .. a /\ a \notin 1 .. b
    OBVIOUS
  <2> QED  BY <2>1
<1> QED  BY <1>1, <1>2

LEMMA EachIs ==
  ASSUME NEW do \in Acts, NEW seq \in Seq(Things)
  PROVE  /\ Each(do, seq) \in Seq(Steps) /\ Len(Each(do, seq)) = Len(seq)
         /\ \A i \in 1 .. Len(seq) : Each(do, seq)[i].do = do /\ Each(do, seq)[i].arg = seq[i]
<1>1. DOMAIN seq = 1 .. Len(seq) /\ Len(seq) \in Nat
  OBVIOUS
<1>2. Each(do, seq) \in [1 .. Len(seq) -> Steps]
  BY <1>1 DEF Each, Steps
<1>3. Each(do, seq) \in Seq(Steps)
  BY <1>1, <1>2, SeqDef
<1>4. Len(Each(do, seq)) = Len(seq)
  <2>1. Len(Each(do, seq)) \in Nat /\ 1 .. Len(Each(do, seq)) = 1 .. Len(seq)
    BY <1>2, <1>3, LenProperties
  <2> QED  BY <1>1, <2>1, SameInterval, Zenon
<1>5. \A i \in 1 .. Len(seq) : Each(do, seq)[i] = [do |-> do, arg |-> seq[i]]
  BY <1>1 DEF Each
<1>6. ASSUME NEW i \in 1 .. Len(seq)
      PROVE  Each(do, seq)[i].do = do /\ Each(do, seq)[i].arg = seq[i]
  BY <1>1 DEF Each
<1> QED  BY <1>3, <1>4, <1>6

\* Two programs, one after the other; it does not matter how three are grouped.
LEMMA ConcatIs ==
  ASSUME NEW s \in Seq(Steps), NEW t \in Seq(Steps)
  PROVE  /\ s \o t \in Seq(Steps)
         /\ Len(s) \in Nat /\ Len(t) \in Nat /\ Len(s \o t) = Len(s) + Len(t)
         /\ \A i \in 1 .. Len(s) + Len(t) :
              (s \o t)[i] = IF i <= Len(s) THEN s[i] ELSE t[i - Len(s)]
BY ConcatProperties, LenProperties

LEMMA Regroup ==
  ASSUME NEW s \in Seq(Steps), NEW t \in Seq(Steps), NEW u \in Seq(Steps)
  PROVE  s \o (t \o u) = (s \o t) \o u
BY ConcatAssociative, SMTT(30)

\* What a program does is what its parts do.
LEMMA DoingOp ==
  ASSUME NEW do \in Acts, NEW arg \in Things, NEW what
  PROVE  Doing(Op(do, arg), what) = IF what = do THEN {arg} ELSE {}
BY OpIs DEF Doing

LEMMA DoingEach ==
  ASSUME NEW do \in Acts, NEW seq \in Seq(Things), NEW what
  PROVE  Doing(Each(do, seq), what) = IF what = do THEN Elements(seq) ELSE {}
<1>1. Len(seq) \in Nat /\ DOMAIN seq = 1 .. Len(seq)
  OBVIOUS
<1>2. /\ Len(Each(do, seq)) = Len(seq)
      /\ \A i \in 1 .. Len(seq) : Each(do, seq)[i].do = do /\ Each(do, seq)[i].arg = seq[i]
  BY EachIs
<1>3. CASE what = do
  <2>1. {j \in 1 .. Len(Each(do, seq)) : Each(do, seq)[j].do = what} = DOMAIN seq
    BY <1>1, <1>2, <1>3
  <2> QED  BY <1>1, <1>2, <1>3, <2>1 DEF Doing, Elements
<1>4. CASE what # do
  <2>1. {j \in 1 .. Len(Each(do, seq)) : Each(do, seq)[j].do = what} = {}
    BY <1>2, <1>4
  <2> QED  BY <1>4, <2>1 DEF Doing
<1> QED  BY <1>3, <1>4

LEMMA DoingConcat ==
  ASSUME NEW s \in Seq(Steps), NEW t \in Seq(Steps), NEW what
  PROVE  Doing(s \o t, what) = Doing(s, what) \cup Doing(t, what)
<1>1. /\ Len(s) \in Nat /\ Len(t) \in Nat /\ Len(s \o t) = Len(s) + Len(t)
      /\ \A i \in 1 .. Len(s) + Len(t) :
           (s \o t)[i] = IF i <= Len(s) THEN s[i] ELSE t[i - Len(s)]
  BY ConcatIs
<1>2. \A i \in 1 .. Len(s) : i \in 1 .. Len(s \o t) /\ (s \o t)[i] = s[i]
  BY <1>1
<1>3. \A i \in 1 .. Len(t) : Len(s) + i \in 1 .. Len(s \o t) /\ (s \o t)[Len(s) + i] = t[i]
  BY <1>1
<1>4. \A i \in 1 .. Len(s \o t) :
        \/ i \in 1 .. Len(s) /\ (s \o t)[i] = s[i]
        \/ i - Len(s) \in 1 .. Len(t) /\ (s \o t)[i] = t[i - Len(s)]
  BY <1>1
<1>5. Doing(s \o t, what) \subseteq Doing(s, what) \cup Doing(t, what)
  BY <1>4, Zenon DEF Doing
<1>6. Doing(s, what) \subseteq Doing(s \o t, what)
  BY <1>2, Zenon DEF Doing
<1>7. Doing(t, what) \subseteq Doing(s \o t, what)
  BY <1>3, Zenon DEF Doing
<1> QED  BY <1>5, <1>6, <1>7

\* A part that relies on itself and on what comes before it may follow.
LEMMA OrderConcat ==
  ASSUME NEW s \in Seq(Steps), NEW t \in Seq(Steps), InOrder(s),
         \A j \in 1 .. Len(t) : \A u \in Needs(t[j]) :
           Provided(s, Len(s), u, t[j].do) \/ Provided(t, j - 1, u, t[j].do)
  PROVE  InOrder(s \o t)
<1>1. /\ Len(s) \in Nat /\ Len(t) \in Nat /\ Len(s \o t) = Len(s) + Len(t)
      /\ \A i \in 1 .. Len(s) + Len(t) :
           (s \o t)[i] = IF i <= Len(s) THEN s[i] ELSE t[i - Len(s)]
  BY ConcatIs
<1>2. \A i \in 1 .. Len(s) : (s \o t)[i] = s[i]
  BY <1>1
<1>3. \A i \in 1 .. Len(t) : (s \o t)[Len(s) + i] = t[i]
  BY <1>1
<1>4. \A u, do : \A j, n \in Nat :
        n <= Len(s) /\ n <= j /\ Provided(s, n, u, do) => Provided(s \o t, j, u, do)
  BY <1>1, <1>2 DEF Provided
<1>5. \A u, do : \A j \in 0 .. Len(t) :
        Provided(t, j, u, do) => Provided(s \o t, Len(s) + j, u, do)
  <2> SUFFICES ASSUME NEW j \in 0 .. Len(t), NEW u, NEW do, Provided(t, j, u, do)
               PROVE  Provided(s \o t, Len(s) + j, u, do)
    OBVIOUS
  <2> PICK k \in 1 .. j : t[k].do \in Providers(do) /\ t[k].arg = u
    BY Zenon DEF Provided
  <2>1. Len(s) + k \in 1 .. Len(s) + j /\ (s \o t)[Len(s) + k] = t[k]
    BY <1>1, <1>3
  <2> QED  BY <2>1 DEF Provided
<1> SUFFICES ASSUME NEW j \in 1 .. Len(s \o t), NEW u \in Needs((s \o t)[j])
             PROVE  Provided(s \o t, j - 1, u, (s \o t)[j].do)
  BY DEF InOrder
<1>6. CASE j <= Len(s)
  <2>1. j \in 1 .. Len(s) /\ (s \o t)[j] = s[j] /\ j - 1 \in Nat /\ j - 1 <= Len(s)
    BY <1>1, <1>6
  <2>2. Provided(s, j - 1, u, s[j].do)
    BY <2>1 DEF InOrder
  <2> QED  BY <2>1, <2>2, <1>4
<1>7. CASE ~(j <= Len(s))
  <2> DEFINE i == j - Len(s)
  <2>1. i \in 1 .. Len(t) /\ (s \o t)[j] = t[i] /\ i - 1 \in 0 .. Len(t) /\ j - 1 = Len(s) + (i - 1)
    BY <1>1, <1>7
  <2>2. Len(s) \in Nat /\ j - 1 \in Nat /\ Len(s) <= j - 1
    BY <1>1, <1>7
  <2>3. CASE Provided(s, Len(s), u, t[i].do)
    BY <2>1, <2>2, <2>3, <1>4
  <2>4. CASE Provided(t, i - 1, u, t[i].do)
    BY <2>1, <2>4, <1>5
  <2> QED  BY <2>1, <2>3, <2>4
<1> QED  BY <1>6, <1>7

LEMMA ProvidedIsDoing ==
  ASSUME NEW p \in Seq(Steps), NEW u, NEW do
  PROVE  Provided(p, Len(p), u, do) <=> \E what \in Providers(do) : u \in Doing(p, what)
BY Zenon DEF Provided, Doing

\* Two programs in order, one after the other.
LEMMA OrderBoth ==
  ASSUME NEW s \in Seq(Steps), NEW t \in Seq(Steps), InOrder(s), InOrder(t)
  PROVE  InOrder(s \o t)
BY OrderConcat, Zenon DEF InOrder

\* The same action on several things, all of whose needs have been met.
LEMMA OrderEach ==
  ASSUME NEW s \in Seq(Steps), InOrder(s), NEW do \in Acts, NEW seq \in Seq(Things),
         \A a \in Elements(seq) : \A u \in Needs([do |-> do, arg |-> a]) :
           \E what \in Providers(do) : u \in Doing(s, what)
  PROVE  InOrder(s \o Each(do, seq))
<1>1. /\ Each(do, seq) \in Seq(Steps) /\ Len(Each(do, seq)) = Len(seq)
      /\ \A j \in 1 .. Len(seq) : Each(do, seq)[j].do = do /\ Each(do, seq)[j].arg = seq[j]
  BY EachIs
<1>2. \A j \in 1 .. Len(seq) :
        Needs(Each(do, seq)[j]) = Needs([do |-> do, arg |-> seq[j]])
  BY <1>1 DEF Needs
<1>4. \A j \in 1 .. Len(seq) : seq[j] \in Elements(seq)
  BY DEF Elements
<1>3. \A j \in 1 .. Len(seq) : \A u \in Needs(Each(do, seq)[j]) :
        Provided(s, Len(s), u, Each(do, seq)[j].do)
  BY <1>1, <1>2, <1>4, ProvidedIsDoing, Zenon
<1> QED  BY <1>1, <1>3, OrderConcat, Zenon

LEMMA OpIsEach ==
  ASSUME NEW do \in Acts, NEW arg \in Things
  PROVE  Op(do, arg) = Each(do, <<arg>>) /\ <<arg>> \in Seq(Things) /\ Elements(<<arg>>) = {arg}
BY DEF Op, Each, Elements

LEMMA EmptyPart == << >> \in Seq(Steps) /\ InOrder(<< >>) /\ \A do : Doing(<< >>, do) = {}
BY DEF InOrder, Doing

\* Steps that rely on nothing.
LEMMA OrderFree ==
  ASSUME NEW p \in Seq(Steps), \A j \in 1 .. Len(p) : p[j].do \notin {"write", "verify"}
  PROVE  InOrder(p)
BY DEF InOrder, Needs

\* Saving the originals first is in order, for hooks that use nothing else.
LEMMA SaveAndHookIs ==
  ASSUME NEW seq \in Seq(Things), \A a \in Elements(seq) : Uses(a) = {a}
  PROVE  /\ SaveAndHook(seq) \in Seq(Steps) /\ InOrder(SaveAndHook(seq))
         /\ \A do : Doing(SaveAndHook(seq), do)
                      = IF do \in {"save", "write"} THEN Elements(seq) ELSE {}
<1> DEFINE first == Each("save", seq)
<1>1. /\ first \in Seq(Steps) /\ Each("write", seq) \in Seq(Steps) /\ Len(first) = Len(seq)
      /\ \A j \in 1 .. Len(seq) : first[j].do = "save"
  BY EachIs, ActsAre
<1>2. InOrder(first)
  BY <1>1, OrderFree
<1>3. \A do : /\ Doing(first, do) = IF do = "save" THEN Elements(seq) ELSE {}
              /\ Doing(Each("write", seq), do) = IF do = "write" THEN Elements(seq) ELSE {}
  BY DoingEach, ActsAre
<1>4. /\ \A a \in Elements(seq) : Needs([do |-> "write", arg |-> a]) = {a}
      /\ Providers("write") = {"save", "stub"}
  BY DEF Needs, Providers
<1>5. SaveAndHook(seq) = first \o Each("write", seq)
  BY DEF SaveAndHook
<1>6. InOrder(SaveAndHook(seq))
  <2>1. \A a \in Elements(seq) : \A u \in Needs([do |-> "write", arg |-> a]) :
          "save" \in Providers("write") /\ u \in Doing(first, "save")
    BY <1>3, <1>4
  <2> QED  BY <1>1, <1>2, <1>5, <2>1, OrderEach, ActsAre
<1>7. SaveAndHook(seq) \in Seq(Steps)
  BY <1>1, <1>5, ConcatProperties
<1>8. \A do : Doing(SaveAndHook(seq), do) = Doing(first, do) \cup Doing(Each("write", seq), do)
  BY <1>1, <1>5, DoingConcat
<1> HIDE DEF first
<1>9. ASSUME NEW do
      PROVE  Doing(SaveAndHook(seq), do) = IF do \in {"save", "write"} THEN Elements(seq) ELSE {}
  <2>1. /\ Doing(first, do) = IF do = "save" THEN Elements(seq) ELSE {}
        /\ Doing(Each("write", seq), do) = IF do = "write" THEN Elements(seq) ELSE {}
        /\ Doing(SaveAndHook(seq), do) = Doing(first, do) \cup Doing(Each("write", seq), do)
    BY <1>3, <1>8, Zenon
  <2> QED  BY <2>1
<1> QED  BY <1>6, <1>7, <1>9, Zenon

-----------------------------------------------------------------------------
(* The parts of the program: each is in order, and does this.                *)

LEMMA OverlayPart ==
  /\ ApplyOverlayHooks \in Seq(Steps) /\ InOrder(ApplyOverlayHooks)
  /\ \A do : Doing(ApplyOverlayHooks, do) =
       IF "overlay" \in found /\ Portal2 /\ do \in {"save", "write"}
       THEN Elements(OverlaySlots) ELSE {}
<1>1. CASE "overlay" \in found /\ Portal2
  <2>1. ApplyOverlayHooks = SaveAndHook(OverlaySlots)
    BY <1>1 DEF ApplyOverlayHooks, If
  <2>2. \A a \in Elements(OverlaySlots) : Uses(a) = {a}
    BY SlotsAre DEF Uses, UrlStrings
  <2> QED  BY <1>1, <2>1, <2>2, ThingsAre, SaveAndHookIs
<1>2. CASE ~("overlay" \in found /\ Portal2)
  <2>1. ApplyOverlayHooks = << >>
    BY <1>2 DEF ApplyOverlayHooks, If
  <2> QED  BY <1>2, <2>1, EmptyPart
<1> QED  BY <1>1, <1>2

LEMMA StatsPart ==
  /\ ApplyUserStatsHooks \in Seq(Steps) /\ InOrder(ApplyUserStatsHooks)
  /\ \A do : Doing(ApplyUserStatsHooks, do) =
       IF "userstats" \in found /\ Portal2 /\ do \in {"save", "write"}
       THEN Elements(StatsSlots) ELSE {}
<1>1. CASE "userstats" \in found /\ Portal2
  <2>1. ApplyUserStatsHooks = SaveAndHook(StatsSlots)
    BY <1>1 DEF ApplyUserStatsHooks, If
  <2>2. \A a \in Elements(StatsSlots) : Uses(a) = {a}
    BY SlotsAre DEF Uses, UrlStrings
  <2> QED  BY <1>1, <2>1, <2>2, ThingsAre, SaveAndHookIs
<1>2. CASE ~("userstats" \in found /\ Portal2)
  <2>1. ApplyUserStatsHooks = << >>
    BY <1>2 DEF ApplyUserStatsHooks, If
  <2> QED  BY <1>2, <2>1, EmptyPart
<1> QED  BY <1>1, <1>2

\* Hooks that call nothing of what they replace need nothing saved.
LEMMA WritesFreely ==
  ASSUME NEW seq \in Seq(Things), \A a \in Elements(seq) : Uses(a) = {}
  PROVE  /\ Each("write", seq) \in Seq(Steps) /\ InOrder(Each("write", seq))
         /\ \A do : Doing(Each("write", seq), do) = IF do = "write" THEN Elements(seq) ELSE {}
<1>1. \A a \in Elements(seq) : Needs([do |-> "write", arg |-> a]) = {}
  BY DEF Needs
<1>2. Each("write", seq) \in Seq(Steps)
  BY EachIs, ActsAre
<1>3. InOrder(<< >> \o Each("write", seq))
  BY <1>1, EmptyPart, OrderEach, ActsAre
<1>4. << >> \o Each("write", seq) = Each("write", seq)
  BY <1>2, ConcatEmptySeq
<1> QED  BY <1>2, <1>3, <1>4, DoingEach, ActsAre

LEMMA StoragePart ==
  /\ ApplyRemoteStorageHooks \in Seq(Steps) /\ InOrder(ApplyRemoteStorageHooks)
  /\ \A do : Doing(ApplyRemoteStorageHooks, do) =
       IF "remotestorage" \in found /\ Portal2 /\ do = "write" THEN Elements(StorageSlots) ELSE {}
<1>1. CASE "remotestorage" \in found /\ Portal2
  <2>1. ApplyRemoteStorageHooks = Each("write", StorageSlots)
    BY <1>1 DEF ApplyRemoteStorageHooks, If
  <2>2. \A a \in Elements(StorageSlots) : Uses(a) = {}
    BY SlotsAre DEF Uses, UrlStrings
  <2> QED  BY <1>1, <2>1, <2>2, ThingsAre, WritesFreely
<1>2. CASE ~("remotestorage" \in found /\ Portal2)
  <2>1. ApplyRemoteStorageHooks = << >>
    BY <1>2 DEF ApplyRemoteStorageHooks, If
  <2> QED  BY <1>2, <2>1, EmptyPart
<1> QED  BY <1>1, <1>2

\* One more step, whose needs have been met.
LEMMA OrderOp ==
  ASSUME NEW s \in Seq(Steps), InOrder(s), NEW do \in Acts, NEW arg \in Things,
         \A u \in Needs([do |-> do, arg |-> arg]) :
           \E what \in Providers(do) : u \in Doing(s, what)
  PROVE  /\ s \o Op(do, arg) \in Seq(Steps) /\ InOrder(s \o Op(do, arg))
         /\ \A what : Doing(s \o Op(do, arg), what)
                        = Doing(s, what) \cup (IF what = do THEN {arg} ELSE {})
<1>1. Op(do, arg) = Each(do, <<arg>>) /\ <<arg>> \in Seq(Things) /\ Elements(<<arg>>) = {arg}
  BY OpIsEach
<1>2. InOrder(s \o Op(do, arg))
  BY <1>1, OrderEach
<1>3. /\ Op(do, arg) \in Seq(Steps)
      /\ \A what : Doing(Op(do, arg), what) = IF what = do THEN {arg} ELSE {}
  BY OpIs, DoingOp
<1> QED  BY <1>2, <1>3, ConcatProperties, DoingConcat

LEMMA OrderPlainOp ==
  ASSUME NEW s \in Seq(Steps), InOrder(s), NEW do \in Acts \ {"write", "verify"}, NEW arg \in Things
  PROVE  /\ s \o Op(do, arg) \in Seq(Steps) /\ InOrder(s \o Op(do, arg))
         /\ \A what : Doing(s \o Op(do, arg), what)
                        = Doing(s, what) \cup (IF what = do THEN {arg} ELSE {})
<1>1. Needs([do |-> do, arg |-> arg]) = {}
  BY DEF Needs
<1> QED  BY <1>1, OrderOp

LEMMA LobbyPart ==
  /\ HookLobbySearch \in Seq(Steps) /\ InOrder(HookLobbySearch)
  /\ \A do : Doing(HookLobbySearch, do) =
       IF "matchmaking" \in found /\ do \in {"write", "verify"} THEN {"RequestLobbyList"} ELSE {}
<1>1. CASE "matchmaking" \in found
  <2> DEFINE one == Op("write", "RequestLobbyList")
  <2>1. HookLobbySearch = one \o Op("verify", "RequestLobbyList")
    BY <1>1 DEF HookLobbySearch, If
  <2>2. one = Each("write", <<"RequestLobbyList">>)
    BY OpIsEach, ActsAre, ThingsAre
  <2>3. /\ <<"RequestLobbyList">> \in Seq(Things)
        /\ Elements(<<"RequestLobbyList">>) = {"RequestLobbyList"}
    BY OpIsEach, ActsAre, ThingsAre
  <2>4. Uses("RequestLobbyList") = {}
    BY DEF Uses
  <2>5. /\ one \in Seq(Steps) /\ InOrder(one)
        /\ \A do : Doing(one, do) = IF do = "write" THEN {"RequestLobbyList"} ELSE {}
    BY <2>2, <2>3, <2>4, WritesFreely
  <2>6. Needs([do |-> "verify", arg |-> "RequestLobbyList"]) = {"RequestLobbyList"}
        /\ Providers("verify") = {"write"}
    BY DEF Needs, Providers
  <2> HIDE DEF one
  <2>7. "write" \in Providers("verify") /\ "RequestLobbyList" \in Doing(one, "write")
    BY <2>5, <2>6
  <2>8. /\ HookLobbySearch \in Seq(Steps) /\ InOrder(HookLobbySearch)
        /\ \A do : Doing(HookLobbySearch, do)
                     = Doing(one, do) \cup (IF do = "verify" THEN {"RequestLobbyList"} ELSE {})
    BY <2>1, <2>5, <2>6, <2>7, OrderOp, ActsAre, ThingsAre
  <2> QED  BY <1>1, <2>5, <2>8
<1>2. CASE "matchmaking" \notin found
  <2>1. HookLobbySearch = << >>
    BY <1>2 DEF HookLobbySearch, If
  <2> QED  BY <1>2, <2>1, EmptyPart
<1> QED  BY <1>1, <1>2

Attach == [i \in 1 .. 8 |-> [do |-> "hook", arg |-> "AddMultipleToTail"]]

\* The hook on AddMultipleToTail: its eight steps follow the look-up.
LEMMA ConnectPart ==
  /\ HookConnect \in Seq(Steps) /\ InOrder(HookConnect) /\ Len(HookConnect) = 9
  /\ HookConnect[1].do = "vtables"
  /\ \A i \in 2 .. 9 : HookConnect[i].do = "hook"
  /\ \A do : do \notin {"hook", "vtables"} => Doing(HookConnect, do) = {}
<1> DEFINE first == Op("vtables", "CMsgClientLogon")
<1>1. first \in Seq(Steps) /\ Len(first) = 1 /\ first[1].do = "vtables"
  BY OpIs, ActsAre, ThingsAre
<1>2. Attach \in Seq(Steps) /\ Len(Attach) = 8 /\ \A i \in 1 .. 8 : Attach[i].do = "hook"
  <2>1. [do |-> "hook", arg |-> "AddMultipleToTail"] \in Steps
    BY ActsAre, ThingsAre DEF Steps
  <2>2. Attach \in [1 .. 8 -> Steps] /\ \A i \in 1 .. 8 : Attach[i].do = "hook"
    BY <2>1 DEF Attach
  <2>3. Attach \in Seq(Steps)
    BY <2>2, SeqDef
  <2>4. Len(Attach) \in Nat /\ 1 .. Len(Attach) = 1 .. 8
    BY <2>2, <2>3, LenProperties
  <2> QED  BY <2>2, <2>3, <2>4, SameInterval
<1>3. HookConnect = first \o Attach
  BY DEF HookConnect, Attach
<1> HIDE DEF first
<1>4. /\ HookConnect \in Seq(Steps) /\ Len(HookConnect) = 1 + 8
      /\ \A i \in 1 .. 9 : HookConnect[i] = IF i <= 1 THEN first[i] ELSE Attach[i - 1]
  <2>1. /\ first \o Attach \in Seq(Steps) /\ Len(first \o Attach) = Len(first) + Len(Attach)
        /\ \A i \in 1 .. Len(first) + Len(Attach) :
             (first \o Attach)[i] = IF i <= Len(first) THEN first[i] ELSE Attach[i - Len(first)]
    BY <1>1, <1>2, ConcatIs, Zenon
  <2>2. 1 .. Len(first) + Len(Attach) = 1 .. 9
    BY <1>1, <1>2
  <2> QED  BY <1>1, <1>2, <1>3, <2>1, <2>2
<1>5. Len(HookConnect) = 9 /\ HookConnect[1].do = "vtables"
  BY <1>1, <1>4
<1>6. \A i \in 2 .. 9 : HookConnect[i].do = "hook"
  BY <1>2, <1>4
<1>7. \A i \in 1 .. 9 : HookConnect[i].do \in {"hook", "vtables"}
  BY <1>5, <1>6
<1>8. InOrder(HookConnect)
  BY <1>4, <1>7, OrderFree
<1>9. \A do : do \notin {"hook", "vtables"} => Doing(HookConnect, do) = {}
  BY <1>4, <1>7 DEF Doing
<1> QED  BY <1>4, <1>5, <1>6, <1>8, <1>9

Stubs == <<"std_basic_string_constructor", "VarintSize32Fallback", "WriteString">>

\* The hooks on the logon message, and the functions of the client they call.
LEMMA MessagesPart ==
  /\ HookMessages \in Seq(Steps) /\ InOrder(HookMessages)
  /\ \A do : Doing(HookMessages, do) =
       IF do = "stub" THEN FunctionStubs
       ELSE IF do \in {"save", "write"} THEN Elements(MessageSlots) ELSE {}
<1> DEFINE set == Each("stub", Stubs)  saved == set \o Each("save", MessageSlots)
<1>1. Stubs \in Seq(Things) /\ Elements(Stubs) = FunctionStubs
  BY ThingsAre DEF Stubs, Elements, FunctionStubs
<1>2. /\ set \in Seq(Steps) /\ \A do : Doing(set, do) = IF do = "stub" THEN FunctionStubs ELSE {}
      /\ \A j \in 1 .. Len(set) : set[j].do = "stub"
  BY <1>1, EachIs, DoingEach, ActsAre
<1>3. InOrder(set)
  BY <1>2, OrderFree
<1>4. /\ Each("save", MessageSlots) \in Seq(Steps) /\ Each("write", MessageSlots) \in Seq(Steps)
      /\ \A do : Doing(Each("save", MessageSlots), do)
                   = IF do = "save" THEN Elements(MessageSlots) ELSE {}
      /\ \A do : Doing(Each("write", MessageSlots), do)
                   = IF do = "write" THEN Elements(MessageSlots) ELSE {}
      /\ \A j \in 1 .. Len(Each("save", MessageSlots)) : Each("save", MessageSlots)[j].do = "save"
  BY EachIs, DoingEach, ActsAre, ThingsAre
<1>5. HookMessages = saved \o Each("write", MessageSlots)
  <2>1. HookMessages = set \o (Each("save", MessageSlots) \o Each("write", MessageSlots))
    BY DEF HookMessages, SaveAndHook, Stubs
  <2>2. saved = set \o Each("save", MessageSlots)
    OBVIOUS
  <2> HIDE DEF set, saved
  <2>3. set \o (Each("save", MessageSlots) \o Each("write", MessageSlots))
          = (set \o Each("save", MessageSlots)) \o Each("write", MessageSlots)
    BY <1>2, <1>4, Regroup, Zenon
  <2> QED  BY <2>1, <2>2, <2>3, Zenon
<1> HIDE DEF set
<1>6. /\ saved \in Seq(Steps) /\ InOrder(saved)
      /\ \A do : Doing(saved, do) = IF do = "stub" THEN FunctionStubs
                                    ELSE IF do = "save" THEN Elements(MessageSlots) ELSE {}
  <2>1. InOrder(Each("save", MessageSlots))
    BY <1>4, OrderFree
  <2>2. saved \in Seq(Steps) /\ InOrder(saved)
    BY <1>2, <1>3, <1>4, <2>1, OrderBoth, ConcatProperties
  <2>3. \A do : Doing(saved, do) = Doing(set, do) \cup Doing(Each("save", MessageSlots), do)
    BY <1>2, <1>4, DoingConcat
  <2>4. \A do : Doing(saved, do) = IF do = "stub" THEN FunctionStubs
                                  ELSE IF do = "save" THEN Elements(MessageSlots) ELSE {}
    <3> HIDE DEF saved
    <3> TAKE do
    <3>1. /\ Doing(set, do) = IF do = "stub" THEN FunctionStubs ELSE {}
          /\ Doing(Each("save", MessageSlots), do)
               = IF do = "save" THEN Elements(MessageSlots) ELSE {}
          /\ Doing(saved, do) = Doing(set, do) \cup Doing(Each("save", MessageSlots), do)
      BY <1>2, <1>4, <2>3, Zenon
    <3> QED  BY <3>1
  <2> QED  BY <2>2, <2>4, Zenon
<1> HIDE DEF saved
<1>7. \A a \in Elements(MessageSlots) : \A u \in Needs([do |-> "write", arg |-> a]) :
        \E what \in Providers("write") : u \in Doing(saved, what)
  <2>1. \A a \in Elements(MessageSlots) : Uses(a) \subseteq FunctionStubs \cup Elements(MessageSlots)
    BY SlotsAre DEF Uses, FunctionStubs
  <2>2. \A a : Needs([do |-> "write", arg |-> a]) = Uses(a)
    BY DEF Needs
  <2>3. Providers("write") = {"save", "stub"}
    BY DEF Providers
  <2> QED  BY <1>6, <2>1, <2>2, <2>3
<1>8. HookMessages \in Seq(Steps) /\ InOrder(HookMessages)
  BY <1>4, <1>5, <1>6, <1>7, OrderEach, ConcatProperties, ActsAre, ThingsAre
<1>9. \A do : Doing(HookMessages, do) = Doing(saved, do) \cup Doing(Each("write", MessageSlots), do)
  BY <1>4, <1>5, <1>6, DoingConcat
<1>10. ASSUME NEW do
       PROVE  Doing(HookMessages, do)
                = IF do = "stub" THEN FunctionStubs
                  ELSE IF do \in {"save", "write"} THEN Elements(MessageSlots) ELSE {}
  <2>1. /\ Doing(saved, do) = IF do = "stub" THEN FunctionStubs
                              ELSE IF do = "save" THEN Elements(MessageSlots) ELSE {}
        /\ Doing(Each("write", MessageSlots), do)
             = IF do = "write" THEN Elements(MessageSlots) ELSE {}
        /\ Doing(HookMessages, do) = Doing(saved, do) \cup Doing(Each("write", MessageSlots), do)
    BY <1>4, <1>6, <1>9, Zenon
  <2> QED  BY <2>1
<1> QED  BY <1>8, <1>10, Zenon

\* A string is written if it is there.
LEMMA ReplacePart ==
  ASSUME NEW u \in UrlStrings
  PROVE  /\ ReplaceString(u) \in Seq(Steps) /\ InOrder(ReplaceString(u))
         /\ \A do : Doing(ReplaceString(u), do) =
              IF do = "write" THEN {u} \cap found ELSE {}
<1>1. CASE u \in found
  <2>1. /\ ReplaceString(u) = Each("write", <<u>>)
        /\ <<u>> \in Seq(Things) /\ Elements(<<u>>) = {u}
    BY <1>1, OpIsEach, ActsAre, ThingsAre DEF ReplaceString, If
  <2>2. Uses(u) = {}
    BY DEF Uses, UrlStrings
  <2> QED  BY <1>1, <2>1, <2>2, WritesFreely
<1>2. CASE u \notin found
  <2>1. ReplaceString(u) = << >>
    BY <1>2 DEF ReplaceString, If
  <2> QED  BY <1>2, <2>1, EmptyPart
<1> QED  BY <1>1, <1>2

LEMMA UrlsPart ==
  /\ PatchUrls \in Seq(Steps) /\ InOrder(PatchUrls)
  /\ \A do : Doing(PatchUrls, do) =
       IF do = "write" THEN UrlStrings \cap found
       ELSE IF do = "cdn" THEN {"InitCDNCache"} ELSE {}
<1> DEFINE two    == ReplaceString("media") \o ReplaceString("avatar")
           three  == two \o ReplaceString("full")
           writes == three \o ReplaceString("medium")
<1>1. "media" \in UrlStrings /\ "avatar" \in UrlStrings /\ "full" \in UrlStrings
        /\ "medium" \in UrlStrings
  BY DEF UrlStrings
<1>2. /\ two \in Seq(Steps) /\ InOrder(two)
      /\ \A do : Doing(two, do) = IF do = "write" THEN {"media", "avatar"} \cap found ELSE {}
  <2>1. two \in Seq(Steps) /\ InOrder(two)
    BY <1>1, ReplacePart, OrderBoth, ConcatProperties
  <2>2. \A do : Doing(two, do)
                  = Doing(ReplaceString("media"), do) \cup Doing(ReplaceString("avatar"), do)
    BY <1>1, ReplacePart, DoingConcat
  <2> HIDE DEF two
  <2>3. \A do : /\ Doing(ReplaceString("media"), do)
                     = IF do = "write" THEN {"media"} \cap found ELSE {}
                /\ Doing(ReplaceString("avatar"), do)
                     = IF do = "write" THEN {"avatar"} \cap found ELSE {}
    BY <1>1, ReplacePart
  <2> QED  BY <2>1, <2>2, <2>3
<1> HIDE DEF two
<1>3. /\ three \in Seq(Steps) /\ InOrder(three)
      /\ \A do : Doing(three, do)
           = IF do = "write" THEN {"media", "avatar", "full"} \cap found ELSE {}
  <2>1. three \in Seq(Steps) /\ InOrder(three)
    BY <1>1, <1>2, ReplacePart, OrderBoth, ConcatProperties
  <2>2. \A do : Doing(three, do) = Doing(two, do) \cup Doing(ReplaceString("full"), do)
    BY <1>1, <1>2, ReplacePart, DoingConcat
  <2> HIDE DEF three
  <2>3. \A do : Doing(ReplaceString("full"), do)
                  = IF do = "write" THEN {"full"} \cap found ELSE {}
    BY <1>1, ReplacePart
  <2> QED  BY <1>2, <2>1, <2>2, <2>3
<1> HIDE DEF three
<1>4. /\ writes \in Seq(Steps) /\ InOrder(writes)
      /\ \A do : Doing(writes, do) = IF do = "write" THEN UrlStrings \cap found ELSE {}
  <2>1. writes \in Seq(Steps) /\ InOrder(writes)
    BY <1>1, <1>3, ReplacePart, OrderBoth, ConcatProperties
  <2>2. \A do : Doing(writes, do) = Doing(three, do) \cup Doing(ReplaceString("medium"), do)
    BY <1>1, <1>3, ReplacePart, DoingConcat
  <2> HIDE DEF writes
  <2> QED  BY <1>1, <1>3, <2>1, <2>2, ReplacePart DEF UrlStrings
<1>5. PatchUrls = writes \o Op("cdn", "InitCDNCache")
  BY DEF PatchUrls, writes, three, two
<1> HIDE DEF writes
<1>6. "cdn" \in Acts \ {"write", "verify"} /\ "InitCDNCache" \in Things
  BY ActsAre, ThingsAre
<1>7. /\ PatchUrls \in Seq(Steps) /\ InOrder(PatchUrls)
      /\ \A do : Doing(PatchUrls, do)
                   = Doing(writes, do) \cup (IF do = "cdn" THEN {"InitCDNCache"} ELSE {})
  BY <1>4, <1>5, <1>6, OrderPlainOp
<1> QED  BY <1>4, <1>7

\* The LogOn hook: saved, written and read back, for Portal 2 only.
LEMMA LogOnPart ==
  /\ HookLogOn \in Seq(Steps) /\ InOrder(HookLogOn)
  /\ \A do : Doing(HookLogOn, do) =
       IF Portal2 /\ do \in {"save", "write", "verify"} THEN {"LogOn"} ELSE {}
<1>1. CASE Portal2
  <2> DEFINE hooked == SaveAndHook(<<"LogOn">>)
  <2>1. /\ Op("save", "LogOn") = Each("save", <<"LogOn">>)
        /\ Op("write", "LogOn") = Each("write", <<"LogOn">>)
        /\ <<"LogOn">> \in Seq(Things) /\ Elements(<<"LogOn">>) = {"LogOn"}
    BY OpIsEach, ActsAre, ThingsAre
  <2>2. HookLogOn = hooked \o Op("verify", "LogOn")
    BY <1>1, <2>1 DEF HookLogOn, If, SaveAndHook
  <2>3. Uses("LogOn") = {"LogOn"}
    BY SlotsAre DEF Uses, UrlStrings
  <2>4. /\ hooked \in Seq(Steps) /\ InOrder(hooked)
        /\ \A do : Doing(hooked, do) = IF do \in {"save", "write"} THEN {"LogOn"} ELSE {}
    BY <2>1, <2>3, SaveAndHookIs
  <2>5. /\ Needs([do |-> "verify", arg |-> "LogOn"]) = {"LogOn"}
        /\ "write" \in Providers("verify") /\ "LogOn" \in Doing(hooked, "write")
    BY <2>4 DEF Needs, Providers
  <2> HIDE DEF hooked
  <2>6. /\ HookLogOn \in Seq(Steps) /\ InOrder(HookLogOn)
        /\ \A do : Doing(HookLogOn, do)
                     = Doing(hooked, do) \cup (IF do = "verify" THEN {"LogOn"} ELSE {})
    BY <2>2, <2>4, <2>5, OrderOp, ActsAre, ThingsAre
  <2> QED  BY <1>1, <2>4, <2>6
<1>2. CASE ~Portal2
  <2>1. HookLogOn = << >>
    BY <1>2 DEF HookLogOn, If
  <2> QED  BY <1>2, <2>1, EmptyPart
<1> QED  BY <1>1, <1>2

-----------------------------------------------------------------------------
(* The whole program.                                                        *)

BeforeConnect ==
  Op("hook", "MemoryWriteCheck") \o ApplyOverlayHooks \o HookLobbySearch
    \o ApplyUserStatsHooks \o ApplyRemoteStorageHooks
AfterHook   == BeforeConnect \o HookConnect
BeforeLogOn == AfterHook \o HookMessages \o PatchUrls
HookStart   == Len(BeforeConnect) + 1     \* the hook's steps follow this one

\* The steps of the hook in a program, besides the first step of all.
HookAt(p, steps) == \A j \in 1 .. Len(p) : p[j].do = "hook" <=> j = 1 \/ j \in steps

\* Other parts leave the steps of the hook where they are.
LEMMA HookAtConcat ==
  ASSUME NEW s \in Seq(Steps), NEW t \in Seq(Steps), NEW steps \in SUBSET (1 .. Len(s)),
         HookAt(s, steps), Len(s) > 0, Doing(t, "hook") = {}
  PROVE  HookAt(s \o t, steps) /\ Len(s \o t) >= Len(s) /\ Len(s \o t) > 0
<1>1. /\ Len(s) \in Nat /\ Len(t) \in Nat /\ Len(s \o t) = Len(s) + Len(t)
      /\ \A i \in 1 .. Len(s) + Len(t) :
           (s \o t)[i] = IF i <= Len(s) THEN s[i] ELSE t[i - Len(s)]
  BY ConcatIs
<1>2. \A i \in 1 .. Len(t) : t[i].do # "hook"
  BY DEF Doing
<1>3. ASSUME NEW j \in 1 .. Len(s \o t)
      PROVE  (s \o t)[j].do = "hook" <=> j = 1 \/ j \in steps
  <2>1. CASE j <= Len(s)
    BY <1>1, <2>1 DEF HookAt
  <2>2. CASE ~(j <= Len(s))
    <3>1. j - Len(s) \in 1 .. Len(t) /\ (s \o t)[j] = t[j - Len(s)]
      BY <1>1, <2>2
    <3>2. j \notin steps /\ j # 1
      BY <1>1, <2>2
    <3> QED  BY <1>2, <3>1, <3>2
  <2> QED  BY <2>1, <2>2
<1> QED  BY <1>1, <1>3 DEF HookAt

\* What is before the hook.
LEMMA BeforeConnectIs ==
  /\ BeforeConnect \in Seq(Steps) /\ InOrder(BeforeConnect) /\ Len(BeforeConnect) > 0
  /\ HookAt(BeforeConnect, {})
  /\ Doing(BeforeConnect, "threads") = {}
  /\ Doing(BeforeConnect, "stub") = {}
  /\ \A do \in {"save", "write", "verify"} :
       Doing(BeforeConnect, do) =
         Doing(ApplyOverlayHooks, do) \cup Doing(HookLobbySearch, do)
           \cup Doing(ApplyUserStatsHooks, do) \cup Doing(ApplyRemoteStorageHooks, do)
<1> DEFINE p0 == Op("hook", "MemoryWriteCheck")
           p1 == p0 \o ApplyOverlayHooks
           p2 == p1 \o HookLobbySearch
           p3 == p2 \o ApplyUserStatsHooks
           p4 == p3 \o ApplyRemoteStorageHooks
<1>1. /\ p0 \in Seq(Steps) /\ Len(p0) = 1 /\ p0[1].do = "hook"
      /\ \A do : Doing(p0, do) = IF do = "hook" THEN {"MemoryWriteCheck"} ELSE {}
  <2>1. "hook" \in Acts /\ "MemoryWriteCheck" \in Things
    BY ActsAre, ThingsAre
  <2> QED  BY <2>1, OpIs, DoingOp, Zenon
<1> HIDE DEF p0
<1>2. InOrder(p0) /\ HookAt(p0, {})
  BY <1>1, OrderFree DEF HookAt
<1>3. /\ Doing(ApplyOverlayHooks, "hook") = {} /\ Doing(HookLobbySearch, "hook") = {}
      /\ Doing(ApplyUserStatsHooks, "hook") = {} /\ Doing(ApplyRemoteStorageHooks, "hook") = {}
  BY OverlayPart, LobbyPart, StatsPart, StoragePart
<1>4. /\ p1 \in Seq(Steps) /\ InOrder(p1) /\ HookAt(p1, {}) /\ Len(p1) > 0
      /\ \A do : Doing(p1, do) = Doing(p0, do) \cup Doing(ApplyOverlayHooks, do)
  BY <1>1, <1>2, <1>3, OverlayPart, ConcatProperties, OrderBoth, HookAtConcat, DoingConcat
<1> HIDE DEF p1
<1>5. /\ p2 \in Seq(Steps) /\ InOrder(p2) /\ HookAt(p2, {}) /\ Len(p2) > 0
      /\ \A do : Doing(p2, do) = Doing(p1, do) \cup Doing(HookLobbySearch, do)
  BY <1>3, <1>4, LobbyPart, ConcatProperties, OrderBoth, HookAtConcat, DoingConcat
<1> HIDE DEF p2
<1>6. /\ p3 \in Seq(Steps) /\ InOrder(p3) /\ HookAt(p3, {}) /\ Len(p3) > 0
      /\ \A do : Doing(p3, do) = Doing(p2, do) \cup Doing(ApplyUserStatsHooks, do)
  BY <1>3, <1>5, StatsPart, ConcatProperties, OrderBoth, HookAtConcat, DoingConcat
<1> HIDE DEF p3
<1>7. /\ p4 \in Seq(Steps) /\ InOrder(p4) /\ HookAt(p4, {}) /\ Len(p4) > 0
      /\ \A do : Doing(p4, do) = Doing(p3, do) \cup Doing(ApplyRemoteStorageHooks, do)
  BY <1>3, <1>6, StoragePart, ConcatProperties, OrderBoth, HookAtConcat, DoingConcat
<1>8. BeforeConnect = p4
  BY DEF BeforeConnect, p0, p1, p2, p3
<1> HIDE DEF p4
<1>9. \A do : Doing(p4, do) =
         Doing(p0, do) \cup Doing(ApplyOverlayHooks, do) \cup Doing(HookLobbySearch, do)
           \cup Doing(ApplyUserStatsHooks, do) \cup Doing(ApplyRemoteStorageHooks, do)
  BY <1>4, <1>5, <1>6, <1>7
<1>10. Doing(p4, "threads") = {} /\ Doing(p4, "stub") = {}
  <2>1. ASSUME NEW do \in {"threads", "stub"}
        PROVE  /\ Doing(ApplyOverlayHooks, do) = {} /\ Doing(HookLobbySearch, do) = {}
               /\ Doing(ApplyUserStatsHooks, do) = {} /\ Doing(ApplyRemoteStorageHooks, do) = {}
    BY OverlayPart, LobbyPart, StatsPart, StoragePart
  <2>2. Doing(p0, "threads") = {} /\ Doing(p0, "stub") = {}
    BY <1>1
  <2> QED  BY <1>9, <2>1, <2>2
<1>11. \A do \in {"save", "write", "verify"} : Doing(p0, do) = {}
  BY <1>1
<1> QED  BY <1>7, <1>8, <1>9, <1>10, <1>11

\* The program p begins with s.
Starts(p, s) == Len(s) <= Len(p) /\ \A i \in 1 .. Len(s) : p[i] = s[i]

LEMMA StartsConcat ==
  ASSUME NEW s \in Seq(Steps), NEW t \in Seq(Steps)
  PROVE  /\ Starts(s \o t, s)
         /\ \A r \in Seq(Steps) : Starts(s, r) => Starts(s \o t, r)
<1>1. /\ Len(s) \in Nat /\ Len(t) \in Nat /\ Len(s \o t) = Len(s) + Len(t)
      /\ \A i \in 1 .. Len(s) + Len(t) :
           (s \o t)[i] = IF i <= Len(s) THEN s[i] ELSE t[i - Len(s)]
  BY ConcatIs
<1>2. \A i \in 1 .. Len(s) : (s \o t)[i] = s[i]
  BY <1>1
<1>3. \A r \in Seq(Steps) : Len(r) \in Nat
  BY LenProperties
<1> QED  BY <1>1, <1>2, <1>3 DEF Starts

\* What a beginning does not do is done later, ...
LEMMA DoneLater ==
  ASSUME NEW p \in Seq(Steps), NEW s \in Seq(Steps), Starts(p, s), NEW do, NEW arg,
         arg \notin Doing(s, do)
  PROVE  \A j \in 1 .. Len(p) : p[j].do = do /\ p[j].arg = arg => j > Len(s)
<1>1. Len(s) \in Nat /\ Len(p) \in Nat
  BY LenProperties
<1> SUFFICES ASSUME NEW j \in 1 .. Len(p), p[j].do = do, p[j].arg = arg, ~(j > Len(s))
             PROVE  FALSE
  OBVIOUS
<1>2. j \in 1 .. Len(s)
  BY <1>1
<1>3. s[j].do = do /\ s[j].arg = arg
  BY <1>2 DEF Starts
<1> QED  BY <1>2, <1>3 DEF Doing

\* ... and what it does is done in it.
LEMMA DoneEarly ==
  ASSUME NEW p \in Seq(Steps), NEW s \in Seq(Steps), Starts(p, s), NEW do, NEW arg \in Doing(s, do)
  PROVE  \E k \in 1 .. Len(s) : k <= Len(p) /\ p[k].do = do /\ p[k].arg = arg
<1>1. Len(s) \in Nat /\ Len(p) \in Nat
  BY LenProperties
<1>2. PICK k \in 1 .. Len(s) : s[k].do = do /\ s[k].arg = arg
  BY Zenon DEF Doing
<1> QED  BY <1>1, <1>2 DEF Starts

\* The eight steps of the hook follow the look-up of the vtables.
LEMMA AfterHookIs ==
  /\ AfterHook \in Seq(Steps) /\ InOrder(AfterHook)
  /\ HookStart \in Nat /\ HookStart > 1 /\ Len(AfterHook) = HookStart + 8
  /\ HookAt(AfterHook, HookStart + 1 .. HookStart + 8)
  /\ \A do : do \notin {"hook", "vtables"} => Doing(AfterHook, do) = Doing(BeforeConnect, do)
<1>0. BeforeConnect \in Seq(Steps) /\ HookConnect \in Seq(Steps) /\ Len(HookConnect) = 9
  BY BeforeConnectIs, ConnectPart
<1>1. /\ AfterHook \in Seq(Steps) /\ Len(AfterHook) = Len(BeforeConnect) + 9
      /\ \A i \in 1 .. Len(BeforeConnect) + 9 :
           AfterHook[i] = IF i <= Len(BeforeConnect) THEN BeforeConnect[i]
                          ELSE HookConnect[i - Len(BeforeConnect)]
  <2>1. /\ Len(AfterHook) = Len(BeforeConnect) + Len(HookConnect) /\ AfterHook \in Seq(Steps)
        /\ \A i \in 1 .. Len(BeforeConnect) + Len(HookConnect) :
             AfterHook[i] = IF i <= Len(BeforeConnect) THEN BeforeConnect[i]
                            ELSE HookConnect[i - Len(BeforeConnect)]
    BY <1>0, ConcatProperties, Zenon DEF AfterHook
  <2> QED  BY <1>0, <2>1
<1>2. Len(BeforeConnect) \in Nat /\ Len(BeforeConnect) > 0
  BY BeforeConnectIs, LenProperties
<1>3. HookStart \in Nat /\ HookStart > 1 /\ Len(AfterHook) = HookStart + 8
  BY <1>1, <1>2 DEF HookStart
<1>4. InOrder(AfterHook)
  BY BeforeConnectIs, ConnectPart, OrderBoth DEF AfterHook
<1>5. \A do : do \notin {"hook", "vtables"} => Doing(AfterHook, do) = Doing(BeforeConnect, do)
  <2>1. \A do : Doing(AfterHook, do) = Doing(BeforeConnect, do) \cup Doing(HookConnect, do)
    BY <1>0, DoingConcat DEF AfterHook
  <2>2. \A do : do \notin {"hook", "vtables"} => Doing(HookConnect, do) = {}
    BY ConnectPart
  <2> QED  BY <2>1, <2>2
<1>6. ASSUME NEW j \in 1 .. Len(AfterHook)
      PROVE  AfterHook[j].do = "hook" <=> j = 1 \/ j \in HookStart + 1 .. HookStart + 8
  <2>1. CASE j <= Len(BeforeConnect)
    <3>1. j \in 1 .. Len(BeforeConnect) /\ AfterHook[j] = BeforeConnect[j]
      BY <1>1, <1>2, <2>1
    <3>2. BeforeConnect[j].do = "hook" <=> j = 1
      BY <3>1, BeforeConnectIs DEF HookAt
    <3> QED  BY <1>2, <2>1, <3>1, <3>2 DEF HookStart
  <2>2. CASE ~(j <= Len(BeforeConnect))
    <3> DEFINE i == j - Len(BeforeConnect)
    <3>1. i \in 1 .. 9 /\ AfterHook[j] = HookConnect[i] /\ j # 1
      <4>1. j \in 1 .. Len(BeforeConnect) + 9 /\ i \in 1 .. 9 /\ j # 1
        BY <1>1, <1>2, <2>2
      <4> QED  BY <1>1, <2>2, <4>1, Zenon
    <3>2. HookConnect[i].do = "hook" <=> i # 1
      <4> HIDE DEF i
      <4>1. HookConnect[1].do = "vtables" /\ \A k \in 2 .. 9 : HookConnect[k].do = "hook"
        BY ConnectPart
      <4>2. CASE i = 1
        BY <4>1, <4>2
      <4>3. CASE i # 1
        <5>1. i \in 2 .. 9
          BY <3>1, <4>3
        <5> QED  BY <4>1, <4>3, <5>1
      <4> QED  BY <4>2, <4>3
    <3>3. j \in HookStart + 1 .. HookStart + 8 <=> i # 1
      BY <1>2, <3>1 DEF HookStart
    <3> QED  BY <3>1, <3>2, <3>3
  <2> QED  BY <2>1, <2>2
<1> QED  BY <1>1, <1>3, <1>4, <1>5, <1>6 DEF HookAt

\* All that is written before the LogOn hook.
LEMMA BeforeLogOnIs ==
  /\ BeforeLogOn \in Seq(Steps) /\ InOrder(BeforeLogOn)
  /\ HookAt(BeforeLogOn, HookStart + 1 .. HookStart + 8)
  /\ Len(BeforeLogOn) >= HookStart + 8
  /\ Starts(BeforeLogOn, AfterHook)
  /\ Doing(BeforeLogOn, "threads") = {}
  /\ Doing(BeforeLogOn, "stub") = FunctionStubs
  /\ \A do \in {"save", "write"} : Doing(BeforeLogOn, do) \subseteq Slots \ {"LogOn"}
  /\ Doing(BeforeLogOn, "write")
       = Doing(BeforeConnect, "write") \cup Elements(MessageSlots) \cup (UrlStrings \cap found)
<1> DEFINE p == AfterHook \o HookMessages
           steps == HookStart + 1 .. HookStart + 8
<1>1. /\ Doing(HookMessages, "hook") = {} /\ Doing(PatchUrls, "hook") = {}
      /\ Doing(HookMessages, "threads") = {} /\ Doing(PatchUrls, "threads") = {}
      /\ Doing(HookMessages, "stub") = FunctionStubs /\ Doing(PatchUrls, "stub") = {}
      /\ Doing(HookMessages, "save") = Elements(MessageSlots) /\ Doing(PatchUrls, "save") = {}
      /\ Doing(HookMessages, "write") = Elements(MessageSlots)
      /\ Doing(PatchUrls, "write") = UrlStrings \cap found
  BY MessagesPart, UrlsPart
<1>2. steps \in SUBSET (1 .. Len(AfterHook)) /\ Len(AfterHook) > 0 /\ Len(AfterHook) \in Nat
  BY AfterHookIs
<1>3. /\ p \in Seq(Steps) /\ InOrder(p) /\ Starts(p, AfterHook)
      /\ \A do : Doing(p, do) = Doing(AfterHook, do) \cup Doing(HookMessages, do)
  BY AfterHookIs, MessagesPart, ConcatProperties, OrderBoth, StartsConcat, DoingConcat
<1>4. HookAt(p, steps) /\ Len(p) >= Len(AfterHook) /\ Len(p) > 0
  <2> HIDE DEF steps
  <2> QED  BY <1>1, <1>2, AfterHookIs, MessagesPart, HookAtConcat DEF steps
<1>5. Len(p) \in Nat /\ steps \in SUBSET (1 .. Len(p))
  BY <1>2, <1>3, <1>4, LenProperties
<1>6. BeforeLogOn = p \o PatchUrls
  BY DEF BeforeLogOn
<1> HIDE DEF p, steps
<1>7. /\ BeforeLogOn \in Seq(Steps) /\ InOrder(BeforeLogOn) /\ Starts(BeforeLogOn, AfterHook)
      /\ \A do : Doing(BeforeLogOn, do) = Doing(p, do) \cup Doing(PatchUrls, do)
  BY <1>3, <1>6, AfterHookIs, UrlsPart, ConcatProperties, OrderBoth, StartsConcat, DoingConcat
<1>8. HookAt(BeforeLogOn, steps) /\ Len(BeforeLogOn) >= Len(p)
  BY <1>1, <1>3, <1>4, <1>5, <1>6, UrlsPart, HookAtConcat
<1>9. Len(BeforeLogOn) >= HookStart + 8
  BY <1>4, <1>5, <1>7, <1>8, AfterHookIs, LenProperties
<1>10. \A do \in {"save", "write", "stub", "threads"} :
         Doing(BeforeLogOn, do) = Doing(BeforeConnect, do) \cup Doing(HookMessages, do)
                                    \cup Doing(PatchUrls, do)
  BY <1>3, <1>7, AfterHookIs
<1>11. \A do \in {"save", "write"} : Doing(BeforeConnect, do) \subseteq Slots \ {"LogOn"}
  <2>1. \A do : /\ Doing(ApplyOverlayHooks, do) \subseteq Elements(OverlaySlots)
                /\ Doing(HookLobbySearch, do) \subseteq {"RequestLobbyList"}
                /\ Doing(ApplyUserStatsHooks, do) \subseteq Elements(StatsSlots)
                /\ Doing(ApplyRemoteStorageHooks, do) \subseteq Elements(StorageSlots)
    BY OverlayPart, LobbyPart, StatsPart, StoragePart
  <2>2. Elements(OverlaySlots) \cup {"RequestLobbyList"} \cup Elements(StatsSlots)
          \cup Elements(StorageSlots) \subseteq Slots \ {"LogOn"}
    BY SlotsAre DEF Slots
  <2> QED  BY <2>1, <2>2, BeforeConnectIs
<1>12. Elements(MessageSlots) \cup UrlStrings \subseteq Slots \ {"LogOn"}
  BY SlotsAre DEF Slots, UrlStrings
<1>13. \A do \in {"save", "write"} : Doing(BeforeLogOn, do) \subseteq Slots \ {"LogOn"}
  BY <1>1, <1>10, <1>11, <1>12
<1>14. Doing(BeforeLogOn, "threads") = {} /\ Doing(BeforeLogOn, "stub") = FunctionStubs
  BY <1>1, <1>10, BeforeConnectIs
<1>15. Doing(BeforeLogOn, "write")
         = Doing(BeforeConnect, "write") \cup Elements(MessageSlots) \cup (UrlStrings \cap found)
  BY <1>1, <1>10
<1> QED  BY <1>7, <1>8, <1>9, <1>13, <1>14, <1>15 DEF steps

\* All of the program: what it relies on where it is; where the hook's steps
\* are; and that the LogOn hook, and after it the threads, are the last.
LEMMA ProgramIs ==
  /\ Program \in Seq(Steps) /\ InOrder(Program) /\ Len(Program) > HookStart + 8
  /\ HookAt(Program, HookStart + 1 .. HookStart + 8)
  /\ Starts(Program, AfterHook) /\ Starts(Program, BeforeLogOn)
  /\ Doing(Program, "stub") = FunctionStubs
  /\ \A do \in {"save", "write"} : Doing(Program, do) \subseteq Slots
  /\ Portal2 => "LogOn" \in Doing(Program, "verify")
  /\ "LogOn" \in Doing(Program, "write") => Portal2
  /\ Doing(Program, "write") \subseteq Doing(BeforeLogOn, "write") \cup {"LogOn"}
  /\ \A j \in 1 .. Len(Program) : Program[j].do = "threads" => j = Len(Program)
<1> DEFINE p == BeforeLogOn \o HookLogOn
           last == Op("threads", "shill")
           steps == HookStart + 1 .. HookStart + 8
<1>1. /\ Doing(HookLogOn, "hook") = {} /\ Doing(HookLogOn, "threads") = {}
      /\ Doing(HookLogOn, "stub") = {}
      /\ \A do \in {"save", "write"} : Doing(HookLogOn, do) \subseteq {"LogOn"}
      /\ Portal2 => Doing(HookLogOn, "verify") = {"LogOn"}
  BY LogOnPart
<1>2. /\ HookStart \in Nat /\ Len(BeforeLogOn) \in Nat /\ Len(BeforeLogOn) > 0
      /\ steps \in SUBSET (1 .. Len(BeforeLogOn))
  BY AfterHookIs, BeforeLogOnIs, LenProperties
<1>3. HookAt(BeforeLogOn, steps)
  BY BeforeLogOnIs
<1>4. last \in Seq(Steps) /\ Len(last) = 1 /\ \A do : Doing(last, do) = IF do = "threads" THEN {"shill"} ELSE {}
  BY OpIs, DoingOp, ActsAre, ThingsAre
<1> HIDE DEF steps, last
<1>5. /\ p \in Seq(Steps) /\ InOrder(p) /\ Starts(p, BeforeLogOn) /\ Starts(p, AfterHook)
      /\ \A do : Doing(p, do) = Doing(BeforeLogOn, do) \cup Doing(HookLogOn, do)
  BY AfterHookIs, BeforeLogOnIs, LogOnPart, ConcatProperties, OrderBoth, StartsConcat, DoingConcat
<1>6. HookAt(p, steps) /\ Len(p) >= Len(BeforeLogOn) /\ Len(p) > 0 /\ Len(p) \in Nat
  <2>1. HookAt(p, steps) /\ Len(p) >= Len(BeforeLogOn) /\ Len(p) > 0
    BY <1>1, <1>2, <1>3, BeforeLogOnIs, LogOnPart, HookAtConcat
  <2> QED  BY <1>5, <2>1, LenProperties
<1>7. Program = p \o last
  BY DEF Program, BeforeLogOn, AfterHook, BeforeConnect, last
<1> HIDE DEF p
<1>8. InOrder(last)
  <2>1. \A j \in 1 .. Len(last) : last[j].do \notin {"write", "verify"}
    BY <1>4 DEF Doing
  <2> QED  BY <1>4, <2>1, OrderFree
<1>9. /\ Program \in Seq(Steps) /\ InOrder(Program) /\ Len(Program) = Len(p) + Len(last)
  BY <1>4, <1>5, <1>7, <1>8, ConcatProperties, OrderBoth
<1>10. /\ Starts(Program, p) /\ Starts(Program, BeforeLogOn) /\ Starts(Program, AfterHook)
  <2>1. AfterHook \in Seq(Steps) /\ BeforeLogOn \in Seq(Steps)
    BY AfterHookIs, BeforeLogOnIs
  <2> QED  BY <1>4, <1>5, <1>7, <2>1, StartsConcat
<1>11. \A do : Doing(Program, do) = Doing(p, do) \cup Doing(last, do)
  BY <1>4, <1>5, <1>7, DoingConcat
<1>12. Doing(last, "hook") = {} /\ steps \in SUBSET (1 .. Len(p))
  BY <1>2, <1>4, <1>6
<1>13. HookAt(Program, steps)
  BY <1>4, <1>5, <1>6, <1>7, <1>12, HookAtConcat
<1>14. Doing(Program, "stub") = FunctionStubs
  <2>1. Doing(last, "stub") = {}
    BY <1>4
  <2>2. Doing(Program, "stub") = Doing(BeforeLogOn, "stub") \cup {} \cup {}
    BY <1>1, <1>5, <1>11, <2>1
  <2> QED  BY <2>2, BeforeLogOnIs
<1>15. ASSUME NEW do \in {"save", "write"}
       PROVE  Doing(Program, do) \subseteq Slots
  <2>1. "LogOn" \in Slots
    BY DEF Slots
  <2>2. Doing(last, do) = {}
    BY <1>4
  <2> QED  BY <1>1, <1>5, <1>11, <2>1, <2>2, BeforeLogOnIs
<1>16. Portal2 => "LogOn" \in Doing(Program, "verify")
  BY <1>1, <1>5, <1>11
<1>17. "LogOn" \in Doing(Program, "write") => Portal2
  <2>1. Doing(last, "write") = {} /\ "LogOn" \notin Doing(BeforeLogOn, "write")
    BY <1>4, BeforeLogOnIs
  <2>2. ~Portal2 => Doing(HookLogOn, "write") = {}
    BY LogOnPart
  <2>3. Doing(Program, "write")
          = Doing(BeforeLogOn, "write") \cup Doing(HookLogOn, "write") \cup Doing(last, "write")
    BY <1>5, <1>11
  <2> QED  BY <2>1, <2>2, <2>3
<1>18. ASSUME NEW j \in 1 .. Len(Program), Program[j].do = "threads"
       PROVE  j = Len(Program)
  <2>1. Program[j].arg \notin Doing(p, "threads")
    BY <1>1, <1>5, BeforeLogOnIs
  <2>2. j > Len(p)
    BY <1>5, <1>9, <1>10, <1>18, <2>1, DoneLater
  <2> QED  BY <1>4, <1>6, <1>9, <2>2
<1>19. Len(Program) > HookStart + 8
  BY <1>2, <1>4, <1>6, <1>9, BeforeLogOnIs
<1>20. Doing(Program, "write") \subseteq Doing(BeforeLogOn, "write") \cup {"LogOn"}
  <2>1. Doing(last, "write") = {}
    BY <1>4
  <2> QED  BY <1>1, <1>5, <1>11, <2>1
<1> QED
  BY <1>9, <1>10, <1>13, <1>14, <1>15, <1>16, <1>18, <1>19, <1>17, <1>20 DEF steps

-----------------------------------------------------------------------------
(* The invariant of the loader.  Its delicate part is that writes may begin  *)
(* to fail: a slot that holds a hook shows that all writes before it had     *)
(* effect, as those that fail are the last ones.                             *)

\* The steps of the hook are counted by hookStep.
Counted ==
  hookStep = IF at = 1 THEN 0 ELSE IF at <= HookStart + 1 THEN 1
             ELSE IF at <= HookStart + 9 THEN at - HookStart ELSE 9

\* What has been done so far: saved for good, written as long as writes work.
ReadyNow   == \A k \in 1 .. at - 1 : Program[k].do \in {"save", "stub"} => Program[k].arg \in ready
AllWritten == \A k \in 1 .. at - 1 : Program[k].do = "write" /\ Writable => Program[k].arg \in patched

\* The step that hooked a slot; what the program writes before it is written.
WrittenAt(j, s) ==
  /\ Program[j].do = "write" /\ Program[j].arg = s
  /\ \A k \in 1 .. j - 1 : Program[k].do = "write" => Program[k].arg \in patched
  /\ j > HookStart + 8 => tocCopied /\ Hooked
WrittenInOrder == \A s \in patched : \E j \in 1 .. at - 1 : WrittenAt(j, s)

\* What was read back and was not there has been noticed.
ReadBack ==
  \A k \in 1 .. at - 1 : Program[k].do = "verify" => Program[k].arg \in patched \/ memwrite_failed

\* What is noticed is true, and is what the message at the end is about.
Told ==
  /\ memwrite_failed => syscalls = {}
  /\ shill # "none" => Done
  /\ shill = "welcome" => ~memwrite_failed
  /\ shill = "error" => memwrite_failed

OrderInv ==
  /\ at \in 1 .. Len(Program) + 1
  /\ Counted /\ KindKept /\ EntryWritten
  /\ ReadyNow /\ AllWritten /\ WrittenInOrder /\ ReadBack /\ Told

LEMMA ProgramStays ==
  [Next]_vars => Program' = Program /\ HookStart' = HookStart /\ Portal2' = Portal2 /\ found' = found
<1> SUFFICES ASSUME [Next]_vars
             PROVE  Program' = Program /\ HookStart' = HookStart /\ Portal2' = Portal2 /\ found' = found
  OBVIOUS
<1>1. found' = found /\ use_v2_cmsgclientlogon' = use_v2_cmsgclientlogon
  BY Zenon DEF Next, Loader, Disable, ClientStep, Caller, NewCall, vars, startVars
<1>2. HookStart' = HookStart
  BY <1>1 DEF HookStart, BeforeConnect, ApplyOverlayHooks, HookLobbySearch, ApplyUserStatsHooks,
     ApplyRemoteStorageHooks, If, Portal2, Op, Each, SaveAndHook
<1>3. Portal2' = Portal2
  BY <1>1 DEF Portal2
<1> QED  BY <1>1, <1>2, <1>3, ProgramFixed

LEMMA OrderInvInit == Init => OrderInv
<1> SUFFICES ASSUME Init
             PROVE  OrderInv
  OBVIOUS
<1>1. /\ at = 1 /\ patched = {} /\ memwrite_failed = FALSE /\ shill = "none" /\ hookStep = 0
  BY DEF Init, InitHook
<1>2. Len(Program) \in Nat
  BY ProgramIs, LenProperties
<1> QED  BY <1>1, <1>2 DEF OrderInv, Counted, KindKept, EntryWritten, ReadyNow, AllWritten,
            WrittenInOrder, ReadBack, Told

\* What a step of the loader does, whatever it is.
LEMMA LoaderTakes ==
  ASSUME OrderInv, Loader
  PROVE  /\ at \in 1 .. Len(Program) /\ at' = at + 1
         /\ \E op : /\ op = Program[at]
                   /\ \/ Save(op) \/ Write(op) \/ Verify(op) \/ SetStub(op) \/ HookStep(op)
                      \/ FindVtables(op) \/ InitCDNCache(op) \/ Threads(op)
<1>1. ~Done /\ at' = at + 1
  BY Zenon DEF Loader
<1>2. at \in 1 .. Len(Program)
  BY <1>1, ProgramIs, LenProperties DEF Done, OrderInv
<1>3. \E op \in {Program[at]} :
        \/ Save(op) \/ Write(op) \/ Verify(op) \/ SetStub(op) \/ HookStep(op)
        \/ FindVtables(op) \/ InitCDNCache(op) \/ Threads(op)
  BY Zenon DEF Loader
<1> QED  BY <1>1, <1>2, <1>3, Zenon

\* What a step changes, by what it does.
LEMMA LoaderDoes ==
  ASSUME NEW op,
         \/ Save(op) \/ Write(op) \/ Verify(op) \/ SetStub(op) \/ HookStep(op)
         \/ FindVtables(op) \/ InitCDNCache(op) \/ Threads(op)
  PROVE  /\ hookStep' = IF op.do = "hook" THEN hookStep + 1 ELSE hookStep
         /\ ready' = IF op.do \in {"save", "stub"} THEN ready \cup {op.arg} ELSE ready
         /\ patched' = IF op.do = "write" /\ Writable THEN patched \cup {op.arg} ELSE patched
         /\ op.do # "threads" => shill' = shill
         /\ op.do # "hook" => hookVars' = hookVars
<1>1. ASSUME hookVars' = hookVars
      PROVE  hookStep' = hookStep
  BY <1>1 DEF hookVars
<1>3. CASE Save(op)
  BY <1>1, <1>3 DEF Save
<1>4. CASE Write(op)
  BY <1>1, <1>4 DEF Write, Written
<1>5. CASE Verify(op)
  <2>1. op.do = "verify" /\ UNCHANGED <<hookVars, patched, ready, shill>>
    BY <1>5 DEF Verify
  <2> QED  BY <1>1, <2>1
<1>6. CASE SetStub(op)
  BY <1>1, <1>6 DEF SetStub
<1>7. CASE HookStep(op)
  <2>1. hookStep' = hookStep + 1
    BY <1>7 DEF HookStep, LoaderStep, MemoryWriteCheck, CopyToc, SetPluginTOCBase, HookFunction, LoaderAt
  <2> QED  BY <1>7, <2>1 DEF HookStep
<1>8. CASE FindVtables(op)
  <2>1. op.do = "vtables" /\ UNCHANGED <<hookVars, patched, ready, shill>>
    BY <1>8, Zenon DEF FindVtables
  <2> QED  BY <1>1, <2>1
<1>9. CASE InitCDNCache(op)
  <2>1. op.do = "cdn" /\ UNCHANGED <<hookVars, patched, ready, shill>>
    BY <1>9, Zenon DEF InitCDNCache
  <2> QED  BY <1>1, <2>1
<1>10. CASE Threads(op)
  <2>1. op.do = "threads" /\ UNCHANGED <<hookVars, patched, ready>>
    BY <1>10, Zenon DEF Threads
  <2> QED  BY <1>1, <2>1
<1> QED  BY <1>3, <1>4, <1>5, <1>6, <1>7, <1>8, <1>9, <1>10

\* What the loader notices, and says at the end.
LEMMA LoaderTells ==
  ASSUME NEW op,
         \/ Save(op) \/ Write(op) \/ Verify(op) \/ SetStub(op) \/ HookStep(op)
         \/ FindVtables(op) \/ InitCDNCache(op) \/ Threads(op)
  PROVE  /\ memwrite_failed => memwrite_failed'
         /\ memwrite_failed' => memwrite_failed \/ (op.do = "verify" /\ op.arg \notin patched)
         /\ op.do = "verify" /\ op.arg \notin patched => memwrite_failed'
         /\ op.do = "threads" /\ shill' = "error" => memwrite_failed
         /\ op.do = "threads" /\ shill' = "welcome" => ~memwrite_failed
<1>1. CASE Verify(op)
  <2>1. op.do = "verify" /\ (memwrite_failed' <=> memwrite_failed \/ op.arg \notin patched)
    BY <1>1, Zenon DEF Verify
  <2> QED  BY <2>1
<1>2. CASE Threads(op)
  <2>1. op.do = "threads" /\ (memwrite_failed' <=> memwrite_failed)
    BY <1>2, Zenon DEF Threads
  <2>2. memwrite_failed => shill' = "error"
    BY <1>2, Zenon DEF Threads
  <2>3. ~memwrite_failed => shill' = "welcome"
    BY <1>2, Zenon DEF Threads
  <2> QED  BY <2>1, <2>2, <2>3
<1>3. CASE ~Verify(op) /\ ~Threads(op)
  <2>1. op.do \notin {"verify", "threads"} /\ (memwrite_failed' <=> memwrite_failed)
    BY <1>3 DEF Save, Write, SetStub, HookStep, FindVtables, InitCDNCache
  <2> QED  BY <2>1
<1> QED  BY <1>1, <1>2, <1>3

\* The loader's step preserves all of this.
LEMMA LoaderKeeps == HookInv /\ OrderInv /\ Loader /\ [Next]_vars => OrderInv'
<1> SUFFICES ASSUME HookInv, OrderInv, Loader, [Next]_vars
             PROVE  OrderInv'
  OBVIOUS
<1>1. Program' = Program /\ HookStart' = HookStart
  BY ProgramStays
<1>2. at \in 1 .. Len(Program) /\ at' = at + 1
  BY LoaderTakes
<1>3. PICK op : /\ op = Program[at]
                /\ \/ Save(op) \/ Write(op) \/ Verify(op) \/ SetStub(op) \/ HookStep(op)
                   \/ FindVtables(op) \/ InitCDNCache(op) \/ Threads(op)
  BY LoaderTakes, Zenon
<1>4. /\ hookStep' = IF op.do = "hook" THEN hookStep + 1 ELSE hookStep
      /\ ready' = IF op.do \in {"save", "stub"} THEN ready \cup {op.arg} ELSE ready
      /\ patched' = IF op.do = "write" /\ Writable THEN patched \cup {op.arg} ELSE patched
      /\ op.do # "threads" => shill' = shill
      /\ op.do # "hook" => hookVars' = hookVars
  BY <1>3, LoaderDoes
<1>5. /\ memwrite_failed => memwrite_failed'
      /\ memwrite_failed' => memwrite_failed \/ (op.do = "verify" /\ op.arg \notin patched)
      /\ op.do = "verify" /\ op.arg \notin patched => memwrite_failed'
      /\ op.do = "threads" /\ shill' = "error" => memwrite_failed
      /\ op.do = "threads" /\ shill' = "welcome" => ~memwrite_failed
  BY <1>3, LoaderTells
<1>6. [NextHook]_hookVars
  BY StepIsHookStep
<1>7. /\ Hooked => Hooked'
      /\ tocCopied => tocCopied'
      /\ syscalls = {} => syscalls' = {}
      /\ hookStep > 0 /\ Writable' => Writable
      /\ KindKept' /\ EntryWritten'
  BY <1>6, HookGoesOn DEF OrderInv
<1>8. Len(Program) \in Nat /\ HookStart \in Nat /\ HookStart > 1
  BY ProgramIs, AfterHookIs, LenProperties
<1>9. op.do = "hook" <=> at = 1 \/ at \in HookStart + 1 .. HookStart + 8
  BY <1>2, <1>3, ProgramIs DEF HookAt
<1>10. Counted'
  <2>1. hookStep = IF at = 1 THEN 0 ELSE IF at <= HookStart + 1 THEN 1
                   ELSE IF at <= HookStart + 9 THEN at - HookStart ELSE 9
    BY DEF OrderInv, Counted
  <2>2. hookStep' = IF at' = 1 THEN 0 ELSE IF at' <= HookStart + 1 THEN 1
                    ELSE IF at' <= HookStart + 9 THEN at' - HookStart ELSE 9
    BY <1>2, <1>4, <1>8, <1>9, <2>1
  <2> QED  BY <1>1, <2>2, Zenon DEF Counted
<1>11. \A k \in 1 .. at' - 1 : k \in 1 .. at - 1 \/ k = at
  BY <1>2
<1>12. patched \subseteq patched' /\ ready \subseteq ready'
  BY <1>4
<1>13. ReadyNow'
  BY <1>1, <1>3, <1>4, <1>11, <1>12 DEF OrderInv, ReadyNow
<1>14. at > 1 => hookStep > 0
  BY <1>2, <1>8 DEF OrderInv, Counted
<1>15. op.do = "write" => (Writable' <=> Writable)
  BY <1>4 DEF hookVars, kernelVars, Writable
<1>16. AllWritten'
  <2> SUFFICES ASSUME NEW k \in 1 .. at' - 1, Program[k].do = "write", Writable'
               PROVE  Program[k].arg \in patched'
    BY <1>1 DEF AllWritten
  <2>1. CASE k = at
    BY <1>3, <1>4, <1>15, <2>1
  <2>2. CASE k \in 1 .. at - 1
    <3>1. Writable
      BY <1>2, <1>7, <1>14, <2>2
    <3> QED  BY <1>12, <2>2, <3>1 DEF OrderInv, AllWritten
  <2> QED  BY <1>11, <2>1, <2>2
<1>17. WrittenInOrder'
  <2> SUFFICES ASSUME NEW s \in patched'
               PROVE  \E j \in 1 .. at' - 1 : WrittenAt(j, s)'
    BY Zenon DEF WrittenInOrder
  <2>1. CASE s \in patched
    <3>1. PICK j \in 1 .. at - 1 : WrittenAt(j, s)
      BY <2>1 DEF OrderInv, WrittenInOrder
    <3>2. WrittenAt(j, s)'
      BY <1>1, <1>7, <1>12, <3>1 DEF WrittenAt
    <3> QED  BY <1>2, <3>1, <3>2
  <2>2. CASE s \notin patched
    <3>1. op.do = "write" /\ op.arg = s /\ Writable
      BY <1>4, <2>2
    <3>2. \A k \in 1 .. at - 1 : Program[k].do = "write" => Program[k].arg \in patched
      BY <3>1 DEF OrderInv, AllWritten
    <3>3. ASSUME at > HookStart + 8
          PROVE  tocCopied /\ Hooked
      <4>1. at > HookStart + 9 \/ op.do = "hook" \/ at = HookStart + 9
        BY <1>2, <1>8, <3>3
      <4>2. hookStep = 9
        BY <1>2, <1>8, <3>3 DEF OrderInv, Counted
      <4> QED  BY <3>1, <4>2 DEF OrderInv, EntryWritten, HookInv, TocCopied
    <3>4. PICK j \in 1 .. at' - 1 : j = at
      BY <1>2
    <3>5. WrittenAt(j, s)'
      BY <1>1, <1>3, <1>7, <1>12, <3>1, <3>2, <3>3, <3>4 DEF WrittenAt
    <3> QED  BY <3>5
  <2> QED  BY <2>1, <2>2
<1>18. ReadBack'
  <2> SUFFICES ASSUME NEW k \in 1 .. at' - 1, Program[k].do = "verify"
               PROVE  Program[k].arg \in patched' \/ memwrite_failed'
    BY <1>1, Zenon DEF ReadBack
  <2>1. CASE k = at
    BY <1>3, <1>5, <1>12, <2>1
  <2>2. CASE k \in 1 .. at - 1
    BY <1>5, <1>12, <2>2 DEF OrderInv, ReadBack
  <2> QED  BY <1>11, <2>1, <2>2
<1>19. memwrite_failed' => syscalls' = {}
  <2>1. CASE memwrite_failed
    BY <1>7, <2>1 DEF OrderInv, Told
  <2>2. ASSUME op.do = "verify", op.arg \notin patched
        PROVE  syscalls' = {}
    <3>1. Needs(op) = {op.arg} /\ Providers(op.do) = {"write"}
      BY <2>2 DEF Needs, Providers
    <3>5. Provided(Program, at - 1, op.arg, op.do)
      BY <1>2, <1>3, <3>1, ProgramIs DEF InOrder
    <3>2. PICK k \in 1 .. at - 1 : Program[k].do = "write" /\ Program[k].arg = op.arg
      BY <3>1, <3>5 DEF Provided
    <3>3. ~Writable
      BY <2>2, <3>2 DEF OrderInv, AllWritten
    <3>4. hookStep > 0
      BY <1>2, <1>14, <3>2
    <3> QED  BY <1>7, <3>3, <3>4 DEF OrderInv, KindKept
  <2> QED  BY <1>5, <2>1, <2>2
<1>20. ~Done
  BY <1>2, <1>8 DEF Done
<1>21. shill = "none"
  BY <1>20 DEF OrderInv, Told
<1>22. shill' # "none" => op.do = "threads"
  BY <1>4, <1>21
<1>23. shill' # "none" => Done'
  BY <1>1, <1>2, <1>3, <1>8, <1>22, ProgramIs DEF Done
<1>24. shill' = "welcome" => ~memwrite_failed'
  BY <1>5, <1>22
<1>25. shill' = "error" => memwrite_failed'
  BY <1>5, <1>22
<1>26. Told'
  BY <1>19, <1>23, <1>24, <1>25 DEF Told
<1>27. at' \in 1 .. Len(Program') + 1
  BY <1>1, <1>2, <1>8
<1> QED  BY <1>7, <1>10, <1>13, <1>16, <1>17, <1>18, <1>26, <1>27 DEF OrderInv

\* Callers, the player and the Steam client preserve it: at worst, a step of
\* the player makes writes fail, for good.
LEMMA OrderInvNext == HookInv /\ OrderInv /\ [Next]_vars => OrderInv'
<1> SUFFICES ASSUME HookInv, OrderInv, [Next]_vars, ~Loader
             PROVE  OrderInv'
  BY LoaderKeeps
<1>1. Program' = Program /\ HookStart' = HookStart
  BY ProgramStays
<1>2. /\ at' = at /\ patched' = patched /\ ready' = ready /\ memwrite_failed' = memwrite_failed
      /\ shill' = shill
  BY DEF Next, Disable, ClientStep, Caller, NewCall, vars, startVars
<1>3. hookStep' = hookStep
  <2>1. CASE Disable
    BY <2>1, Zenon DEF Disable, DisableSyscalls
  <2>2. CASE ClientStep
    BY <2>2, Zenon DEF ClientStep, hookVars
  <2>3. ASSUME NEW c \in Callers, Caller(c) \/ NewCall(c)
        PROVE  hookStep' = hookStep
    BY <2>3, Zenon DEF Caller, NewCall, InCall, Call, Fetch, Hook, Body, Jump
  <2>4. CASE UNCHANGED vars
    BY <2>4, Zenon DEF vars, hookVars
  <2> QED  BY <2>1, <2>2, <2>3, <2>4 DEF Next
<1>4. [NextHook]_hookVars
  BY StepIsHookStep
<1>5. /\ Hooked => Hooked'
      /\ tocCopied => tocCopied'
      /\ syscalls = {} => syscalls' = {}
      /\ hookStep > 0 /\ Writable' => Writable
      /\ KindKept' /\ EntryWritten'
  BY <1>4, HookGoesOn DEF OrderInv
<1>6. at \in 1 .. Len(Program) + 1 /\ Len(Program) \in Nat /\ HookStart \in Nat
  BY ProgramIs, AfterHookIs, LenProperties DEF OrderInv
<1>7. Counted'
  BY <1>1, <1>2, <1>3 DEF OrderInv, Counted
<1>8. ReadyNow' /\ ReadBack'
  BY <1>1, <1>2 DEF OrderInv, ReadyNow, ReadBack
<1>9. AllWritten'
  <2> SUFFICES ASSUME NEW k \in 1 .. at - 1, Program[k].do = "write", Writable'
               PROVE  Program[k].arg \in patched
    BY <1>1, <1>2 DEF AllWritten
  <2>1. hookStep > 0
    BY <1>6 DEF OrderInv, Counted
  <2> QED  BY <1>5, <2>1 DEF OrderInv, AllWritten
<1>10. WrittenInOrder'
  <2>1. \A j, s : WrittenAt(j, s) => WrittenAt(j, s)'
    BY <1>1, <1>2, <1>5 DEF WrittenAt
  <2> QED  BY <1>2, <2>1 DEF OrderInv, WrittenInOrder
<1>11. Told'
  BY <1>1, <1>2, <1>5 DEF OrderInv, Told, Done
<1> QED  BY <1>1, <1>2, <1>5, <1>6, <1>7, <1>8, <1>9, <1>10, <1>11 DEF OrderInv

\* In every state of start-up the loader's writes have had effect up to some
\* step and none after it (condenstation.c:371-501, ps3_utilities.c:104-127).
THEOREM StartupOrdered == Spec => [](HookInv /\ OrderInv)
<1>1. Init => HookInv /\ OrderInv
  BY HookInvInit, OrderInvInit DEF Init
<1>2. HookInv /\ OrderInv /\ [Next]_vars => (HookInv /\ OrderInv)'
  BY StepIsHookStep, HookInvNext, OrderInvNext
<1> QED  BY <1>1, <1>2, PTL DEF Spec

-----------------------------------------------------------------------------
(* What follows from the order.                                              *)

\* A slot that holds a hook has been written by a step of the program.
LEMMA PatchedByProgram ==
  ASSUME OrderInv, NEW s \in patched
  PROVE  \E j \in 1 .. Len(Program) : j < at /\ WrittenAt(j, s) /\ s \in Doing(Program, "write")
<1>1. Len(Program) \in Nat /\ at \in 1 .. Len(Program) + 1
  BY ProgramIs, LenProperties DEF OrderInv
<1>2. PICK j \in 1 .. at - 1 : WrittenAt(j, s)
  BY DEF OrderInv, WrittenInOrder
<1>3. j \in 1 .. Len(Program) /\ j < at
  BY <1>1
<1>4. s \in Doing(Program, "write")
  BY <1>2, <1>3 DEF WrittenAt, Doing
<1> QED  BY <1>2, <1>3, <1>4

\* The message is hooked after AddMultipleToTail.
LEMMA MessageSlotsLater ==
  \A s \in Elements(MessageSlots) : s \notin Doing(AfterHook, "write")
<1>1. Doing(AfterHook, "write") = Doing(BeforeConnect, "write")
  BY AfterHookIs
<1>2. \A do : /\ Doing(ApplyOverlayHooks, do) \subseteq Elements(OverlaySlots)
              /\ Doing(HookLobbySearch, do) \subseteq {"RequestLobbyList"}
              /\ Doing(ApplyUserStatsHooks, do) \subseteq Elements(StatsSlots)
              /\ Doing(ApplyRemoteStorageHooks, do) \subseteq Elements(StorageSlots)
  BY OverlayPart, LobbyPart, StatsPart, StoragePart
<1>3. Doing(BeforeConnect, "write")
        \subseteq Elements(OverlaySlots) \cup {"RequestLobbyList"} \cup Elements(StatsSlots)
                  \cup Elements(StorageSlots)
  BY <1>2, BeforeConnectIs
<1> QED  BY <1>1, <1>3, SlotsAre

\* What a hook uses was provided before the hook was written, and stays.
LEMMA OrderGivesCallable == HookInv /\ OrderInv => HooksCallable
<1> SUFFICES ASSUME HookInv, OrderInv
             PROVE  HooksCallable
  OBVIOUS
<1>1. ASSUME NEW s \in patched, NEW u \in Uses(s)
      PROVE  u \in ready
  <2>1. PICK j \in 1 .. Len(Program) : j < at /\ WrittenAt(j, s)
    BY PatchedByProgram
  <2>2. Program[j].do = "write" /\ Program[j].arg = s
    BY <2>1 DEF WrittenAt
  <2>3. Provided(Program, j - 1, u, "write")
    BY <1>1, <2>2, ProgramIs DEF InOrder, Needs
  <2>4. PICK k \in 1 .. j - 1 : Program[k].do \in {"save", "stub"} /\ Program[k].arg = u
    BY <2>3 DEF Provided, Providers
  <2>5. k \in 1 .. at - 1
    BY <2>1, ProgramIs, LenProperties DEF OrderInv
  <2> QED  BY <2>4, <2>5 DEF OrderInv, ReadyNow
<1>2. ASSUME NEW s \in patched, s \in Elements(MessageSlots)
      PROVE  tocCopied
  <2>1. PICK j \in 1 .. Len(Program) : WrittenAt(j, s)
    BY PatchedByProgram
  <2>2. Program[j].do = "write" /\ Program[j].arg = s
    BY <2>1 DEF WrittenAt
  <2>3. j > Len(AfterHook)
    BY <1>2, <2>2, MessageSlotsLater, ProgramIs, AfterHookIs, DoneLater
  <2>4. j > HookStart + 8
    BY <2>3, AfterHookIs
  <2> QED  BY <2>1, <2>4 DEF WrittenAt
<1> QED  BY <1>1, <1>2 DEF HooksCallable

\* The LogOn hook was written last: all that comes before it in the program
\* has had effect.
LEMMA LogOnLast ==
  ASSUME OrderInv, "LogOn" \in patched
  PROVE  Portal2 /\ tocCopied /\ Hooked /\ Doing(BeforeLogOn, "write") \subseteq patched
<1>1. PICK j \in 1 .. Len(Program) : WrittenAt(j, "LogOn") /\ "LogOn" \in Doing(Program, "write")
  BY PatchedByProgram
<1>2. Program[j].do = "write" /\ Program[j].arg = "LogOn"
  BY <1>1 DEF WrittenAt
<1>3. "LogOn" \notin Doing(BeforeLogOn, "write")
  BY BeforeLogOnIs
<1>4. j > Len(BeforeLogOn) /\ Len(BeforeLogOn) \in Nat
  BY <1>2, <1>3, ProgramIs, BeforeLogOnIs, DoneLater, LenProperties
<1>5. tocCopied /\ Hooked
  <2>1. j > HookStart + 8
    BY <1>4, BeforeLogOnIs, AfterHookIs
  <2> QED  BY <1>1, <2>1 DEF WrittenAt
<1>6. ASSUME NEW s \in Doing(BeforeLogOn, "write")
      PROVE  s \in patched
  <2>1. PICK k \in 1 .. Len(BeforeLogOn) : Program[k].do = "write" /\ Program[k].arg = s
    BY ProgramIs, BeforeLogOnIs, DoneEarly
  <2>2. k \in 1 .. j - 1
    BY <1>4
  <2> QED  BY <1>1, <2>1, <2>2 DEF WrittenAt
<1> QED  BY <1>1, <1>5, <1>6, ProgramIs

\* What comes before it, by what has been found.
LEMMA BeforeLogOnWrites ==
  ASSUME Portal2
  PROVE  /\ Elements(MessageSlots) \cup (UrlStrings \cap found)
              \subseteq Doing(BeforeLogOn, "write")
         /\ "overlay" \in found => Elements(OverlaySlots) \subseteq Doing(BeforeLogOn, "write")
         /\ "matchmaking" \in found => "RequestLobbyList" \in Doing(BeforeLogOn, "write")
         /\ "userstats" \in found => Elements(StatsSlots) \subseteq Doing(BeforeLogOn, "write")
         /\ "remotestorage" \in found => Elements(StorageSlots) \subseteq Doing(BeforeLogOn, "write")
<1>1. Doing(BeforeLogOn, "write")
        = Doing(ApplyOverlayHooks, "write") \cup Doing(HookLobbySearch, "write")
            \cup Doing(ApplyUserStatsHooks, "write") \cup Doing(ApplyRemoteStorageHooks, "write")
            \cup Elements(MessageSlots) \cup (UrlStrings \cap found)
  BY BeforeLogOnIs, BeforeConnectIs
<1>2. /\ "overlay" \in found => Doing(ApplyOverlayHooks, "write") = Elements(OverlaySlots)
      /\ "matchmaking" \in found => Doing(HookLobbySearch, "write") = {"RequestLobbyList"}
      /\ "userstats" \in found => Doing(ApplyUserStatsHooks, "write") = Elements(StatsSlots)
      /\ "remotestorage" \in found => Doing(ApplyRemoteStorageHooks, "write") = Elements(StorageSlots)
  BY OverlayPart, LobbyPart, StatsPart, StoragePart
<1> QED  BY <1>1, <1>2

\* Nothing but ApplyOverlayHooks writes to the overlay's vtable.
LEMMA OverlayOnlyIfFound ==
  ASSUME OrderInv, Elements(OverlaySlots) \subseteq patched
  PROVE  "overlay" \in found
<1>1. "Render" \in Elements(OverlaySlots)
  BY SlotsAre
<1>2. "Render" \in Doing(Program, "write")
  BY <1>1, PatchedByProgram
<1>3. "Render" \notin Elements(StatsSlots) \cup Elements(StorageSlots) \cup Elements(MessageSlots)
                      \cup UrlStrings \cup {"RequestLobbyList", "LogOn"}
  BY SlotsAre DEF UrlStrings
<1>4. "Render" \in Doing(BeforeConnect, "write")
  BY <1>2, <1>3, ProgramIs, BeforeLogOnIs
<1>5. /\ Doing(HookLobbySearch, "write") \subseteq {"RequestLobbyList"}
      /\ Doing(ApplyUserStatsHooks, "write") \subseteq Elements(StatsSlots)
      /\ Doing(ApplyRemoteStorageHooks, "write") \subseteq Elements(StorageSlots)
  BY LobbyPart, StatsPart, StoragePart
<1>6. "Render" \in Doing(ApplyOverlayHooks, "write")
  BY <1>3, <1>4, <1>5, BeforeConnectIs
<1> QED  BY <1>6, OverlayPart

LEMMA OrderGivesPrompt == OrderInv => PromptServed
BY LogOnLast, BeforeLogOnWrites, OverlayOnlyIfFound DEF PromptServed, Hooked

\* A player who is welcomed has the LogOn hook, which is read back last.
LEMMA OrderGivesTruth == OrderInv => ToldTheTruth
<1> SUFFICES ASSUME OrderInv
             PROVE  ToldTheTruth
  OBVIOUS
<1>1. shill = "error" => syscalls = {}
  BY DEF OrderInv, Told
<1>2. ASSUME shill = "welcome", Portal2
      PROVE  "LogOn" \in patched
  <2>1. Done /\ ~memwrite_failed
    BY <1>2 DEF OrderInv, Told
  <2>2. PICK k \in 1 .. Len(Program) : Program[k].do = "verify" /\ Program[k].arg = "LogOn"
    BY <1>2, ProgramIs, Zenon DEF Doing
  <2>3. k \in 1 .. at - 1
    BY <2>1, ProgramIs, LenProperties DEF Done, OrderInv
  <2> QED  BY <2>1, <2>2, <2>3 DEF OrderInv, ReadBack
<1> QED  BY <1>1, <1>2, LogOnLast, BeforeLogOnWrites DEF ToldTheTruth, Hooked

\* Wherever the writes stop working, a call through an entry that is hooked
\* finds the originals and functions the hook uses (condenstation.c:454-479,
\* hooks_userstats.c:70-83), and the hooks on the message a TOC with the Steam
\* client's entries (condenstation.c:447-452).
THEOREM HooksAlwaysCallable == Spec => []HooksCallable
BY StartupOrdered, OrderGivesCallable, PTL

\* If the sign-in prompt can be reached, through the LogOn hook
\* (condenstation.c:498), the message and the address are hooked, and so is the
\* overlay, if and only if it was found (408): without it the prompt is served
\* with a NULL renderHost.
THEOREM PromptAlwaysServed == Spec => []PromptServed
BY StartupOrdered, OrderGivesPrompt, PTL

\* A player of Portal 2 is welcomed (condenstation.c:368-385) only if every patch
\* whose place was found was written, and sees the error only if the system
\* calls were disabled; what was not found is skipped without a word.
THEOREM TruthAlwaysTold == Spec => []ToldTheTruth
BY StartupOrdered, OrderGivesTruth, PTL

-----------------------------------------------------------------------------
(* Types.                                                                    *)

MessageTypes ==
  /\ message \in {"none", "new", "sized", "sent"} /\ enabled_fields \subseteq Enabled
  /\ token \in 0 .. 1023 /\ length \in Nat /\ bytes \in Nat
LoaderTypes ==
  /\ found \subseteq Interfaces \cup UrlStrings
  /\ ready \subseteq Slots \cup FunctionStubs
  /\ memwrite_failed \in BOOLEAN /\ crashed \in BOOLEAN
  /\ shill \in {"none", "welcome", "error"}

LEMMA MessageTyped == MessageTypes /\ [Next]_vars => MessageTypes'
<1> SUFFICES ASSUME MessageTypes, [Next]_vars
             PROVE  MessageTypes'
  OBVIOUS
<1>1. \A fields : fields \subseteq Enabled => FixUp(fields) \subseteq Enabled
  BY DEF FixUp, Enabled
<1>2. VarintSize(token) \in Nat /\ StringSize(108, token) \in Nat
  BY SMT DEF MessageTypes, VarintSize, StringSize
<1>3. CASE NewMessage
  <2>1. /\ message' = "new" /\ length' = length /\ bytes' = bytes /\ token' \in TokenLengths
        /\ enabled_fields' \in {{"psn_ticket", "psn_service"},
                                {"psn_ticket", "psn_service", "account_name"}}
    BY <1>3 DEF NewMessage
  <2>2. enabled_fields' \subseteq Enabled
    BY <2>1 DEF Enabled
  <2> QED  BY <2>1, <2>2, TokenLengthsAssumption DEF MessageTypes
<1>4. ASSUME NEW hooked \in BOOLEAN, ByteSize(hooked)
      PROVE  MessageTypes'
  <2>1. message' = "sized" /\ token' = token /\ bytes' = bytes
    BY <1>4, Zenon DEF ByteSize
  <2>2. enabled_fields' \subseteq Enabled
    BY <1>1, <1>4 DEF ByteSize, MessageTypes
  <2>3. length' \in Nat
    <3> DEFINE prefix == IF token >= 128 THEN VarintSize(token) ELSE 1
    <3>1. length' = Size(enabled_fields') + (IF hooked THEN prefix + token + 2 ELSE 0)
      BY <1>4 DEF ByteSize
    <3>2. prefix + token + 2 \in Nat
      BY <1>2 DEF MessageTypes
    <3> HIDE DEF prefix
    <3>3. Size(enabled_fields') \in Nat
      BY SizesAreNumbers
    <3>4. (IF hooked THEN prefix + token + 2 ELSE 0) \in Nat
      BY <3>2
    <3> QED  BY <3>1, <3>3, <3>4
  <2> QED  BY <2>1, <2>2, <2>3 DEF MessageTypes
<1>5. ASSUME NEW hooked \in BOOLEAN, Serialize(hooked)
      PROVE  MessageTypes'
  <2>1. message' = "sent" /\ token' = token /\ length' = length
    BY <1>5, Zenon DEF Serialize
  <2>2. enabled_fields' \subseteq Enabled
    BY <1>1, <1>5 DEF Serialize, MessageTypes
  <2>3. bytes' \in Nat
    <3>1. bytes' = Size(enabled_fields') + (IF hooked THEN StringSize(108, token) ELSE 0)
      BY <1>5 DEF Serialize
    <3>2. Size(enabled_fields') \in Nat
      BY SizesAreNumbers
    <3>3. (IF hooked THEN StringSize(108, token) ELSE 0) \in Nat
      BY <1>2
    <3> QED  BY <3>1, <3>2, <3>3
  <2> QED  BY <2>1, <2>2, <2>3 DEF MessageTypes
<1>6. CASE ClientStep
  <2>1. ("ByteSize" \in patched) \in BOOLEAN /\ ("Serialize" \in patched) \in BOOLEAN
    OBVIOUS
  <2> QED  BY <1>3, <1>4, <1>5, <1>6, <2>1, Zenon DEF ClientStep
<1>7. CASE UNCHANGED messageVars
  BY <1>7 DEF messageVars, MessageTypes
<1>8. ~ClientStep => UNCHANGED messageVars
  BY Zenon DEF Next, Loader, Disable, Caller, NewCall, vars
<1> QED  BY <1>6, <1>7, <1>8

LEMMA LoaderTyped == OrderInv /\ LoaderTypes /\ [Next]_vars => LoaderTypes'
<1> SUFFICES ASSUME OrderInv, LoaderTypes, [Next]_vars
             PROVE  LoaderTypes'
  OBVIOUS
<1>1. CASE Loader
  <2>1. at \in 1 .. Len(Program)
    BY <1>1, LoaderTakes
  <2>2. PICK op : /\ op = Program[at]
                  /\ \/ Save(op) \/ Write(op) \/ Verify(op) \/ SetStub(op) \/ HookStep(op)
                     \/ FindVtables(op) \/ InitCDNCache(op) \/ Threads(op)
    BY <1>1, LoaderTakes, Zenon
  <2>3. op.do \in {"save", "stub"} => op.arg \in Slots \cup FunctionStubs
    <3>1. op.arg \in Doing(Program, op.do)
      BY <2>1, <2>2, Zenon DEF Doing
    <3> QED  BY <3>1, ProgramIs
  <2>4. ready' \subseteq Slots \cup FunctionStubs
    BY <2>2, <2>3, LoaderDoes DEF LoaderTypes
  <2>5. found' = found
    BY ProgramStays
  <2>6. memwrite_failed' \in BOOLEAN
    BY <2>2, Zenon DEF Save, Write, Verify, SetStub, HookStep, FindVtables, InitCDNCache, Threads,
       LoaderTypes
  <2>7. crashed' \in BOOLEAN
    BY <2>2, Zenon DEF Save, Write, Verify, SetStub, HookStep, FindVtables, InitCDNCache, Threads,
       LoaderTypes
  <2>8. shill' \in {"none", "welcome", "error"}
    BY <2>2, Zenon DEF Save, Write, Verify, SetStub, HookStep, FindVtables, InitCDNCache, Threads,
       LoaderTypes
  <2> QED  BY <2>4, <2>5, <2>6, <2>7, <2>8 DEF LoaderTypes
<1>2. CASE ~Loader
  <2>1. UNCHANGED startVars
    BY <1>2, Zenon DEF Next, Disable, ClientStep, Caller, NewCall, vars
  <2> QED  BY <2>1 DEF startVars, LoaderTypes
<1> QED  BY <1>1, <1>2

\* The code, the callers, the message and the loader stay well-typed; above
\* all, no caller leaves the patched function, and only slots are patched.
THEOREM StartupTypeCorrect == Spec => []TypeOK
<1>1. Init => MessageTypes /\ LoaderTypes
  <2>1. Init => MessageTypes
    BY DEF Init, InitMessage, MessageTypes
  <2>2. Init => found \subseteq Interfaces \cup UrlStrings
    BY FoundSetsAssumption DEF Init
  <2>3. Init => /\ ready = {} /\ memwrite_failed = FALSE /\ crashed = FALSE /\ shill = "none"
    BY DEF Init
  <2> QED  BY <2>1, <2>2, <2>3 DEF LoaderTypes
<1>2. Spec => [](MessageTypes /\ LoaderTypes)
  <2>1. /\ (MessageTypes /\ LoaderTypes) /\ OrderInv /\ [Next]_vars
        => (MessageTypes /\ LoaderTypes)'
    BY MessageTyped, LoaderTyped
  <2> QED  BY <1>1, <2>1, StartupOrdered, PTL DEF Spec
<1>3. HookInv /\ OrderInv /\ MessageTypes /\ LoaderTypes /\ AddressesRebuilt => TypeOK
  <2> SUFFICES ASSUME HookInv, OrderInv, MessageTypes, LoaderTypes, AddressesRebuilt
               PROVE  TypeOK
    OBVIOUS
  <2>1. HookTypeOK
    BY DEF HookInv
  <2>2. engineAddress \in Nat
    BY <2>1, LayoutTyped DEF AddressesRebuilt
  <2>3. patched \subseteq Slots
    BY PatchedByProgram, ProgramIs
  <2>4. at \in 1 .. Len(Program) + 1
    BY DEF OrderInv
  <2> QED  BY <2>1, <2>2, <2>3, <2>4 DEF MessageTypes, LoaderTypes, TypeOK
<1> QED  BY <1>2, <1>3, StartupOrdered, AddressesAlwaysRebuilt, PTL
=============================================================================
