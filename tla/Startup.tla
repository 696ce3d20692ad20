------------------------------ MODULE Startup -------------------------------
(* _prx_start and apply_steamclient_patches: the loader looks the Steam      *)
(* client's objects up, saves the methods it replaces, writes its hooks one  *)
(* by one while the game's threads run, and starts its own threads.  The     *)
(* system calls it writes with may be missing, or be disabled by the player  *)
(* at any moment; then every later write has no effect, and the loader only  *)
(* notices where it reads a hook back.                                       *)
EXTENDS HookPatch, LogonMessage

CONSTANT FoundSets   \* what the lookups of Interfaces and UrlStrings may find

\* The Steam API interfaces looked up by NID; each lookup is checked.
Interfaces == {"overlay", "matchmaking", "userstats", "remotestorage"}

\* Strings of the Steam client that are searched for and replaced.
UrlStrings == {"media", "avatar", "full", "medium"}

ASSUME FoundSetsAssumption == FoundSets \subseteq SUBSET (Interfaces \cup UrlStrings)

OverlaySlots == <<"BHostInitialise", "Render", "BHandleCellPadData">>
StatsSlots   == <<"GetStatInt", "GetStatFloat", "SetStatInt", "SetStatFloat">>
StorageSlots == <<"IsCloudEnabledForApp", "SynchronizeToClient", "SynchronizeToServer",
                  "SetCloudEnabledForApp">>
MessageSlots == <<"Serialize", "ByteSize", "MergePartial">>

Elements(seq) == {seq[i] : i \in DOMAIN seq}

\* What PS3_Write32 and PS3_WriteMemory replace besides code and the TOC:
\* entries of vtables, and strings.
Slots == Elements(OverlaySlots) \cup Elements(StatsSlots) \cup Elements(StorageSlots)
           \cup Elements(MessageSlots) \cup UrlStrings \cup {"RequestLobbyList", "LogOn"}

FunctionStubs == {"std_basic_string_constructor", "VarintSize32Fallback", "WriteString"}

VARIABLES
  use_v2_cmsgclientlogon,   \* the game is CS:GO
  found,                    \* the interfaces and strings the lookups find
  present,                  \* the code the plugin searches for is there
  at,                       \* the next step of the loader
  patched,                  \* slots that hold what the plugin wrote
  ready,                    \* originals saved, and stubs with a function
  engineAddress,            \* what InitCDNCache was called with
  memwrite_failed,
  shill,                    \* the message shown at the end
  crashed                   \* a lookup that failed has been used

startVars == <<use_v2_cmsgclientlogon, found, present, at, patched, ready, engineAddress,
               memwrite_failed, shill, crashed>>
vars      == <<hookVars, messageVars, startVars>>

Init ==
  /\ InitHook /\ InitMessage
  /\ use_v2_cmsgclientlogon \in BOOLEAN
  /\ found \in FoundSets /\ present \in BOOLEAN
  /\ at = 1
  /\ patched = {} /\ ready = {}
  /\ engineAddress = 0
  /\ memwrite_failed = FALSE /\ shill = "none" /\ crashed = FALSE

-----------------------------------------------------------------------------
(* The loader's program, in the order of the source.                         *)

Op(do, arg)      == <<[do |-> do, arg |-> arg]>>
Each(do, seq)    == [i \in DOMAIN seq |-> [do |-> do, arg |-> seq[i]]]
SaveAndHook(seq) == Each("save", seq) \o Each("write", seq)
If(cond, ops)    == IF cond THEN ops ELSE <<>>

Portal2 == ~use_v2_cmsgclientlogon

ApplyOverlayHooks       == If("overlay" \in found /\ Portal2, SaveAndHook(OverlaySlots))
HookLobbySearch         == If("matchmaking" \in found,
                              Op("write", "RequestLobbyList")
                                \o Op("verify", "RequestLobbyList"))
\* A fault: the hooks are written before the originals are saved.
ApplyUserStatsHooksFirst == If("userstats" \in found /\ Portal2,
                               Each("write", StatsSlots) \o Each("save", StatsSlots))
ApplyUserStatsHooks     == If("userstats" \in found /\ Portal2, SaveAndHook(StatsSlots))
ApplyRemoteStorageHooks == If("remotestorage" \in found /\ Portal2, Each("write", StorageSlots))
HookConnect             == Op("vtables", "CMsgClientLogon")
                             \o [i \in 1 .. 8 |-> [do |-> "hook", arg |-> "AddMultipleToTail"]]
HookMessages            == Each("stub", <<"std_basic_string_constructor",
                                          "VarintSize32Fallback", "WriteString">>)
                             \o SaveAndHook(MessageSlots)
\* SCUtils_ReplaceString: a string that is not there is skipped without a word.
ReplaceString(str)      == If(str \in found, Op("write", str))
PatchUrls               == ReplaceString("media") \o ReplaceString("avatar")
                             \o ReplaceString("full") \o ReplaceString("medium")
                             \o Op("cdn", "InitCDNCache")
\* A fault: the hook is not read back.
HookLogOnUnread         == If(Portal2, Op("save", "LogOn") \o Op("write", "LogOn"))
HookLogOn               == If(Portal2, Op("save", "LogOn") \o Op("write", "LogOn")
                                         \o Op("verify", "LogOn"))

\* A fault: the logon is hooked before what it relies on.
ProgramLogOnFirst ==
  Op("hook", "MemoryWriteCheck") \o HookLogOn \o ApplyOverlayHooks \o HookLobbySearch
    \o ApplyUserStatsHooks \o ApplyRemoteStorageHooks \o HookConnect \o HookMessages
    \o PatchUrls \o Op("threads", "shill")

Program ==
  Op("hook", "MemoryWriteCheck") \o ApplyOverlayHooks \o HookLobbySearch
    \o ApplyUserStatsHooks \o ApplyRemoteStorageHooks \o HookConnect \o HookMessages
    \o PatchUrls \o HookLogOn \o Op("threads", "shill")

Done == at > Len(Program)

Save(op) ==
  /\ op.do = "save"
  /\ ready' = ready \cup {op.arg}
  /\ UNCHANGED <<hookVars, patched, engineAddress, memwrite_failed, shill, crashed>>

Write(op) ==
  /\ op.do = "write"
  /\ patched' = Written(patched, patched \cup {op.arg})
  /\ UNCHANGED <<hookVars, ready, engineAddress, memwrite_failed, shill, crashed>>

Verify(op) ==
  /\ op.do = "verify"
  /\ memwrite_failed' = (memwrite_failed \/ op.arg \notin patched)
  /\ UNCHANGED <<hookVars, patched, ready, engineAddress, shill, crashed>>

SetStub(op) ==
  /\ op.do = "stub"
  /\ ready' = ready \cup {op.arg}
  /\ UNCHANGED <<hookVars, patched, engineAddress, memwrite_failed, shill, crashed>>

\* MemoryWriteCheck, the TOC and HookFunction.
HookStep(op) ==
  /\ op.do = "hook"
  /\ LoaderStep
  /\ UNCHANGED <<patched, ready, engineAddress, memwrite_failed, shill, crashed>>

\* SCUtils_GetProtobufVtable finds GetTypeName by the pair that loads the name;
\* its NULL is used at once when it does not.
FindVtables(op) ==
  /\ op.do = "vtables"
  /\ crashed' = ~(present /\ Pair(layout["typeName"]) = Compiled(layout["typeName"]))
  /\ UNCHANGED <<hookVars, patched, ready, engineAddress, memwrite_failed, shill>>

\* CSteamEngine::InitCDNCache, called on the address read out of a pair.
InitCDNCache(op) ==
  /\ op.do = "cdn"
  /\ LET pair == Compiled(layout["engine"])
     IN  engineAddress' = PairAddress(pair[1], pair[2])
  /\ UNCHANGED <<hookVars, patched, ready, memwrite_failed, shill, crashed>>

\* The threads are created; shillthread says how it went.  The connection
\* manager thread is CMList.
Threads(op) ==
  /\ op.do = "threads"
  /\ shill' = IF memwrite_failed THEN "error" ELSE "welcome"
  /\ UNCHANGED <<hookVars, patched, ready, engineAddress, memwrite_failed, crashed>>

Loader ==
  /\ ~crashed /\ ~Done
  /\ at' = at + 1
  /\ \E op \in {Program[at]} :
       Save(op) \/ Write(op) \/ Verify(op) \/ SetStub(op) \/ HookStep(op)
         \/ FindVtables(op) \/ InitCDNCache(op) \/ Threads(op)
  /\ UNCHANGED <<messageVars, use_v2_cmsgclientlogon, found, present>>

-----------------------------------------------------------------------------
(* The game, the player and the Steam client.                                *)

Caller(c)  == ~crashed /\ InCall(c) /\ UNCHANGED <<messageVars, startVars>>
NewCall(c) == ~crashed /\ Call(c) /\ UNCHANGED <<messageVars, startVars>>
Disable    == ~crashed /\ DisableSyscalls /\ UNCHANGED <<messageVars, startVars>>

\* A logon message, after start-up, through whatever the vtable holds.
ClientStep ==
  /\ ~crashed /\ Done
  /\ NewMessage \/ ByteSize("ByteSize" \in patched) \/ Serialize("Serialize" \in patched)
  /\ UNCHANGED <<hookVars, startVars>>

Next ==
  \/ Loader \/ Disable \/ ClientStep
  \/ \E c \in Callers : Caller(c) \/ NewCall(c)

\* The kernel schedules the threads that are inside the patched function.
Spec == Init /\ [][Next]_vars /\ \A c \in Callers : WF_vars(Caller(c))

-----------------------------------------------------------------------------
(* Properties.                                                               *)

TypeOK ==
  /\ HookTypeOK
  /\ message \in {"none", "new", "sized", "sent"} /\ enabled_fields \subseteq Enabled
  /\ token \in 0 .. 1023 /\ length \in Nat /\ bytes \in Nat
  /\ found \subseteq Interfaces \cup UrlStrings
  /\ at \in 1 .. Len(Program) + 1
  /\ patched \subseteq Slots /\ ready \subseteq Slots \cup FunctionStubs
  /\ engineAddress \in Nat
  /\ memwrite_failed \in BOOLEAN /\ crashed \in BOOLEAN
  /\ shill \in {"none", "welcome", "error"}

\* What the hook in a slot calls.
Uses(s) ==
  CASE s = "ByteSize"  -> {s, "std_basic_string_constructor", "VarintSize32Fallback"}
    [] s = "Serialize" -> {s, "std_basic_string_constructor", "WriteString"}
    [] s \in Elements(StorageSlots) \cup UrlStrings \cup {"RequestLobbyList"} -> {}
    [] OTHER           -> {s}

\* At every moment of start-up a call through a hooked entry finds everything
\* the hook uses (condenstation.c:454-479, hooks_userstats.c:70-83), and
\* the hooks on the message find the Steam client's TOC entries in place.
HooksCallable ==
  /\ \A s \in patched : Uses(s) \subseteq ready
  /\ patched \cap Elements(MessageSlots) # {} => tocCopied

\* The message at the end tells the truth about the writes (condenstation.c:
\* 353-369): a player of Portal 2 is welcomed only if every patch whose place
\* was found was written, wherever the system calls were disabled, and sees the
\* error only if they were.  It is silent about the searches: who is welcomed
\* may have an interface or a URL that was not found, and is not patched
\* (steamclient_utils.c:167, condenstation.c:406-433).
ToldTheTruth ==
  /\ shill = "welcome" /\ Portal2 =>
       /\ mem[Orig(0)] # FirstWord /\ tocCopied
       /\ Elements(MessageSlots) \cup {"LogOn"} \cup (UrlStrings \cap found) \subseteq patched
       /\ "overlay" \in found => Elements(OverlaySlots) \subseteq patched
       /\ "matchmaking" \in found => "RequestLobbyList" \in patched
       /\ "userstats" \in found => Elements(StatsSlots) \subseteq patched
       /\ "remotestorage" \in found => Elements(StorageSlots) \subseteq patched
  /\ shill = "error" => syscalls = {}

\* When the sign-in prompt can be reached, through the LogOn hook, the hooks on
\* the address and on the message are in place, and those on the overlay are
\* exactly if the overlay was found.  If it was not (condenstation.c:408) the
\* prompt is reachable all the same (498-502), and a login then uses the NULL
\* renderHost (hooks_overlay.c:130): nothing in the code rules that out.
PromptServed ==
  "LogOn" \in patched =>
    /\ "overlay" \in found <=> Elements(OverlaySlots) \subseteq patched
    /\ Elements(MessageSlots) \subseteq patched
    /\ mem[Orig(0)] # FirstWord

\* Addresses survive being split into signed halves: the vtable is found when
\* it is there, and the CDN cache is set up on the engine itself.
AddressesRebuilt ==
  /\ crashed => ~present
  /\ engineAddress \in {0, layout["engine"]}

\* A message has the size that was answered for it, if both methods are hooked
\* or none is.
MessageSized ==
  message = "sent" /\ ("ByteSize" \in patched <=> "Serialize" \in patched) => bytes = length

\* No call is caught in the patched code: a stub that had saved the branch to
\* itself, in place of the original's first word, would never be left.
CallsReturn == \A c \in Callers : pc[c] # 0 ~> pc[c] = 0 \/ crashed
=============================================================================
