# Verification of condenstation

condenstation is a PlayStation 3 plugin (PRX) that lets Portal 2 log on to Steam
again. It patches the game's Steam client, asks the Steam Web API for a
connection manager, signs the player in with a QR code and puts the resulting
token into the client's logon message. Nearly all of it is plain C on shared
globals without a lock, run by the game's main thread and by threads the plugin
starts. That is what this project is about: TLA+ models of the parts that have
state, checked with TLC, and proofs of what matters most, checked with TLAPS.

## Inventory

| Component | Source | State | Operations | Hard behaviour |
|---|---|---|---|---|
| Start-up and patch order | `condenstation.c` 371-552 | which patches are in place, `memwrite_failed` | `_prx_start`, `apply_steamclient_patches` | the game runs meanwhile; writes stop working and nothing notices |
| Memory patching | `ps3_utilities.c`, `ppcasm.h` | stub area, kind of system call, TOC base | `HookFunction`, `PS3_Write32`, `MemoryWriteCheck` | six writes per hook against running callers; signed immediates |
| Steam client lookup | `steamclient_utils.c` | none | searches in machine code | address decoding |
| Logon hook, prompt, pending logon | `condenstation.c` 216-369 | `has_netadr`, `has_fatal_error`, `has_pending_interactive_logon`, `stored_cuser`, the connect field of `CUser` | `CUser_LogOn_Hook`, `logon_initial_dialog_callback`, `dispatch_pending_logon`, `shillthread` | the hook runs several branches; one dialog at a time; dispatch from two threads |
| QR login thread | `steam_login_flow_qr.c` | `auth_session_running`, `auth_session_success`, locals of the poll loop | `qr_code_auth_thread`, `cancel_qr_auth_session` | cancel against poll, timeout, two logins on one pair of flags, failed RPCs |
| Overlay | `hooks_overlay.c` | `is_displaying_qr`, two textures, `renderHost` | start/stop displaying, `Render`, pad data | written by the login thread, cleared by the pad handler, read by the renderer |
| Logon message | `condenstation.c` 74-198 | `HasConfigLoaded`, account globals, the message | `fix_up`, `ByteSize`, `SerializeWithCachedSizes`, response `Merge` | account changes between measuring and writing; lengths; refused token |
| HTTP initialisation | `cellHttpHelper.c` | client id, `is_cellHttp_init` | `condenstation_init_cellHttp` | run by two kinds of thread, unlocked, its result ignored |
| Connection manager list | `cellHttpCMList.c` | `netadr_to_use`, response buffer | `get_cm_thread`, `SteamGetCMList` | truncated responses, short reads, publication order |
| Authentication RPC | `cellHttpSteamAuthentication.c` | a transaction, response buffer | `SteamAuthenticationRPC` | as above, polled; results ignored by the caller |
| Saved account | `condenstation_config.c`, `crc32.c` | the file of each user, `cinfohash`, the table of crc32, account globals | `load_auth_config`, `save_auth_config` | power loss, full disk, overlapping saves, encryption unavailable |
| Other hooks | `hooks_userstats.c`, `hooks_remotestorage.c`, `hooks_user.c` | the saved originals | installation, renaming, stubs | originals saved before entries are replaced |
| Unused, logging, vendored | see `PROJECT.json` | | | |

How they interact. At start-up the plugin installs the hooks, loads the saved
account, and starts `condenstation_CMList` (the list thread) and the welcome
message. When the game logs on, the hook decides from what the list thread has
published and from the saved account whether to pass the logon on, to let it
fail, or to ask the player to sign in. A *yes* starts `condenstation_QRLogin`,
which initialises HTTP for itself, calls the RPC, drives the overlay, publishes
and saves the account and finally dispatches the logon the hook left pending;
the circle button runs the same ending on the game's thread. The client then
builds the logon message, where the message hooks read the account, and the
response hook forgets the account if Steam refuses it.

What makes each part correct, in a sentence: a hook is there at one instant or
not at all, finds everything it uses, and the player is told if it is not; the
overlay never outlives its login; a login runs only when its logon can be
answered, and is answered; no logon goes out without an address or with a mixed
account; a message has the size that was announced for it; a refused token goes out
again only by a logon dispatched twice; the client that requests use is fully
configured; the list thread decides once, for the address it was sent; the polls of a login ask for the
code on the screen; and what was saved is found again, by its owner only.

## Modules

| Module | Models | Builds on |
|---|---|---|
| `CMResolution` | abstract: the list thread decides once | |
| `HttpTransaction` | one `cellHttp` request: handle, failing calls, receive loop | |
| `CMList` | `get_cm_thread`, implements `CMResolution` | `HttpTransaction`, `CMResolution` |
| `HttpClient` | `condenstation_init_cellHttp` in all its threads; the list thread goes on as `CMList` | `CMList` |
| `AuthSession` | the requests of a QR login, their responses and the bump allocator | `HttpTransaction` |
| `LogonFlow` | hook, prompt, QR thread, overlay, dispatch, message hooks | `CMResolution` |
| `AuthConfig` | saving and loading the account | |
| `PpcCode` | the instructions written and decoded, and what they do | |
| `HookAtomic` | abstract: a hook is installed at one instant | |
| `HookPatch` | `HookFunction` against running callers, implements `HookAtomic` | `PpcCode`, `HookAtomic` |
| `LogonMessage` | fix-up and lengths of the logon message | |
| `Startup` | `_prx_start`, the order of all patches, and what follows | `HookPatch`, `LogonMessage` |
| `...Proofs` | the theorems about the module they are named after (`PpcProofs`: `PpcCode`) | that module, TLAPS |
| `MC...` | instances for TLC | |

`Startup` composes the patching of code, the vtables, the TOC and the message;
`HttpClient` composes the list thread with the other users of cellHttp.
`LogonFlow` relies on three parts through what they promise: on the list thread
through `CMResolution`, on a login's requests through an RPC that answers or
fails, and on start-up through hooks that are in place.

Operators introduced by "A fault" (`TickForever`, `AcceptShort`, ...) are wrong
versions of the definition that follows them. No specification uses them: they
serve to see that a property notices the mistake.

### LogonFlow

Variables carry the names of the C globals. `pc[p]` says where a thread is; a
label names the statement that comes next, and every statement that reads or
writes a shared global is a step of its own, because a QR thread interleaves
with the game's thread and with other QR threads.

| Code | Actions |
|---|---|
| `CUser_LogOn_Hook` | `LogOn`, `HookFatal`/`HookFatalCall`, `HookCm`/`HookCmCall`, `HookPrompt`, `HookConfig`/`HookConfigCall` |
| `logon_initial_dialog_callback` | `PromptYes`, `PromptNo` |
| pad handler | `PressCircle`, then `Stop(Game)` |
| `QRoverlay_stop_displaying_qr`, `cancel_qr_auth_session`, `dispatch_pending_logon` | `StopFlag`, `StopBorder`, `StopQr`, `StopRunning`, `DispatchArg`, `Dispatch`, `DispatchCall` |
| `qr_code_auth_thread` | `Abort` ... `Tick`, in the order of the source |
| `QRoverlay_start_displaying_qr` | `Encode`, `Border`, `Show` |
| list thread, welcome message | `ResolveCM`, `Welcome` |
| message hooks | `ByteSize`, `Serialize`, `LogonResponse` |
| `ISteamPS3OverlayRender_Render_Hook` | `RenderCheck`, `DrawBorder`, `DrawQr` |

Abstractions. A login's account is named by the thread that obtained it, and
its name and its token are the same value, so that a mixture is visible. A
dialog is the one kind that is up: a second `cellMsgDialogOpen2` fails, and a
delayed close closes whatever is up when it fires. `connectAllowed` stands for
the integer at `CUser + 0x28 + 0x3F8`. The Steam client is the small automaton
`engine`, which `CallLogOn` starts unless connecting is made to fail. Dead
locals are reset to merge states. `answered`, `owed`, `cancelled`, `rejected`,
`repeated` (the client's attempt answers a logon that had its answer) and `torn`
(the flag was cleared during the frame that is being rendered) are history
variables. A frame is three steps, because `Render` looks at the flag once and
draws two textures after it, while another thread may be deleting them.

Assumptions on the outside. The game calls the hook, the dialog callbacks and
the pad handler from one thread. The patches are in place (see `Startup`), in
the Portal 2 mode (`use_v2_cmsgclientlogon` false), and `BHostInitialise` has
run. Creating a thread succeeds; an RPC returns. The system takes the pad while
a dialog is up. The client restores the connect field itself, but not in the
middle of an answer of the plugin. A failed RPC unpacks to NULL and the game
dies (`RpcFailure`), which is why the runs that allow it do not check for
deadlock.

`Allowed` is a parameter: which of ten `Situations` an instance explores. All
ten are things that really happen. A property that does not hold under one of
them is stated without it, and the table of runs says which.

### HttpTransaction, CMList and HttpClient

`HttpTransaction` is `SteamGetCMList`: four calls that may fail and return at
once, then the receive loop, where the server chooses the announced length and
the pieces, and a failed receive leaves the loop *without* an error. `CMList`
is the thread around it: the length limit, the prefix, the copy into `splitIP`,
the parsing, the publication. Of the response only the number of characters
before the closing quote is kept, and whether they are a dotted address, with or
without a port. `splitIP` is a local array that nothing initialises or
terminates: `sscanf` reads on into what the stack holds behind the copied
characters. `behind` is what it finds there (`StackBytes`: a digit, a colon and a
number, or anything that ends the address), chosen freely, and `Parsed` what it
makes of both, compared with the address the server sent. The
lengths are parameters with the relation the source relies on: prefix + longest
address is at most the length limit (28 + 21 <= 50), and the longest address
fits `splitIP` (21 < 23).

`HttpClient` puts `condenstation_init_cellHttp` in front, call by call (three
library initialisations, the client, its three settings), in the list thread
and in every login thread at once. `current_cellHttp_client` is shared and is
read again before each setting; a client is named by the thread that created
it. No caller looks at the result, so that the list thread goes on without a
client as well, and its `CreateTransaction` then fails.

### AuthSession

The same request, made up to twenty times by `SteamAuthenticationRPC`. A
response is the sequence of its fields in the order of their numbers, which is
how they are sent; a receive that fails leaves a part of it. `unpack` takes
whole fields, and returns NULL for anything else: a field cut off, or the
unchanged buffer after an error return, whose rest is zero or arbitrary and does
not parse (a tag of zero is refused). Reading through NULL ends the game. The first response may be the
session, nothing at all (the server's refusal is in a header nobody reads) or an
error page, which is no message and unpacks to NULL (`BeginResponses`). An empty
response unpacks without an error, and the login then polls with a client id of
zero and no request id.
`begun` remembers whether the server has started a session.
The sizes are parameters. 56 is `sizeof` of the unpacked poll response with the
4-byte pointers and `size_t` of the PS3, which is what an empty one allocates.
The server may replace the session it polls for by a new client id and code, at
any poll; `shown` says whose code is on the screen, `current_client_id` and
`current_request_id` what the thread asks for. Of a request id the model keeps
whether it is missing or ends in zero, as one zero byte at the end of the packed
request is cut off. The copy of the id into 32 bytes is bounded by nothing but
its own length (`steam_login_flow_qr.c` 135-137): ids are taken to be no longer
than that. Cancels clear the flag of the loop at any time; what else the threads do
to each other is in `LogonFlow`.

| Code | Actions |
|---|---|
| `SteamAuthenticationRPC` | `Call` (the actions of `HttpTransaction`), `CallReturns` |
| `..._unpack` with `shitalloc` | `Unpack`, `UnpackFails` |
| the rest of `qr_code_auth_thread` | `Begin`, `NextPoll`, `Poll`, `Store`, `Tick`, `Cancelled` |

### AuthConfig

Each user's file is absent, unknown (the truncated file), plain or encrypted,
and may be cut short behind its header. Saving is one step per shared access:
the copy of the globals, the truncating open, the choice of encryption, the two
steps on the global `cinfohash`, the record of it, the checksum, the write, the
close. The checksum goes through the table of `crc32`, which whoever finds its
first entry zero fills: a thread may sum over a table another one has only begun
to fill, and the checksum is then worthless (`HalfFilled`, `Sum`). The game can
stop anywhere, in the middle of a write as well. Loading is one step, as nothing
else of the plugin runs then. Whether encryption is available is free each time:
the state variable is uninitialised if the system call fails. AES, SHA-1 and
CRC-32 are taken to tell contents apart; that the PSID overwrites the MAC
address in the bytes of the key (`condenstation_config.c` 71) is left out, as
no property here depends on which bytes the key is made of.

### PpcCode, HookPatch and HookAtomic

`PpcCode` holds the macros of `ppcasm.h` as numbers modulo their field widths,
the branch decoder and the `lis`/`addic` pairs of `steamclient_utils.c`, and
`Execute`, what a processor does with a word: the program counter and `r2`.

`HookPatch` is the hooking of `AddMultipleToTail`: the loader chooses the kind
of system call, copies the Steam client's TOC entries below the plugin's, and
makes `HookFunction`'s six writes. Meanwhile callers *execute* what is in memory,
word by word: the entry, the stub, the hook, which calls the original through
the stub. Each write has no effect if the kind of system call that was chosen
at the start does not work, and the player may disable both kinds at any moment.
The rest of the original and the hook's body are one step each.

`HookAtomic` says what a hook promises, without any memory: it is installed at
one instant, and each call runs the original once, after the hook exactly if it
was installed when the call was made. `HookPatch` is shown to implement it, with
"installed" being that the first word of the original has changed, and each
caller's stage being a function of its program counter.

### LogonMessage and Startup

`LogonMessage` is the arithmetic of `ByteSize` and `SerializeWithCachedSizes`
and their hooks: the fields the fix-up switches on and off, and the token that
is added as field 108. Sizes of fields are parameters. The token is shorter
than 1024, as `load_auth_config` and the copy out of a response make it.

`Startup` is `_prx_start` as a program: the sequence of its operations, which
depends on the game and on which of the interfaces and URLs were found. A URL
that is not found is skipped silently (`ReplaceString`), and so is an interface.
The write of a URL is not read back; only a later hook that is can show that
writing had stopped working by then.

| Code | Operation |
|---|---|
| `PS3_MemoryWriteCheck`, TOC, `PS3_HookFunction` | "hook" (`HookStep`, the loader of `HookPatch`) |
| `orig_... = vtable[...]` | "save" (`Save`) |
| `PS3_Write32(&vtable[...])` | "write" (`Write`) |
| `SCUtils_ReplaceString`, for the URLs that are found | "write" (`ReplaceString`, `Write`) |
| reading a hook back, `memwrite_failed` | "verify" (`Verify`) |
| `std_basic_string_constructor` and the other stubs | "stub" (`SetStub`) |
| `SCUtils_GetProtobufVtable`, used unchecked | "vtables" (`FindVtables`) |
| `SCUtils_FindSteamEngine` and `InitCDNCache` | "cdn" (`InitCDNCache`) |
| creating the threads, the message of `shillthread` | "threads" (`Threads`) |

Beside it run the callers of `HookPatch`, the player who disables the system
calls, and, after start-up, the Steam client with a logon message, through
whichever of the two message methods are hooked by then.

## Runs

| Run | Instance | Properties | Distinct states |
|---|---|---|---|
| `LogonOverlap` | 2 threads, 0 polls, overlapping logins, cancels, new URLs, lobby search; after the welcome message | `OverlayOwned`, `SessionReady`, `ConnectHasAddress` | 588,000 |
| `LogonOrdered` | 2 threads in sequence, 2 polls, everything but a change of the URL | `TypeOK`, `SuccessMeansSignedIn`, `AuthFileWhole`, `RefusedTokenNotOffered`, `LogonMessageWhole`, `DrawnIsLoaded`, `CancelEndsSession` | 196,000 |
| `LogonLive` | 2 threads in sequence, 1 poll, cancels, approvals, new URLs, failed requests, lobby search, fair | `AnswerArrives`, `OverlayCloses`, `SessionEnds` | 39,000 |
| `LogonOverlapLive` | 2 overlapping threads, 1 poll, failed requests, fair | `SessionEnds` | 201,000 |
| `CMListing` | the list thread and a login thread, buffer 11, up to 13 announced, fair | `ClientTypeOK`, `BufferNotOverrun`, `AddressAsSent`, `AddressBeforeFlag`, `ClientConfigured`, `AddressNeedsClient`, `Resolution`, `Decides` | 1,475,000 |
| `AuthSession` | the source's 18, 56 and 1024, bodies of up to 5 fields, three kinds of first response | `SessionTypeOK`, `TransactionsClosed`, `StoredIsThere`, `WaitingFits`, `PollsAskForShown` | 1,579,000 |
| `AuthFile` | 2 users, 2 saving threads, 2 tokens | `TypeOK`, `TornOnlyFromPlain`, `OwnAccount`, `SavedIsLoaded` | 1,520,000 |
| `Startup` | both games, 1 caller, 2 layouts, 3 sets of interfaces and URLs, 4 token lengths | `TypeOK`, `TocReady`, `HooksCallable`, `ToldTheTruth`, `PromptServed`, `AddressesRebuilt`, `MessageSized`, `HooksAtomically`, `CallsReturn` | 110,000 |

Bounds. Two login threads are the smallest number that overlap, and each start
consumes one: the runs therefore see two logins, the second of which may find
everything the first one left. Whether a login ends is asked twice, because
cancels and approvals times overlapping logins times polls is out of TLC's reach
with liveness: `LogonLive` has all that can happen to one login at a time,
`LogonOverlapLive` two logins that poll on one pair of flags. `MaxPolls` scales the limit of 18 polls; 0 to 2
cover a login that ends at its first poll, at the limit, and past a poll that
changed something. The lengths of `CMListing` keep every boundary of the source
(the longest address ends one before the limit, splitIP has room for two more).
A larger announced length than the buffer makes the receive loop offer a room of
zero bytes, which is why `CMListing` includes it. One login thread beside the
list thread is enough for two initialisations to interleave. In `AuthSession`
the buffer is the longest body and one byte more. The two layouts of `Startup`
put the plugin above the Steam client and below it, as far away as a branch
reaches, with addresses just below and just above a sign boundary of the lower
half; one caller meets every prefix of the six writes. The token lengths are
zero, both sides of the longer prefix, and the longest.

Where properties do not hold. `SessionReady` and `ConnectHasAddress` need the
welcome message to be gone: its delayed close removes the "still trying to
connect" notice, after which the hook, which does not return, opens the sign-in
prompt without an address. The `LogonOrdered` properties fail with overlapping
logins, which share two flags and the account globals. `RefusedTokenNotOffered`
is about the token on the wire, as the hooks send it whatever `HasConfigLoaded`
says, and has one exception: a login that is saving when the player presses
circle is dispatched by that press and again at the end of its thread
(`steam_login_flow_qr.c` 210), so that a token the first attempt was refused for
goes out a second time (`repeated`). `DrawnIsLoaded` has one as well: the frame
that a stop overtakes draws textures which that stop is deleting (`torn`); it
fails for other frames too if a new challenge URL is being displayed while the
player cancels, which is why its run has none.
`CancelEndsSession` is about a cancel of the armed poll loop: circle pressed in
the few instructions before clears the flag too early, and that login polls on,
unseen, until it times out (it does end, see `SessionEnds` in `LogonLive`).
`AddressAsSent` promises the address to the letter only if the stack behind
`splitIP` ends it. For an address sent with a port, anything else can spoil no
more than the port; one sent without may become any other address, which is why
the property says nothing of that case. `Decides` excepts
responses announced as longer than the buffer. `SavedIsLoaded` is
about a save no other save overlaps. `WaitingFits` ends before the last poll of
a login that times out, which overruns the buffer (see `AuthArena` below).
`StoredIsThere` holds because the server sends the three strings of an approved
login together and `account_name` last; a cut can then only remove it first.
`PollsAskForShown` excepts logins in which a response with ids was cut off. Of
the others it says what is wrong with them: a login the server refused polls
without a request id, and one whose request id ends in zero loses that byte.
`ToldTheTruth` is about writes in Portal 2: what was not found is not patched,
and the player is welcomed all the same; and for CS:GO the last hook that is read
back is the lobby search, so that the player may be welcomed without the message
hooks. `PromptServed` says that the overlay is hooked exactly if it was found. If
it was not, the prompt is reachable and the login it starts uses a `renderHost`
of NULL (`hooks_overlay.c` 130). The same happens if the client initialised its
overlay before the hook that notes `renderHost` was in place; when it does so is
outside this code, and not modelled. `MessageSized` excepts start-ups in which the system calls were
disabled between the writes of the two message methods: the token is then
written and was not counted, but that player has been shown the error.

Fairness. `FairSpec` of `LogonFlow` lets every QR thread and the game's thread,
once it is in the plugin, take its next step: the kernel schedules both, and
no step of theirs waits (an RPC returns, sleeping ends). Nothing forces the
player or Steam to do anything. `FairClientSpec` is the same for the list
thread, and leaves a failing receive unfair, so that the loop must not rely on
it. `Spec` of `Startup` lets a caller that is inside the patched function execute
its next instruction; the loader, the player and new calls are not forced. A
crash is the other outcome that the liveness properties name. Deadlock is not
checked where the program really ends: a crash, a finished thread, all logins
used up.

### What the source says and does not do

| Run | Says | Does |
|---|---|---|
| `LogonAnsweredTwice` | "fail the logon" (condenstation.c:305, 316) | the branch does not return, so one logon is passed on up to three times |
| `LogonDispatchedTwice` | "don't dispatch this if we don't have an interactive logon pending" (256) | the flag is never cleared, so answered logons are dispatched again, if need be with the token that was just refused |
| `LogonCancelLost` | "Press O to cancel" (the border image) | a poll in flight still signs the player in |
| `AuthArena` | `.max_size = sizeof(shitalloc_buffer)` (steam_login_flow_qr.c:67) | the allocator does not look at it: the 19th poll of a login that times out is unpacked past the end of the buffer |

## Proofs

The proofs use nothing but the named assumptions on the constants in the
modules, which TLC evaluates in every run, and what the third column says.

`LogonFlowProofs`, for any finite or infinite set of login threads, any
`MaxPolls` and any `Allowed`:

| Theorem | States | Assumes |
|---|---|---|
| `TypeCorrect` | `Spec => []TypeOK` | |
| `OverlayAlwaysOwned` | `Spec => []OverlayOwned` | |
| `SessionAlwaysReady` | `Spec => []SessionReady` | no logon before the welcome message is gone |
| `AddressAlwaysKnown` | `Spec => []ConnectHasAddress` | the same |
| `SignInSound` | `Spec => []SuccessMeansSignedIn` | no logon during a login (`Calm`) |
| `FileAlwaysWhole` | `Spec => []AuthFileWhole` | `Calm` |
| `MessageAlwaysWhole` | `Spec => []LogonMessageWhole` | `Calm` |
| `RefusedNeverOffered` | `Spec => []RefusedTokenNotOffered` | `Calm` |
| `DrawnAlwaysLoaded` | `Spec => []DrawnIsLoaded` | `Calm`, the challenge URL stays the same |
| `CancelAlwaysEnds` | `Spec => CancelEndsSession` | `Calm` |

The argument. Types come in two parts, `PcOK` (where threads can be) and
`DataOK`, each inductive by itself given the other. `OverlayOwned` is inductive
over the types: the only step that raises the flag leaves the thread inside
`Displaying`, and the only step that leaves `Displaying` clears it.

`SessionReady` is not inductive: a login starts from a prompt, so the prompt must
carry the same promise (third conjunct of `SessionInv`), and the prompt is opened
by a hook that may have failed the logon before. What keeps it from opening then
is the notice opened earlier in the same run of the hook: a system dialog is up
from `hookCmCall` to the end of the hook if there is no address (fifth conjunct),
and only the welcome message could remove it (fourth). This is the fact about the
code that a reader would least expect: not control flow but the failure of
`cellMsgDialogOpen2` protects the logon. `AddressInv` adds that the connect field
stays cleared from the failing branch to the end of the hook, and that the ending
of a login runs only with an address, which follows from `OverlayOwned` (circle
acts only while the code is shown) and `SessionReady`.

`OneLoginInv` says that logins do not overlap; the rest builds on it. `SignInInv`
says which of the globals a login thread has already written at each label, and
that a login that succeeded is not polled again. `MessageInv` says that whenever
the client logs on the account is `Settled`: whoever is still in a login has
succeeded. It holds because a dispatch after anything else leaves the connect
field cleared (a cancelled login may still be in a poll that signs the player
in), and the hook runs only while the client is idle. `RejectInv` says that a
login's token is new until that login stores it, which it does once, and that a
refused token can be in the globals only while `HasConfigLoaded` is clear. What
is left is a dispatch, which looks at neither: `OwedInv` says of a logon that
still awaits its answer that the client is idle, that what a living login has
stored was not refused (nobody can have offered it), and that the main thread
dispatches with success only while that login lives. Any other dispatch that
connects answers a logon twice, and sets `repeated`. `ShowInv` says that whoever
deletes a texture has cleared the flag, that nobody loads one meanwhile, and that
a frame goes on under a cleared flag only if the flag was cleared under it; a
later challenge URL breaks it. `CancelInv` says that a cancelled login is past the point where it sets the flag.

`CMListProofs`, for any sizes in the relation the source relies on (the prefix
and the longest address within the length limit, the longest address within
`splitIP`):

| Theorem | States |
|---|---|
| `ListTypeCorrect` | `Spec => []ListTypeOK` |
| `ReceiveInBounds` | `Spec => []BufferNotOverrun` |
| `AddressSound` | `Spec => []AddressAsSent` |
| `AddressStoredFirst` | `Spec => []AddressBeforeFlag` |
| `ImplementsResolution` | `Spec => Resolution`, that is `CMResolution` |

The invariant is `ListInv`: nothing is decided before the thread is done, only a
response above the limit is cut, a numeric address is copied to its end, and what
is stored, before it is announced, is what the parser makes of it and of the
bytes behind it (`Parsed`). That a response above the limit contains the whole of the first
address is arithmetic on the parameters, and the only place their relation is
used. The refinement is the identity on the three variables of `CMResolution`.

`HttpClientProofs`, for any set of login threads:

| Theorem | States |
|---|---|
| `ClientImplementsList` | `ClientSpec => Spec`, the one of `CMList` |
| `ClientTypeCorrect` | `ClientSpec => []ClientTypeOK` |
| `AlwaysConfigured` | `ClientSpec => []ClientConfigured` |
| `AddressOverClient` | `ClientSpec => []AddressNeedsClient` |

The first one carries the theorems about `CMList` over to the plugin as a whole.
`ClientConfigured` speaks of moments at which no thread makes settings; its
invariant says what the *creator* of the current client has set by the call it is
at. No thread loses a setting to another one, because whoever creates a later
client makes that one current before its own settings.

`PpcProofs`, for every address below 2^31 within reach:

| Theorem | States |
|---|---|
| `BranchArrives` | a branch and a call, written and then executed at the same place, arrive |
| `AddressLoaded` | `lis` and `ori` of the halves leave the address in the register |
| `PairIsCompiled` | the pair that is searched for is the one the compiler emits |
| `PairAddressInverts` | the address read out of a compiled pair is the address |

`HookPatchProofs`, for any set of callers, any layout within reach and any first
instruction that is no branch and touches no TOC:

| Theorem | States |
|---|---|
| `HookInvariant` | `SpecHook => []HookInv` |
| `HookTypeCorrect` | `SpecHook => []HookTypeOK` |
| `TocAlwaysReady` | `SpecHook => []TocReady` |
| `CallsAlwaysForward` | `SpecHook => []CallsGoForward` |
| `HookIsAtomic` | `SpecHook => HooksAtomically`, that is `HookAtomic` |

`HookInv` consists of: the TOC base is known and the entries copied when the
loader has passed there; the words of the stub that the loader has passed are the
ones meant (`StubDone`); the entry is changed only when all five are
(`EntryLast`); callers are in the stub only behind a changed entry
(`InsideOnly`); and the TOC register is right at each place (`TocHeld`). Its
delicate part is that writes fail: they fail from some moment on for good, so
that a changed entry proves that the earlier writes succeeded. With it, each
instruction a caller executes is, by the lemmas of `PpcProofs`, a step of
`HookAtomic` or none, and a step forward on `CallPath`. The latter is the part of
`CallsReturn` that does not need fairness: a call that is scheduled has returned
after eight instructions.

`StartupProofs`, for any set of callers, any layout within reach, both games and
any sets of interfaces that are found:

| Theorem | States |
|---|---|
| `StartupHooksAtomically` | `Spec => HooksAtomically` |
| `StartupTocReady` | `Spec => []TocReady` |
| `StartupCallsForward` | `Spec => []CallsGoForward` |
| `AddressesAlwaysRebuilt` | `Spec => []AddressesRebuilt`, for every address |
| `MessageAlwaysSized` | `Spec => []MessageSized`, for every token below 1024 and all sizes of fields |
| `StartupOrdered` | `Spec => [](HookInv /\ OrderInv)` |
| `HooksAlwaysCallable` | `Spec => []HooksCallable` |
| `PromptAlwaysServed` | `Spec => []PromptServed` |
| `TruthAlwaysTold` | `Spec => []ToldTheTruth` |
| `StartupTypeCorrect` | `Spec => []TypeOK` |

The first three follow from `StartupIsHookPatch`: all of start-up takes no other
step on code and callers than `HookPatch`.

`HooksCallable`, `PromptServed` and `ToldTheTruth` depend on the order of the
loader's program, which is a concatenation of parts, some of them empty for one
of the games or when an interface is not found. The argument has a static half
and a dynamic one. The static half is about the program alone. `InOrder` says
that every step has what it relies on provided by an earlier step: a write the
originals and functions its hook calls (`Uses`), a reading-back the write. It is
preserved by concatenation (`OrderConcat`), so that it is shown for one part at a
time (`OverlayPart` ... `ReplacePart` ... `LogOnPart`); what a program does (`Doing`) is likewise
the union over its parts. `ProgramIs` collects the facts about the whole: which
positions are those of the hook on `AddMultipleToTail`, and that the LogOn hook
and then the threads come last.

The dynamic half is `OrderInv`. Its parts say that `hookStep` counts the steps of
the hook that have been passed, that what was saved stays, that every write so
far had effect if writes still work, and that what was read back and not found
was noticed. None of the three properties is inductive without
`WrittenInOrder`: a slot that holds a hook was written by a step before which
*every* write of the program had effect. Like `EntryLast` it rests on writes
failing from some moment on for good (`KindKept`: what works is what the check at
the start chose, and the player can only take it away). From it, a hooked
`LogOn`, which is the last write, proves that everything else is in place
(`LogOnLast`), and a player who is welcomed has that hook, as it is read back.
What was not found is not in the program at all, so that nothing of it can have
been written (`OverlayOnlyIfFound`).

`AuthSessionProofs`, for every size of buffers, messages and strings in the
relation `18 * 56 <= 1024`, and every length of the poll loop:

| Theorem | States |
|---|---|
| `SessionTypeCorrect` | `Spec => []SessionTypeOK` |
| `TransactionsAlwaysClosed` | `Spec => []TransactionsClosed` |
| `StoredIsAlwaysThere` | `Spec => []StoredIsThere` |
| `WaitingAlwaysFits` | `Spec => []WaitingFits` |
| `PollsAlwaysAskForShown` | `Spec => []PollsAskForShown` |

`SessionInv` says what is left of a request when it is over, that what was
unpacked is a prefix of what was sent, and that a login that has waited through
`timeout` polls has allocated that many messages. `AskInv` follows the session
whose code is shown through a renewal: between the response and the step that
acts on it, the screen is behind the server, and never behind the poll. Of a login
the server refused it says that the ids stay what the empty response left.

`AuthConfigProofs`, for any users, threads and tokens:

| Theorem | States |
|---|---|
| `TypeCorrect` | `Spec => []TypeOK` |
| `LoadedIsOwn` | `Spec => []OwnAccount` |
| `TornAlwaysPlain` | `Spec => []TornOnlyFromPlain` |
| `SavedIsFound` | `Spec => SavedIsLoaded` |

`OwnerInv` follows a token from the login that obtained it through the globals,
the saving thread's copy and the file, and needs that no thread is saving while
the game is not running. `SaveInv` says what an undisturbed save has achieved at
each label: it is alone, the global hash is its own from the moment it is
computed until it is recorded, and a closed file `Holds` what `lastSave`
remembers; `SumInv` that no undisturbed save finds the table of crc32 half
filled. Its delicate part is that `disturbed` may go from true to false only
when no other thread is between its open and its close.

Every invariant, action property and refinement that a passing run checks is
thus a theorem. Only model-checked are the liveness properties (`AnswerArrives`,
`OverlayCloses`, `SessionEnds`, `Decides`, `CallsReturn`), which are out of the
prover's reach together with ENABLED.

## Not modelled

Most of the repository's lines are not the plugin's: protobuf-c and the messages
generated for it, libqrencode, tpng, AES and inih make up more than nine tenths
of them. They are libraries of pure functions here, and the models take what
they return as a choice. Of the plugin's own code the following is left out.

- The searches of `steamclient_utils.c` in the Steam client's machine code, and
  the lookups by NID: what they find depends on a binary that is not in the
  repository. `Startup` has what follows when one of the checked ones fails.
- `PS3_PokeBranch` and `PS3_CreateTrampoline`, which nothing calls, and
  `PS3_Code`, a record of writes that nothing reads.
- The encoding of requests (base64, URLs), and the names and colours of things.
- `FixStatName`, the appid override and `load_appid_file`: pure functions, and one
  number read at start-up.
- The bytes of the string that holds the account name, and the positions of the
  fields in the newer CS:GO message. In that mode the sign-in is not reachable,
  because `LogOn` is not hooked.
- A token of 1024 characters or more, which `strncpy` would leave unterminated.
- Username and password login, which is a stub, and logging.

`PROJECT.json` gives the status of each component, and under "hazards" what can
go wrong in it, with the properties that would notice.

## Plan

1. `LogonFlow`, `CMResolution`, `CMList`, `AuthConfig`, `AuthSession`: done.
2. `PpcCode`, `HookPatch`, `HookAtomic` and the refinement: done.
3. `Startup` and `HttpClient`: done.
4. `LogonMessage`: done for both games' lengths; the field positions of the newer
   message are left.
5. Proofs of every safety property of `LogonFlow`, `CMList`, `HttpClient`,
   `AuthSession`, `AuthConfig`, `HookPatch` and `Startup`: done.
