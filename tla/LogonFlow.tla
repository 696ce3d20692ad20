----------------------------- MODULE LogonFlow ------------------------------
(* The QR logon of condenstation: the hooked CUser::LogOn, the "sign in?"    *)
(* prompt, the "condenstation_QRLogin" thread, the overlay that shows the QR *)
(* code and captures the pad, the pending logon dispatched when a login      *)
(* ends, and the hooks that put the account into CMsgClientLogon.            *)
(*                                                                           *)
(* The game's main thread runs the LogOn hook, the sysutil dialog callbacks  *)
(* and the pad handler, one at a time.  A QR thread runs concurrently with   *)
(* it, and the plugin shares plain globals between them, so every statement  *)
(* that reads or writes a shared global is a step of its own.  The overlay's *)
(* Render is called by the game on whichever thread it renders with.  The    *)
(* dialogs, the connection manager thread and the original Steam client are  *)
(* external.                                                                 *)
(* Locals and message fields that are dead are reset, to merge states.       *)

EXTENDS Naturals, FiniteSets

CONSTANTS
  QrThreads,    \* the login threads the player may start, one per prompt
  Game,         \* the game's main thread
  MaxPolls,     \* timeout > MaxPolls ends the poll loop (18 in the source)
  Allowed,      \* the situations this instance explores, see Situations
  NoLogin,      \* the content of the zeroed account buffers
  SavedLogin    \* the account loaded from condenstation.ini at boot

\* logonDuringLogin: the game logs on while an earlier logon is unanswered: a
\*                   prompt, a QR thread or an attempt of the client is up.
\* approval:         the player approves a login in the Steam Guard app.
\* cancel:           the player presses circle while the QR code is displayed.
\* earlyCancel:      circle between start_displaying_qr and the line that sets
\*                   auth_session_running, a window of a few instructions.
\* newChallengeUrl:  a poll response carries a new challenge URL.
\* rpcFailure:       an authentication RPC fails; its response is not checked.
\* welcomeDialog:    a logon before the welcome message has been closed.
\* lobbySearch:      the player searches for a lobby, which opens an OK message.
\* logonMessage:     the Steam client gets as far as exchanging the message.
\* frames:           the game renders the overlay, frame by frame.
Situations ==
  {"logonDuringLogin", "earlyCancel", "newChallengeUrl", "rpcFailure", "welcomeDialog",
   "approval", "cancel", "lobbySearch", "logonMessage", "frames"}

ASSUME ThreadsAssumption == Game \notin QrThreads
ASSUME MaxPollsAssumption == MaxPolls \in Nat
ASSUME AllowedAssumption == Allowed \subseteq Situations
ASSUME LoginsAssumption ==
  NoLogin # SavedLogin /\ NoLogin \notin QrThreads /\ SavedLogin \notin QrThreads

Procs == QrThreads \cup {Game}

\* What an approved login yields is named by the thread that obtained it; the
\* account name and the token of one login are the same value, so that a mix
\* of two logins is visible.
Logins == QrThreads \cup {NoLogin, SavedLogin}

VARIABLES
  pc,                            \* where each thread is
  ret,                           \* where start_displaying_qr returns to
  timeout,                       \* poll counter of each QR thread
  fail,                          \* argument of dispatch_pending_logon
  bInteractive,                  \* argument of the LogOn hook
  has_netadr, has_fatal_error,   \* written by the connection manager thread
  HasConfigLoaded, SteamAccountName, SteamAccessToken,
  authFile,                      \* the account saved in condenstation.ini
  has_pending_interactive_logon,
  auth_session_running, auth_session_success,
  is_displaying_qr,
  textures,                      \* overlay textures loaded, 3002 and 3001
  render,                        \* what the frame being rendered draws next
  torn,                          \* the flag was cleared during the frame (ghost)
  dialog,                        \* the system message dialog, one at a time
  shill,                         \* the welcome message thread
  connectAllowed,                \* CUser + 0x28 + 0x3F8, zero fails Connect
  engine,                        \* the Steam client's own logon attempt
  repeated,                      \* it answers a logon that had its answer (ghost)
  sized,                         \* the account ByteSize was computed for
  wire,                          \* the token serialized into the message
  rejected,                      \* tokens Steam refused to log on (ghost)
  crashed,                       \* the game died on a NULL response
  answered,                      \* this hook run called CUser::LogOn (ghost)
  owed,                          \* a prompted logon awaits its answer (ghost)
  cancelled                      \* threads whose poll loop was cancelled (ghost)

cmVars       == <<has_netadr, has_fatal_error>>
accountVars  == <<HasConfigLoaded, SteamAccountName, SteamAccessToken, authFile>>
sessionVars  == <<auth_session_running, auth_session_success>>
overlayVars  == <<is_displaying_qr, textures, render, torn>>
dialogVars   == <<dialog, shill>>
messageVars  == <<sized, wire, rejected>>
clientVars   == <<connectAllowed, engine, repeated>>
localVars    == <<ret, timeout, fail, bInteractive>>
ghostVars    == <<answered, owed, cancelled>>

sharedVars == <<cmVars, accountVars, has_pending_interactive_logon, sessionVars, overlayVars,
                dialogVars, clientVars, messageVars, crashed>>
vars       == <<pc, localVars, sharedVars, ghostVars>>

\* Frame conditions: what a step leaves alone.
ownVars == <<localVars, ghostVars>>
exceptAccount == <<cmVars, has_pending_interactive_logon, sessionVars, overlayVars,
                   dialogVars, clientVars, messageVars, crashed>>
exceptSession == <<cmVars, accountVars, has_pending_interactive_logon, overlayVars,
                   dialogVars, clientVars, messageVars, crashed>>
exceptOverlay == <<cmVars, accountVars, has_pending_interactive_logon, sessionVars,
                   dialogVars, clientVars, messageVars, crashed>>
exceptDialog  == <<cmVars, accountVars, has_pending_interactive_logon, sessionVars,
                   overlayVars, clientVars, messageVars, crashed>>
exceptClient  == <<cmVars, accountVars, has_pending_interactive_logon, sessionVars,
                   overlayVars, dialogVars, messageVars, crashed>>

CM == INSTANCE CMResolution

-----------------------------------------------------------------------------
(* Program counters.                                                         *)

ShowLabels     == {"encode", "border", "show"}
ApprovedLabels == {"setConfig", "setName", "setToken", "clearRunning", "setSuccess", "save"}
LoopLabels     == {"close", "arm", "loop", "poll", "tick"} \cup ApprovedLabels
StopLabels     == {"stopFlag", "stopBorder", "stopQr", "stopRunning"}
DispatchLabels == {"dispatchArg", "dispatch", "dispatchCall"}
HookLabels     == {"hookFatal", "hookFatalCall", "hookCm", "hookCmCall", "hookConfig",
                   "hookConfigCall"}

QrLabels   == {"none", "abort", "open", "init", "begin", "done"}
                \cup ShowLabels \cup LoopLabels \cup StopLabels \cup DispatchLabels
GameLabels == {"idle"} \cup HookLabels \cup StopLabels \cup DispatchLabels

Dialogs == {"none", "welcome", "notice", "prompt", "promptClosed", "connecting"}

Alive(t)  == pc[t] \notin {"none", "done"}
NoneAlive == \A t \in QrThreads : ~Alive(t)
Calm      == "logonDuringLogin" \notin Allowed

PcOK ==
  /\ pc \in [Procs -> QrLabels \cup GameLabels]
  /\ \A p \in Procs : pc[p] \in (IF p = Game THEN GameLabels ELSE QrLabels)

DataOK ==
  /\ ret \in [QrThreads -> {"close", "setConfig", "tick"}]
  /\ timeout \in [QrThreads -> 0 .. MaxPolls + 1]
  /\ fail \in [Procs -> BOOLEAN]
  /\ bInteractive \in BOOLEAN
  /\ CM!TypeOK
  /\ HasConfigLoaded \in BOOLEAN
  /\ SteamAccountName \in Logins /\ SteamAccessToken \in Logins
  /\ authFile \in [name : Logins, token : Logins]
  /\ has_pending_interactive_logon \in BOOLEAN
  /\ auth_session_running \in BOOLEAN /\ auth_session_success \in BOOLEAN
  /\ is_displaying_qr \in BOOLEAN /\ textures \subseteq {"qr", "border"}
  /\ render \in {"idle", "border", "qr"} /\ torn \in BOOLEAN
  /\ dialog \in Dialogs /\ shill \in {"start", "shown", "done"}
  /\ connectAllowed \in BOOLEAN
  /\ engine \in {"idle", "connecting", "sized", "sent"} /\ repeated \in BOOLEAN
  /\ sized \in [name : Logins, token : Logins] /\ wire \in Logins
  /\ rejected \subseteq Logins
  /\ crashed \in BOOLEAN
  /\ answered \in BOOLEAN /\ owed \in BOOLEAN /\ cancelled \subseteq QrThreads

TypeOK == PcOK /\ DataOK

Init ==
  /\ pc = [p \in Procs |-> IF p = Game THEN "idle" ELSE "none"]
  /\ ret = [t \in QrThreads |-> "close"]
  /\ timeout = [t \in QrThreads |-> 0]
  /\ fail = [p \in Procs |-> FALSE]
  /\ bInteractive = FALSE
  /\ CM!Init
  /\ HasConfigLoaded \in BOOLEAN
  /\ SteamAccountName = (IF HasConfigLoaded THEN SavedLogin ELSE NoLogin)
  /\ SteamAccessToken = SteamAccountName
  /\ authFile = [name |-> SteamAccountName, token |-> SteamAccessToken]
  /\ has_pending_interactive_logon = FALSE
  /\ auth_session_running = FALSE /\ auth_session_success = FALSE
  /\ is_displaying_qr = FALSE /\ textures = {}
  /\ render = "idle" /\ torn = FALSE
  /\ dialog = "none" /\ shill = "start"
  /\ connectAllowed = TRUE /\ engine = "idle" /\ repeated = FALSE
  /\ sized = [name |-> NoLogin, token |-> NoLogin] /\ wire = NoLogin
  /\ rejected = {}
  /\ crashed = FALSE
  /\ answered = FALSE /\ owed = FALSE /\ cancelled = {}

-----------------------------------------------------------------------------
(* Helpers.                                                                  *)

Goto(p, from, to) == pc[p] = from /\ pc' = [pc EXCEPT ![p] = to]

\* cellMsgDialogOpen2 fails, and its result is ignored, while a dialog is up.
Open(kind) == dialog' = IF dialog = "none" THEN kind ELSE dialog

\* cellMsgDialogClose: the delayed close of whichever dialog is up then; the
\* callback of the sign-in prompt still runs, with no button pressed.
Closed == CASE dialog \in {"prompt", "promptClosed"} -> "promptClosed"
            [] OTHER -> "none"

\* The original CUser::LogOn: it starts a logon unless Connect is made to fail.
CallLogOn(again) ==
  /\ engine' = IF connectAllowed THEN "connecting" ELSE engine
  /\ repeated' = IF connectAllowed THEN again ELSE repeated

-----------------------------------------------------------------------------
(* The LogOn hook, on the game's thread.  A logon that must fail is passed   *)
(* on with the connect field cleared; only the last branch returns.          *)

LogOn(b) ==
  /\ shill = "done" \/ "welcomeDialog" \in Allowed
  /\ Calm => NoneAlive /\ dialog \notin {"prompt", "promptClosed"} /\ engine = "idle"
  /\ Goto(Game, "idle", "hookFatal")
  /\ bInteractive' = b
  /\ UNCHANGED <<sharedVars, ghostVars, fail, ret, timeout>>

\* A fault: the connect field is left as it is.
FailLogonStillConnects(cond, from, call, next) ==
  /\ Goto(Game, from, IF cond THEN call ELSE next)
  /\ IF cond /\ bInteractive THEN Open("notice") ELSE UNCHANGED dialog
  /\ UNCHANGED <<exceptDialog, ownVars, shill>>

\* One "display an error and fail the logon" branch: a notice if the logon is
\* interactive, and the connect field cleared for the call that follows.
FailLogon(cond, from, call, next) ==
  /\ IF cond
       THEN /\ Goto(Game, from, call)
            /\ IF bInteractive THEN Open("notice") ELSE UNCHANGED dialog
            /\ connectAllowed' = FALSE
       ELSE /\ Goto(Game, from, next)
            /\ UNCHANGED <<connectAllowed, dialog>>
  /\ UNCHANGED <<cmVars, accountVars, sessionVars, overlayVars, messageVars, localVars,
                  ghostVars, crashed, engine, has_pending_interactive_logon, repeated, shill>>

\* A fault: the check for an address is missing.
HookCmUnchecked == FailLogon(FALSE, "hookCm", "hookCmCall", "hookConfig")

HookFatal == FailLogon(has_fatal_error, "hookFatal", "hookFatalCall", "hookCm")
HookCm    == FailLogon(~has_netadr, "hookCm", "hookCmCall", "hookConfig")

HookCall(from, next) ==
  /\ Goto(Game, from, next)
  /\ CallLogOn(FALSE)
  /\ answered' = (next # "idle")
  /\ bInteractive' = (bInteractive /\ next # "idle")
  /\ UNCHANGED <<exceptClient, cancelled, connectAllowed, fail, owed, ret, timeout>>

HookFatalCall  == HookCall("hookFatalCall", "hookCm")
HookCmCall     == HookCall("hookCmCall", "hookConfig")
HookConfigCall == HookCall("hookConfigCall", "idle")

HookPrompt ==
  /\ ~HasConfigLoaded /\ bInteractive
  /\ Goto(Game, "hookConfig", "idle")
  /\ has_pending_interactive_logon' = TRUE
  /\ Open("prompt")
  /\ owed' = TRUE
  /\ answered' = FALSE /\ bInteractive' = FALSE
  /\ UNCHANGED <<cmVars, accountVars, sessionVars, overlayVars, messageVars, clientVars,
                  cancelled, crashed, fail, ret, shill, timeout>>

HookConfig ==
  /\ HasConfigLoaded \/ ~bInteractive
  /\ Goto(Game, "hookConfig", "hookConfigCall")
  /\ connectAllowed' = (connectAllowed /\ HasConfigLoaded)
  /\ UNCHANGED <<exceptClient, ownVars, engine, repeated>>

-----------------------------------------------------------------------------
(* The player and the game, at the main thread's leisure.                    *)

\* logon_initial_dialog_callback with YES: the QR thread is created.
PromptYes(t) ==
  /\ dialog = "prompt"
  /\ dialog' = "none"
  /\ pc[Game] = "idle"
  /\ Goto(t, "none", "abort")
  /\ UNCHANGED <<exceptDialog, ownVars, shill>>

\* The same callback with any other button, or after the dialog was closed.
PromptNo ==
  /\ dialog \in {"prompt", "promptClosed"}
  /\ dialog' = "none"
  /\ Goto(Game, "idle", "dispatch")
  /\ fail' = [fail EXCEPT ![Game] = TRUE]
  /\ UNCHANGED <<exceptDialog, ghostVars, bInteractive, ret, shill, timeout>>

\* An OK message comes and goes: the player dismisses a notice, or
\* the RequestLobbyList hook opens one.
Notice ==
  /\ pc[Game] = "idle"
  /\ \/ dialog = "notice" /\ dialog' = "none"
     \/ "lobbySearch" \in Allowed /\ dialog = "none" /\ Open("notice")
  /\ UNCHANGED <<pc, exceptDialog, ownVars, shill>>

\* BHandleCellPadData: circle while the QR code is displayed.  A system dialog
\* takes the pad away from the game.
PressCircle ==
  /\ "cancel" \in Allowed
  /\ is_displaying_qr
  /\ dialog = "none"
  /\ "earlyCancel" \in Allowed \/ \A t \in QrThreads : pc[t] \notin {"close", "arm"}
  /\ Goto(Game, "idle", "stopFlag")
  /\ UNCHANGED <<ownVars, sharedVars>>

-----------------------------------------------------------------------------
(* QRoverlay_stop_displaying_qr, cancel_qr_auth_session and                  *)
(* dispatch_pending_logon, run by a QR thread at its end and by the game's   *)
(* thread when circle is pressed.                                            *)

End(p) == IF p = Game THEN "idle" ELSE "done"

StopFlag(p) ==
  /\ Goto(p, "stopFlag", "stopBorder")
  /\ is_displaying_qr' = FALSE
  /\ torn' = (torn \/ render # "idle")
  /\ UNCHANGED <<exceptOverlay, ownVars, render, textures>>

DeleteTexture(p, from, to, texture) ==
  /\ Goto(p, from, to)
  /\ textures' = textures \ {texture}
  /\ UNCHANGED <<exceptOverlay, ownVars, is_displaying_qr, render, torn>>

StopBorder(p) == DeleteTexture(p, "stopBorder", "stopQr", "border")
StopQr(p)     == DeleteTexture(p, "stopQr", "stopRunning", "qr")

\* A fault: the poll loop is not told.
StopRunningForgotten(p) ==
  /\ Goto(p, "stopRunning", "dispatchArg")
  /\ cancelled' = IF p = Game
                    THEN cancelled \cup
                           {t \in QrThreads : pc[t] \in {"loop", "poll", "tick"}}
                    ELSE cancelled
  /\ UNCHANGED <<sharedVars, localVars, answered, owed>>

\* From here on a login whose poll loop the player cancelled must not go on.
StopRunning(p) ==
  /\ Goto(p, "stopRunning", "dispatchArg")
  /\ auth_session_running' = FALSE
  /\ cancelled' = IF p = Game
                    THEN cancelled \cup
                           {t \in QrThreads : pc[t] \in {"loop", "poll", "tick"}}
                    ELSE cancelled
  /\ UNCHANGED <<exceptSession, localVars, answered, auth_session_success, owed>>

DispatchArg(p) ==
  /\ Goto(p, "dispatchArg", "dispatch")
  /\ fail' = [fail EXCEPT ![p] = ~auth_session_success]
  /\ UNCHANGED <<sharedVars, ghostVars, bInteractive, ret, timeout>>

Dispatch(p) ==
  /\ Goto(p, "dispatch", IF has_pending_interactive_logon THEN "dispatchCall" ELSE End(p))
  /\ connectAllowed' = IF has_pending_interactive_logon THEN ~fail[p] ELSE connectAllowed
  /\ UNCHANGED <<exceptClient, ownVars, engine, repeated>>

DispatchCall(p) ==
  /\ Goto(p, "dispatchCall", End(p))
  /\ CallLogOn(~owed)
  /\ owed' = FALSE
  /\ fail' = [fail EXCEPT ![p] = FALSE]
  /\ cancelled' = cancelled \ {p}
  /\ UNCHANGED <<exceptClient, answered, bInteractive, connectAllowed, ret, timeout>>

Stop(p) ==
  \/ StopFlag(p) \/ StopBorder(p) \/ StopQr(p) \/ StopRunning(p)
  \/ DispatchArg(p) \/ Dispatch(p) \/ DispatchCall(p)

-----------------------------------------------------------------------------
(* qr_code_auth_thread.                                                      *)

\* cellMsgDialogAbort: the dialog disappears and its callback never runs.
Abort(t) ==
  /\ Goto(t, "abort", "open")
  /\ dialog' = "none"
  /\ UNCHANGED <<exceptDialog, ownVars, shill>>

OpenConnecting(t) ==
  /\ Goto(t, "open", "init")
  /\ Open("connecting")
  /\ UNCHANGED <<exceptDialog, ownVars, shill>>

\* A fault: the outcome of the previous login is kept.
ClearSuccessForgotten(t) ==
  /\ Goto(t, "init", "begin")
  /\ UNCHANGED <<ownVars, sharedVars>>

ClearSuccess(t) ==
  /\ Goto(t, "init", "begin")
  /\ auth_session_success' = FALSE
  /\ UNCHANGED <<exceptSession, ownVars, auth_session_running>>

\* What a response makes the thread do: show the challenge URL it carries, if
\* any, and then go on.
Respond(t, from, url, next) ==
  /\ ret' = [ret EXCEPT ![t] = IF url THEN next ELSE @]
  /\ Goto(t, from, IF url THEN "encode" ELSE next)

\* BeginAuthSessionViaQR; an error response has no challenge URL.
Begin(t) ==
  /\ \E url \in BOOLEAN : Respond(t, "begin", url, "close")
  /\ UNCHANGED <<sharedVars, ghostVars, bInteractive, fail, timeout>>

\* PollAuthSessionStatus: still waiting, a new challenge URL, or approved.
Poll(t) ==
  /\ \E url \in BOOLEAN, next \in {"tick", "setConfig"} :
       /\ url => "newChallengeUrl" \in Allowed
       /\ next = "setConfig" => "approval" \in Allowed
       /\ Respond(t, "poll", url, next)
  /\ UNCHANGED <<sharedVars, ghostVars, bInteractive, fail, timeout>>

\* A failed RPC leaves the buffer unwritten or truncated; unpacking it yields
\* NULL, which the thread dereferences.  (Bytes that happen to parse have the
\* effect of one of the responses above.)
RpcFailure(t) ==
  /\ "rpcFailure" \in Allowed
  /\ pc[t] \in {"begin", "poll"}
  /\ crashed' = TRUE
  /\ UNCHANGED <<pc, cmVars, accountVars, sessionVars, overlayVars, dialogVars, messageVars,
                  clientVars, localVars, ghostVars, has_pending_interactive_logon>>

Return(t, from) == Goto(t, from, ret[t]) /\ ret' = [ret EXCEPT ![t] = "close"]

\* A fault: a missing image does not end start_displaying_qr.
LoadTextureOrNot(t, from, to, texture) ==
  /\ Goto(t, from, to)
  /\ textures' \in {textures, textures \cup {texture}}
  /\ UNCHANGED <<exceptOverlay, ownVars, is_displaying_qr, render, torn>>

\* QRoverlay_start_displaying_qr: either image may fail to be produced, and
\* the flag then keeps its value.
LoadTexture(t, from, to, texture) ==
  /\ \/ Goto(t, from, to) /\ textures' = textures \cup {texture} /\ UNCHANGED ret
     \/ Return(t, from) /\ UNCHANGED textures
  /\ UNCHANGED <<exceptOverlay, ghostVars, bInteractive, fail, is_displaying_qr, render,
                  timeout, torn>>

Encode(t) == LoadTexture(t, "encode", "border", "qr")
Border(t) == LoadTexture(t, "border", "show", "border")

Show(t) ==
  /\ Return(t, "show")
  /\ is_displaying_qr' = TRUE
  /\ UNCHANGED <<exceptOverlay, ghostVars, bInteractive, fail, render, textures, timeout,
                  torn>>

CloseConnecting(t) ==
  /\ Goto(t, "close", "arm")
  /\ dialog' = Closed
  /\ UNCHANGED <<exceptDialog, ownVars, shill>>

Arm(t) ==
  /\ Goto(t, "arm", "loop")
  /\ auth_session_running' = TRUE
  /\ UNCHANGED <<exceptSession, ownVars, auth_session_success>>

\* Two faults: the thread exits without taking the QR code down, or at once.
LoopLeaves(t, end) ==
  /\ Goto(t, "loop", IF auth_session_running THEN "poll" ELSE end)
  /\ UNCHANGED <<ownVars, sharedVars>>
LoopLeavesOverlay(t) == LoopLeaves(t, "stopRunning")
LoopLeavesLogon(t)   == LoopLeaves(t, "done")

Loop(t) ==
  /\ Goto(t, "loop", IF auth_session_running THEN "poll" ELSE "stopFlag")
  /\ timeout' = [timeout EXCEPT ![t] = IF auth_session_running THEN @ ELSE 0]
  /\ UNCHANGED <<sharedVars, ghostVars, bInteractive, fail, ret>>

\* The approved login is published one global at a time, in this order.
SetConfig(t) ==
  /\ Goto(t, "setConfig", "setName")
  /\ HasConfigLoaded' = TRUE
  /\ UNCHANGED <<exceptAccount, ownVars, SteamAccessToken, SteamAccountName, authFile>>

\* A fault: the token is not copied.
SetNameOnly(t) ==
  /\ Goto(t, "setName", "clearRunning")
  /\ SteamAccountName' = t
  /\ UNCHANGED <<exceptAccount, ownVars, HasConfigLoaded, SteamAccessToken, authFile>>

SetName(t) ==
  /\ Goto(t, "setName", "setToken")
  /\ SteamAccountName' = t
  /\ UNCHANGED <<exceptAccount, ownVars, HasConfigLoaded, SteamAccessToken, authFile>>

SetToken(t) ==
  /\ Goto(t, "setToken", "clearRunning")
  /\ SteamAccessToken' = t
  /\ UNCHANGED <<exceptAccount, ownVars, HasConfigLoaded, SteamAccountName, authFile>>

ClearRunning(t) ==
  /\ Goto(t, "clearRunning", "setSuccess")
  /\ auth_session_running' = FALSE
  /\ UNCHANGED <<exceptSession, ownVars, auth_session_success>>

SetSuccess(t) ==
  /\ Goto(t, "setSuccess", "save")
  /\ auth_session_success' = TRUE
  /\ UNCHANGED <<exceptSession, ownVars, auth_session_running>>

Save(t) ==
  /\ Goto(t, "save", "tick")
  /\ authFile' = [name |-> SteamAccountName, token |-> SteamAccessToken]
  /\ UNCHANGED <<exceptAccount, ownVars, HasConfigLoaded, SteamAccessToken,
                  SteamAccountName>>

\* A fault: the login never times out.
TickForever(t) ==
  /\ Goto(t, "tick", "loop")
  /\ timeout' = [timeout EXCEPT ![t] = IF @ > MaxPolls + 1 THEN @ ELSE @ + 1]
  /\ UNCHANGED <<sharedVars, ghostVars, bInteractive, fail, ret>>

\* The counter is bounded by MaxPolls + 1, where it no longer matters.
Tick(t) ==
  /\ Goto(t, "tick", "loop")
  /\ timeout' = [timeout EXCEPT ![t] = IF @ > MaxPolls THEN @ ELSE @ + 1]
  /\ auth_session_running' = (auth_session_running /\ timeout'[t] <= MaxPolls)
  /\ UNCHANGED <<exceptSession, ghostVars, auth_session_success, bInteractive, fail, ret>>

Qr(t) ==
  \/ Abort(t) \/ OpenConnecting(t) \/ ClearSuccess(t) \/ Begin(t) \/ RpcFailure(t)
  \/ Encode(t) \/ Border(t) \/ Show(t)
  \/ CloseConnecting(t) \/ Arm(t) \/ Loop(t) \/ Poll(t)
  \/ SetConfig(t) \/ SetName(t) \/ SetToken(t) \/ ClearRunning(t) \/ SetSuccess(t)
  \/ Save(t) \/ Tick(t)

-----------------------------------------------------------------------------
(* The connection manager thread and the welcome message thread.             *)

\* CMResolution's two outcomes.
ResolveCM ==
  /\ CM!Next
  /\ UNCHANGED <<pc, accountVars, sessionVars, overlayVars, dialogVars, messageVars,
                  clientVars, localVars, ghostVars, crashed, has_pending_interactive_logon>>

\* shillthread: the message has no button, it is closed after a while.
Welcome ==
  /\ \/ shill = "start" /\ shill' = "shown" /\ Open("welcome")
     \/ shill = "shown" /\ shill' = "done" /\ dialog' = Closed
  /\ UNCHANGED <<pc, exceptDialog, ownVars>>

-----------------------------------------------------------------------------
(* The Steam client and the hooks on its logon message.                      *)

\* CMsgClientLogon::ByteSize: the account name is put into the message and the
\* token's length is added.
ByteSize ==
  /\ "logonMessage" \in Allowed
  /\ engine = "connecting"
  /\ engine' = "sized"
  /\ sized' = [name |-> SteamAccountName, token |-> SteamAccessToken]
  /\ UNCHANGED <<pc, cmVars, accountVars, sessionVars, overlayVars, dialogVars, localVars,
                  ghostVars, connectAllowed, crashed, has_pending_interactive_logon, rejected,
                  repeated, wire>>

\* SerializeWithCachedSizes: the name is already there, the token is read again.
Serialize ==
  /\ engine = "sized"
  /\ engine' = "sent"
  /\ wire' = SteamAccessToken
  /\ UNCHANGED <<pc, cmVars, accountVars, sessionVars, overlayVars, dialogVars, localVars,
                  ghostVars, connectAllowed, crashed, has_pending_interactive_logon, rejected,
                  repeated, sized>>

\* A fault: a refused logon leaves the configuration in use.
LogonResponseIgnored(ok) ==
  /\ engine = "sent"
  /\ engine' = "idle"
  /\ sized' = [name |-> NoLogin, token |-> NoLogin] /\ wire' = NoLogin
  /\ rejected' = IF ok THEN rejected ELSE rejected \cup {wire}
  /\ repeated' = FALSE
  /\ UNCHANGED <<pc, cmVars, accountVars, sessionVars, overlayVars, dialogVars, localVars,
                  ghostVars, connectAllowed, crashed, has_pending_interactive_logon>>

\* CMsgClientLogonResponse::MergePartialFromCodedStream.
LogonResponse(ok) ==
  /\ engine = "sent"
  /\ engine' = "idle"
  /\ HasConfigLoaded' = (HasConfigLoaded /\ ok)
  /\ sized' = [name |-> NoLogin, token |-> NoLogin] /\ wire' = NoLogin
  /\ rejected' = IF ok THEN rejected ELSE rejected \cup {wire}
  /\ repeated' = FALSE
  /\ UNCHANGED <<pc, cmVars, sessionVars, overlayVars, dialogVars, localVars, ghostVars,
                  SteamAccessToken, SteamAccountName, authFile, connectAllowed, crashed,
                  has_pending_interactive_logon>>

\* The Steam client sets the connect field itself at some point after a logon;
\* it is assumed not to do so while a logon is being answered.
RestoreConnect ==
  /\ connectAllowed' = TRUE
  /\ pc[Game] \notin HookLabels
  /\ \A p \in Procs : pc[p] # "dispatchCall"
  /\ UNCHANGED <<pc, exceptClient, ownVars, engine, repeated>>

-----------------------------------------------------------------------------
(* ISteamPS3OverlayRender::Render, once per frame: the flag is looked at     *)
(* once, and the border and the code are drawn after it.                     *)

RenderCheck ==
  /\ "frames" \in Allowed
  /\ render = "idle" /\ is_displaying_qr
  /\ render' = "border"
  /\ UNCHANGED <<pc, exceptOverlay, ownVars, is_displaying_qr, textures, torn>>

Draw(from, to) ==
  /\ render = from /\ render' = to
  /\ torn' = (torn /\ to # "idle")
  /\ UNCHANGED <<pc, exceptOverlay, ownVars, is_displaying_qr, textures>>

DrawBorder == Draw("border", "qr")
DrawQr     == Draw("qr", "idle")

Render == RenderCheck \/ DrawBorder \/ DrawQr

-----------------------------------------------------------------------------
(* The specification.                                                        *)

ThreadStep(t) == ~crashed /\ (Qr(t) \/ Stop(t))

\* What the game's thread does on its own once it has entered the plugin.
GameStep ==
  /\ ~crashed
  /\ \/ HookFatal \/ HookFatalCall \/ HookCm \/ HookCmCall
     \/ HookPrompt \/ HookConfig \/ HookConfigCall
     \/ Stop(Game)

\* What the player and the game may do, and need not.
InputStep ==
  /\ ~crashed
  /\ \/ \E b \in BOOLEAN : LogOn(b)
     \/ \E t \in QrThreads : PromptYes(t)
     \/ PromptNo \/ Notice \/ PressCircle

ExternalStep ==
  /\ ~crashed
  /\ \/ ResolveCM \/ Welcome
     \/ ByteSize \/ Serialize \/ (\E ok \in BOOLEAN : LogonResponse(ok)) \/ RestoreConnect
     \/ Render

Next ==
  \/ \E t \in QrThreads : ThreadStep(t)
  \/ GameStep \/ InputStep \/ ExternalStep

Spec == Init /\ [][Next]_vars

\* The kernel schedules every thread, an RPC returns, and the game's thread
\* goes on once it is in the plugin.  Nobody has to press a button or log on.
Fairness ==
  /\ \A t \in QrThreads : WF_vars(ThreadStep(t))
  /\ WF_vars(GameStep)

FairSpec == Spec /\ Fairness

-----------------------------------------------------------------------------
(* Safety.                                                                   *)

\* The QR code is displayed, and the pad captured, only while a QR thread that
\* will clear the flag again is running: no overlay outlives its login.
Displaying == {"encode", "border", "show"} \cup LoopLabels \cup {"stopFlag"}
OverlayOwned ==
  is_displaying_qr => \E t \in QrThreads : pc[t] \in Displaying

\* A login runs only when its answer can be given and acted upon: there is a
\* connection manager to log on to, no fatal error, and a logon is pending.
SessionReady ==
  \A t \in QrThreads :
    Alive(t) => has_netadr /\ ~has_fatal_error /\ has_pending_interactive_logon

\* A logon is attempted only when there is an address to connect to:
\* the AddMultipleToTail hook hands netadr_to_use over unconditionally.
ConnectHasAddress == engine # "idle" => has_netadr

\* auth_session_success is seen set, and a logon thus answered with success,
\* only once the name and the token of one login are both in place.
SuccessMeansSignedIn ==
  auth_session_success =>
    SteamAccountName = SteamAccessToken /\ SteamAccessToken \in QrThreads

\* The saved configuration never mixes two logins.
AuthFileWhole == authFile.name = authFile.token

\* The logon message carries one account, with the token it was sized for.
LogonMessageWhole ==
  engine = "sent" => sized.name = sized.token /\ sized.token = wire

\* A frame draws a texture that is not loaded only if the QR code was taken
\* down during that very frame: nothing holds the textures between Render's
\* look at the flag and its drawing (hooks_overlay.c:79-85), so the frame that
\* a stop overtakes draws what the stop has deleted (152-154), and no other.
DrawnIsLoaded == render # "idle" /\ ~torn => textures = {"qr", "border"}

\* A token that Steam refused goes on the wire again only when a logon is
\* dispatched twice for one login, once for circle and once at the end of its
\* thread: that dispatch looks at neither HasConfigLoaded nor the first one's
\* outcome (steam_login_flow_qr.c:210).  Every other attempt has a new token.
RefusedTokenNotOffered == engine = "sent" /\ wire \in rejected => repeated

\* A login the player cancelled during its poll loop does not poll once more.
CancelEndsSession ==
  [][\A t \in cancelled : ~(pc[t] = "loop" /\ pc'[t] = "poll")]_vars

-----------------------------------------------------------------------------
(* Inductive strengthenings, for the proofs.                                 *)

\* The connection manager thread decides once; a prompt is up, and a login
\* runs, only when the logon can be answered.  A notice opened because the
\* address is missing keeps the prompt from opening at the end of the hook.
Ready == has_netadr /\ has_pending_interactive_logon
SessionInv ==
  /\ has_netadr => ~has_fatal_error
  /\ SessionReady
  /\ dialog \in {"prompt", "promptClosed", "connecting"} => Ready
  /\ pc[Game] \in HookLabels => shill = "done"
  /\ pc[Game] \in {"hookCmCall", "hookConfig"} /\ bInteractive /\ ~has_netadr => dialog # "none"

\* Without an address the hook calls LogOn only with the connect field cleared,
\* and nothing is dispatched.
AddressInv ==
  /\ ConnectHasAddress
  /\ pc[Game] \in {"hookFatalCall", "hookCmCall", "hookConfig", "hookConfigCall"} /\ ~has_netadr
       => ~connectAllowed
  /\ pc[Game] \in StopLabels \cup DispatchLabels => has_netadr

\* One login at a time, and none while the hook runs or a prompt is up.
OneLoginInv ==
  /\ \A t, u \in QrThreads : Alive(t) /\ Alive(u) => t = u
  /\ pc[Game] \in HookLabels \/ dialog \in {"prompt", "promptClosed"} => NoneAlive

\* What the one login has stored, and that it is not polled once it succeeded.
SignInInv ==
  /\ SuccessMeansSignedIn
  /\ AuthFileWhole
  /\ \A t \in QrThreads :
       /\ pc[t] \in {"begin", "close", "arm", "poll", "setConfig", "setName", "setToken",
                    "clearRunning"} \cup ShowLabels => ~auth_session_success
       /\ pc[t] = "setSuccess" => ~auth_session_running
       /\ pc[t] \in {"save", "tick", "loop"} /\ auth_session_success => ~auth_session_running
       /\ pc[t] \in {"setToken", "clearRunning", "setSuccess", "save"} => SteamAccountName = t
       /\ pc[t] \in {"clearRunning", "setSuccess", "save"} => SteamAccessToken = t

\* Nobody changes the account: no login is going on, or it has succeeded.
Settled ==
  \A t \in QrThreads :
    Alive(t) => auth_session_success /\ pc[t] \notin {"abort", "open", "init"}

\* While the client logs on the account is settled: the hook runs and prompts
\* only when the client is idle, and a dispatched logon connects only after a
\* login that succeeded.  What ByteSize measured is then what Serialize writes.
MessageInv ==
  /\ engine # "idle" => Settled /\ dialog \notin {"prompt", "promptClosed"}
  /\ pc[Game] \in HookLabels => engine = "idle"
  /\ pc[Game] # "idle" => dialog \notin {"prompt", "promptClosed"}
  /\ pc[Game] \in {"hookFatalCall", "hookCmCall"} => ~connectAllowed
  /\ \A p \in Procs :
       /\ pc[p] = "dispatch" /\ ~fail[p] => Settled
       /\ pc[p] = "dispatchCall" /\ connectAllowed => Settled
  /\ pc[Game] \in StopLabels \cup DispatchLabels =>
       \A t \in QrThreads : pc[t] \notin {"abort", "open", "init"}
  /\ (\A t \in QrThreads : pc[t] # "setToken") => SteamAccountName = SteamAccessToken
  /\ engine = "sized" => sized = [name |-> SteamAccountName, token |-> SteamAccessToken]
  /\ LogonMessageWhole

\* A login's token is new until the login stores it, which it does once.
Fresh(t) ==
  \/ pc[t] \in {"none", "abort", "open", "init", "begin", "close", "arm", "poll",
               "setConfig", "setName", "setToken"} \cup ShowLabels
  \/ pc[t] \in {"tick", "loop"} /\ ~auth_session_success
RejectInv ==
  /\ RefusedTokenNotOffered
  /\ engine \in {"connecting", "sized"} /\ SteamAccessToken \in rejected => repeated
  /\ HasConfigLoaded /\ (\A t \in QrThreads : pc[t] \notin {"setName", "setToken"})
       => SteamAccessToken \notin rejected
  /\ pc[Game] = "hookConfigCall" /\ connectAllowed => HasConfigLoaded
  /\ \A t \in QrThreads : Fresh(t) => t # SteamAccessToken /\ t # wire /\ t \notin rejected
  /\ \A t \in QrThreads : pc[t] = "save" => auth_session_success

\* A logon that awaits its answer: the client is idle, what a login under way
\* has stored was not refused, and the main thread dispatches with success
\* only while that login lives.
OwedInv ==
  owed =>
    /\ has_pending_interactive_logon
    /\ engine = "idle"
    /\ HasConfigLoaded => ~NoneAlive
    /\ \A t \in QrThreads : Alive(t) =>
         /\ t \notin rejected
         /\ auth_session_success /\ pc[t] \notin {"abort", "open", "init"}
              => SteamAccessToken = t
    /\ NoneAlive =>
         /\ pc[Game] \notin StopLabels \cup {"dispatchArg"}
         /\ pc[Game] = "dispatch" => fail[Game]
         /\ pc[Game] = "dispatchCall" => ~connectAllowed

\* Only the first response of a login shows a code: nobody deletes a texture
\* between its loading and the flag.
ShowInv ==
  /\ DrawnIsLoaded
  /\ is_displaying_qr => textures = {"qr", "border"}
  /\ \A t \in QrThreads :
       /\ pc[t] \in {"abort", "open", "init", "begin"} \cup ShowLabels =>
            ~is_displaying_qr /\ pc[Game] \notin {"stopFlag", "stopBorder", "stopQr"}
       /\ pc[t] = "border" => "qr" \in textures
       /\ pc[t] = "show" => textures = {"qr", "border"}
  /\ \A p \in Procs : pc[p] \in {"stopBorder", "stopQr"} => ~is_displaying_qr
  /\ render # "idle" => is_displaying_qr \/ torn

\* A cancelled login has its poll loop armed behind it, and nobody arms another.
CancelInv ==
  \A t \in cancelled :
    /\ pc[t] \notin {"none", "abort", "open", "init", "begin", "close", "arm"}
    /\ pc[t] \in ShowLabels => ret[t] # "close"
    /\ Alive(t) => ~auth_session_running

-----------------------------------------------------------------------------
(* What comments and messages of the source say, and the code does not do.   *)

\* condenstation.c:299-320: a logon that cannot succeed is failed, once; the
\* hook answers one LogOn with at most one call of the original.
OneAnswerPerLogOn ==
  [][pc[Game] \in {"hookFatalCall", "hookCmCall", "hookConfigCall"} /\ pc'[Game] # pc[Game]
       => ~answered]_vars

\* condenstation.c:256: a logon is dispatched only if one is pending.
DispatchOnlyOwed ==
  [][\A p \in Procs : pc[p] = "dispatchCall" /\ pc'[p] = End(p) => owed]_vars

\* bin_data/condenstation_qr_border.png, "Press O to cancel": a login that was
\* cancelled does not sign the player in.
CancelledNeverSignsIn ==
  [][\A t \in cancelled : ~(pc[t] = "setConfig" /\ pc'[t] = "setName")]_vars

-----------------------------------------------------------------------------
(* Liveness.                                                                 *)

\* Every login ends, or its game has died of a failed request, however often it
\* is polled, whoever else polls, and whatever the player does.
SessionEnds ==
  \A t \in QrThreads : pc[t] = "abort" ~> pc[t] = "done" \/ crashed

\* The interactive logon for which a login was started gets its answer.
AnswerArrives == (owed /\ ~NoneAlive) ~> ~owed \/ crashed

\* The QR code disappears again and the pad is given back.
OverlayCloses == is_displaying_qr ~> ~is_displaying_qr \/ crashed
=============================================================================
