-------------------------- MODULE LogonFlowProofs ---------------------------
(* Proofs about the QR logon, for any number of login threads, any poll      *)
(* limit and any set of situations.                                          *)
EXTENDS LogonFlow, TLAPS

-----------------------------------------------------------------------------
(* Type correctness.                                                         *)

\* A jump to a label of the thread that takes it keeps every thread at one of
\* its own labels.
LEMMA GotoType ==
  ASSUME PcOK, NEW p \in Procs, NEW from, NEW to,
         to \in (IF p = Game THEN GameLabels ELSE QrLabels),
         Goto(p, from, to)
  PROVE  PcOK'
BY DEF PcOK, Goto

\* Every step keeps the program counters well typed.
LEMMA PcStep == PcOK /\ DataOK /\ [Next]_vars => PcOK'
<1> SUFFICES ASSUME PcOK, DataOK, [Next]_vars PROVE PcOK'
  OBVIOUS
<1> USE ThreadsAssumption
    DEF QrLabels, GameLabels, ShowLabels, LoopLabels, ApprovedLabels, StopLabels,
        DispatchLabels, HookLabels
<1>ret. \A t \in QrThreads : t \in Procs /\ t # Game /\ ret[t] \in QrLabels
  BY DEF DataOK, Procs
<1>1. ASSUME NEW t \in QrThreads, Abort(t) PROVE PcOK'
  BY <1>1, GotoType DEF Abort, Procs
<1>2. ASSUME NEW t \in QrThreads, OpenConnecting(t) PROVE PcOK'
  BY <1>2, GotoType DEF OpenConnecting, Procs
<1>3. ASSUME NEW t \in QrThreads, ClearSuccess(t) PROVE PcOK'
  BY <1>3, GotoType DEF ClearSuccess, Procs
<1>4. ASSUME NEW t \in QrThreads, Begin(t) PROVE PcOK'
  BY <1>4, GotoType DEF Begin, Respond, Procs
<1>5. ASSUME NEW t \in QrThreads, Encode(t) PROVE PcOK'
  BY <1>5, GotoType, <1>ret DEF Encode, LoadTexture, Return, Procs
<1>6. ASSUME NEW t \in QrThreads, Border(t) PROVE PcOK'
  BY <1>6, GotoType, <1>ret DEF Border, LoadTexture, Return, Procs
<1>7. ASSUME NEW t \in QrThreads, Show(t) PROVE PcOK'
  BY <1>7, GotoType, <1>ret DEF Show, Return, Procs
<1>8. ASSUME NEW t \in QrThreads, CloseConnecting(t) PROVE PcOK'
  BY <1>8, GotoType DEF CloseConnecting, Procs
<1>9. ASSUME NEW t \in QrThreads, Arm(t) PROVE PcOK'
  BY <1>9, GotoType DEF Arm, Procs
<1>10. ASSUME NEW t \in QrThreads, Loop(t) PROVE PcOK'
  BY <1>10, GotoType DEF Loop, Procs
<1>11. ASSUME NEW t \in QrThreads, Poll(t) PROVE PcOK'
  BY <1>11, GotoType DEF Poll, Respond, Procs
<1>12. ASSUME NEW t \in QrThreads, SetConfig(t) PROVE PcOK'
  BY <1>12, GotoType DEF SetConfig, Procs
<1>13. ASSUME NEW t \in QrThreads, SetName(t) PROVE PcOK'
  BY <1>13, GotoType DEF SetName, Procs
<1>14. ASSUME NEW t \in QrThreads, SetToken(t) PROVE PcOK'
  BY <1>14, GotoType DEF SetToken, Procs
<1>15. ASSUME NEW t \in QrThreads, ClearRunning(t) PROVE PcOK'
  BY <1>15, GotoType DEF ClearRunning, Procs
<1>16. ASSUME NEW t \in QrThreads, SetSuccess(t) PROVE PcOK'
  BY <1>16, GotoType DEF SetSuccess, Procs
<1>17. ASSUME NEW t \in QrThreads, Save(t) PROVE PcOK'
  BY <1>17, GotoType DEF Save, Procs
<1>18. ASSUME NEW t \in QrThreads, Tick(t) PROVE PcOK'
  BY <1>18, GotoType DEF Tick, Procs
<1>19. ASSUME NEW p \in Procs, StopFlag(p) PROVE PcOK'
  BY <1>19, GotoType DEF StopFlag, Procs
<1>20. ASSUME NEW p \in Procs, StopBorder(p) PROVE PcOK'
  BY <1>20, GotoType DEF StopBorder, DeleteTexture, Procs
<1>21. ASSUME NEW p \in Procs, StopQr(p) PROVE PcOK'
  BY <1>21, GotoType DEF StopQr, DeleteTexture, Procs
<1>22. ASSUME NEW p \in Procs, StopRunning(p) PROVE PcOK'
  BY <1>22, GotoType DEF StopRunning, Procs
<1>23. ASSUME NEW p \in Procs, DispatchArg(p) PROVE PcOK'
  BY <1>23, GotoType DEF DispatchArg, Procs
<1>24. ASSUME NEW p \in Procs, Dispatch(p) PROVE PcOK'
  BY <1>24, GotoType DEF Dispatch, End, Procs
<1>25. ASSUME NEW p \in Procs, DispatchCall(p) PROVE PcOK'
  BY <1>25, GotoType DEF DispatchCall, End, Procs
<1>26. ASSUME HookFatal PROVE PcOK'
  BY <1>26, GotoType DEF HookFatal, FailLogon, Procs
<1>27. ASSUME HookFatalCall PROVE PcOK'
  BY <1>27, GotoType DEF HookFatalCall, HookCall, Procs
<1>28. ASSUME HookCm PROVE PcOK'
  BY <1>28, GotoType DEF HookCm, FailLogon, Procs
<1>29. ASSUME HookCmCall PROVE PcOK'
  BY <1>29, GotoType DEF HookCmCall, HookCall, Procs
<1>30. ASSUME HookPrompt PROVE PcOK'
  BY <1>30, GotoType DEF HookPrompt, Procs
<1>31. ASSUME HookConfig PROVE PcOK'
  BY <1>31, GotoType DEF HookConfig, Procs
<1>32. ASSUME HookConfigCall PROVE PcOK'
  BY <1>32, GotoType DEF HookConfigCall, HookCall, Procs
<1>33. ASSUME NEW b \in BOOLEAN, LogOn(b) PROVE PcOK'
  BY <1>33, GotoType DEF LogOn, Procs
<1>34. ASSUME NEW t \in QrThreads, PromptYes(t) PROVE PcOK'
  BY <1>34, GotoType DEF PromptYes, Procs
<1>35. ASSUME PromptNo PROVE PcOK'
  BY <1>35, GotoType DEF PromptNo, Procs
<1>36. ASSUME PressCircle PROVE PcOK'
  BY <1>36, GotoType DEF PressCircle, Procs
<1>37. ASSUME UNCHANGED pc PROVE PcOK'
  BY <1>37 DEF PcOK
<1>38. pc' = pc \/ ~(\/ \E t \in QrThreads : RpcFailure(t)
                   \/ Notice \/ ExternalStep \/ UNCHANGED vars)
  BY  DEF RpcFailure, Notice, ExternalStep, ResolveCM, Welcome, ByteSize, Serialize,
     LogonResponse, RestoreConnect, Render, RenderCheck, DrawBorder, DrawQr, Draw, vars
<1> QED
  BY <1>1, <1>2, <1>3, <1>4, <1>5, <1>6, <1>7, <1>8, <1>9, <1>10, <1>11, <1>12, <1>13,
     <1>14, <1>15, <1>16, <1>17, <1>18, <1>19, <1>20, <1>21, <1>22, <1>23, <1>24,
     <1>25, <1>26, <1>27, <1>28, <1>29, <1>30, <1>31, <1>32, <1>33, <1>34, <1>35,
     <1>36, <1>37, <1>38 DEF Next, ThreadStep, Qr, Stop, GameStep, InputStep, Procs

\* Every step keeps the data well typed.
LEMMA DataStep == DataOK /\ [Next]_vars => DataOK'
<1> SUFFICES ASSUME DataOK, [Next]_vars PROVE DataOK'
  OBVIOUS
<1> USE MaxPollsAssumption
    DEF DataOK, Logins, Dialogs, CM!TypeOK, ownVars, sharedVars, exceptAccount, exceptSession,
        exceptOverlay, exceptDialog, exceptClient, cmVars, accountVars, sessionVars,
        overlayVars, dialogVars, messageVars, clientVars, localVars, ghostVars
<1>1. ASSUME NEW t \in QrThreads, Abort(t) PROVE DataOK'
  BY <1>1 DEF Abort
<1>2. ASSUME NEW t \in QrThreads, OpenConnecting(t) PROVE DataOK'
  BY <1>2 DEF OpenConnecting, Open
<1>3. ASSUME NEW t \in QrThreads, ClearSuccess(t) PROVE DataOK'
  <2>1. auth_session_success' \in BOOLEAN
    BY <1>3, Zenon DEF ClearSuccess
  <2> QED
    BY <1>3, <2>1 DEF ClearSuccess
<1>4. ASSUME NEW t \in QrThreads, Begin(t) PROVE DataOK'
  BY <1>4 DEF Begin, Respond
<1>5. ASSUME NEW t \in QrThreads, RpcFailure(t) PROVE DataOK'
  BY <1>5 DEF RpcFailure
<1>6. ASSUME NEW t \in QrThreads, Encode(t) PROVE DataOK'
  <2>1. textures' \subseteq {"qr", "border"}
    BY <1>6 DEF Encode, LoadTexture, Return
  <2>2. ret' \in [QrThreads -> {"close", "setConfig", "tick"}]
    BY <1>6 DEF Encode, LoadTexture, Return
  <2> QED
    BY <1>6, <2>1, <2>2 DEF Encode, LoadTexture, Return
<1>7. ASSUME NEW t \in QrThreads, Border(t) PROVE DataOK'
  <2>1. textures' \subseteq {"qr", "border"}
    BY <1>7 DEF Border, LoadTexture, Return
  <2>2. ret' \in [QrThreads -> {"close", "setConfig", "tick"}]
    BY <1>7 DEF Border, LoadTexture, Return
  <2> QED
    BY <1>7, <2>1, <2>2 DEF Border, LoadTexture, Return
<1>8. ASSUME NEW t \in QrThreads, Show(t) PROVE DataOK'
  BY <1>8 DEF Show, Return
<1>9. ASSUME NEW t \in QrThreads, CloseConnecting(t) PROVE DataOK'
  BY <1>9 DEF CloseConnecting, Closed
<1>10. ASSUME NEW t \in QrThreads, Arm(t) PROVE DataOK'
  BY <1>10 DEF Arm
<1>11. ASSUME NEW t \in QrThreads, Loop(t) PROVE DataOK'
  BY <1>11 DEF Loop
<1>12. ASSUME NEW t \in QrThreads, Poll(t) PROVE DataOK'
  BY <1>12 DEF Poll, Respond
<1>13. ASSUME NEW t \in QrThreads, SetConfig(t) PROVE DataOK'
  BY <1>13 DEF SetConfig
<1>14. ASSUME NEW t \in QrThreads, SetName(t) PROVE DataOK'
  BY <1>14 DEF SetName
<1>15. ASSUME NEW t \in QrThreads, SetToken(t) PROVE DataOK'
  BY <1>15 DEF SetToken
<1>16. ASSUME NEW t \in QrThreads, ClearRunning(t) PROVE DataOK'
  <2>1. auth_session_running' \in BOOLEAN
    BY <1>16, Zenon DEF ClearRunning
  <2> QED
    BY <1>16, <2>1 DEF ClearRunning
<1>17. ASSUME NEW t \in QrThreads, SetSuccess(t) PROVE DataOK'
  BY <1>17 DEF SetSuccess
<1>18. ASSUME NEW t \in QrThreads, Save(t) PROVE DataOK'
  BY <1>18 DEF Save
<1>19. ASSUME NEW t \in QrThreads, Tick(t) PROVE DataOK'
  BY <1>19 DEF Tick
<1>20. ASSUME NEW p \in Procs, StopFlag(p) PROVE DataOK'
  <2>1. is_displaying_qr' \in BOOLEAN /\ torn' \in BOOLEAN
    BY <1>20, Zenon DEF StopFlag
  <2> QED
    BY <1>20, <2>1 DEF StopFlag
<1>21. ASSUME NEW p \in Procs, StopBorder(p) PROVE DataOK'
  BY <1>21 DEF StopBorder, DeleteTexture
<1>22. ASSUME NEW p \in Procs, StopQr(p) PROVE DataOK'
  BY <1>22 DEF StopQr, DeleteTexture
<1>23. ASSUME NEW p \in Procs, StopRunning(p) PROVE DataOK'
  <2>1. auth_session_running' \in BOOLEAN
    BY <1>23, Zenon DEF StopRunning
  <2> QED
    BY <1>23, <2>1 DEF StopRunning
<1>24. ASSUME NEW p \in Procs, DispatchArg(p) PROVE DataOK'
  BY <1>24 DEF DispatchArg
<1>25. ASSUME NEW p \in Procs, Dispatch(p) PROVE DataOK'
  <2>1. connectAllowed' \in BOOLEAN
    BY <1>25, Zenon DEF Dispatch
  <2> QED
    BY <1>25, <2>1 DEF Dispatch, End
<1>26. ASSUME NEW p \in Procs, DispatchCall(p) PROVE DataOK'
  <2>1. owed' \in BOOLEAN /\ repeated' \in BOOLEAN
    BY <1>26, Zenon DEF DispatchCall, CallLogOn
  <2>2. fail' \in [Procs -> BOOLEAN]
    BY <1>26, Zenon DEF DispatchCall
  <2>3. engine' \in {"idle", "connecting", "sized", "sent"}
    BY <1>26 DEF DispatchCall, CallLogOn
  <2> QED
    BY <1>26, <2>1, <2>2, <2>3 DEF DispatchCall
<1>27. ASSUME HookFatal PROVE DataOK'
  <2>1. connectAllowed' \in BOOLEAN
    BY <1>27, Zenon DEF HookFatal, FailLogon
  <2> QED
    BY <1>27, <2>1 DEF HookFatal, FailLogon, Open
<1>28. ASSUME HookFatalCall PROVE DataOK'
  <2>1. /\ answered' \in BOOLEAN /\ bInteractive' \in BOOLEAN /\ repeated' \in BOOLEAN
    BY <1>28, Zenon DEF HookFatalCall, HookCall, CallLogOn
  <2>2. engine' \in {"idle", "connecting", "sized", "sent"}
    BY <1>28 DEF HookFatalCall, HookCall, CallLogOn
  <2> QED
    BY <1>28, <2>1, <2>2 DEF HookFatalCall, HookCall
<1>29. ASSUME HookCm PROVE DataOK'
  <2>1. connectAllowed' \in BOOLEAN
    BY <1>29, Zenon DEF HookCm, FailLogon
  <2> QED
    BY <1>29, <2>1 DEF HookCm, FailLogon, Open
<1>30. ASSUME HookCmCall PROVE DataOK'
  <2>1. /\ answered' \in BOOLEAN /\ bInteractive' \in BOOLEAN /\ repeated' \in BOOLEAN
    BY <1>30, Zenon DEF HookCmCall, HookCall, CallLogOn
  <2>2. engine' \in {"idle", "connecting", "sized", "sent"}
    BY <1>30 DEF HookCmCall, HookCall, CallLogOn
  <2> QED
    BY <1>30, <2>1, <2>2 DEF HookCmCall, HookCall
<1>31. ASSUME HookPrompt PROVE DataOK'
  <2>1. answered' \in BOOLEAN /\ bInteractive' \in BOOLEAN
    BY <1>31, Zenon DEF HookPrompt
  <2> QED
    BY <1>31, <2>1 DEF HookPrompt, Open
<1>32. ASSUME HookConfig PROVE DataOK'
  BY <1>32 DEF HookConfig
<1>33. ASSUME HookConfigCall PROVE DataOK'
  <2>1. /\ answered' \in BOOLEAN /\ bInteractive' \in BOOLEAN /\ repeated' \in BOOLEAN
    BY <1>33, Zenon DEF HookConfigCall, HookCall, CallLogOn
  <2>2. engine' \in {"idle", "connecting", "sized", "sent"}
    BY <1>33 DEF HookConfigCall, HookCall, CallLogOn
  <2> QED
    BY <1>33, <2>1, <2>2 DEF HookConfigCall, HookCall
<1>34. ASSUME NEW b \in BOOLEAN, LogOn(b) PROVE DataOK'
  BY <1>34 DEF LogOn
<1>35. ASSUME NEW t \in QrThreads, PromptYes(t) PROVE DataOK'
  BY <1>35 DEF PromptYes
<1>36. ASSUME PromptNo PROVE DataOK'
  <2>1. fail' \in [Procs -> BOOLEAN]
    BY <1>36, Zenon DEF PromptNo
  <2> QED
    BY <1>36, <2>1 DEF PromptNo
<1>37. ASSUME Notice PROVE DataOK'
  BY <1>37 DEF Notice, Open
<1>38. ASSUME PressCircle PROVE DataOK'
  BY <1>38 DEF PressCircle
<1>39. ASSUME ResolveCM PROVE DataOK'
  <2>1. has_netadr' \in BOOLEAN /\ has_fatal_error' \in BOOLEAN
    BY <1>39, Zenon DEF ResolveCM, CM!Next, CM!Resolve, CM!Fail
  <2> QED
    BY <1>39, <2>1 DEF ResolveCM, CM!Next, CM!Resolve, CM!Fail, CM!Undecided
<1>40. ASSUME Welcome PROVE DataOK'
  BY <1>40 DEF Welcome, Open, Closed
<1>41. ASSUME ByteSize PROVE DataOK'
  BY <1>41 DEF ByteSize
<1>42. ASSUME Serialize PROVE DataOK'
  BY <1>42 DEF Serialize
<1>43. ASSUME NEW ok \in BOOLEAN, LogonResponse(ok) PROVE DataOK'
  <2>1. HasConfigLoaded' \in BOOLEAN /\ repeated' \in BOOLEAN
    BY <1>43, Zenon DEF LogonResponse
  <2> QED
    BY <1>43, <2>1 DEF LogonResponse
<1>44. ASSUME RestoreConnect PROVE DataOK'
  BY <1>44 DEF RestoreConnect
<1>45. ASSUME Render PROVE DataOK'
  <2>1. torn' \in BOOLEAN
    BY <1>45, Zenon DEF Render, RenderCheck, DrawBorder, DrawQr, Draw
  <2>2. render' \in {"idle", "border", "qr"}
    BY <1>45 DEF Render, RenderCheck, DrawBorder, DrawQr, Draw
  <2>3. UNCHANGED <<ownVars, exceptOverlay, is_displaying_qr, textures>>
    BY <1>45 DEF Render, RenderCheck, DrawBorder, DrawQr, Draw
  <2> QED
    BY <2>1, <2>2, <2>3
<1>46. ASSUME UNCHANGED vars PROVE DataOK'
  BY <1>46 DEF vars
<1> HIDE DEF DataOK
<1> QED
  BY <1>1, <1>2, <1>3, <1>4, <1>5, <1>6, <1>7, <1>8, <1>9, <1>10, <1>11, <1>12, <1>13,
     <1>14, <1>15, <1>16, <1>17, <1>18, <1>19, <1>20, <1>21, <1>22, <1>23, <1>24,
     <1>25, <1>26, <1>27, <1>28, <1>29, <1>30, <1>31, <1>32, <1>33, <1>34, <1>35,
     <1>36, <1>37, <1>38, <1>39, <1>40, <1>41, <1>42, <1>43, <1>44, <1>45, <1>46 DEF Next,
     ThreadStep, Qr, Stop, GameStep, InputStep, ExternalStep, Procs

\* Every state the program reaches has the shape TypeOK describes.
THEOREM TypeCorrect == Spec => []TypeOK
<1>1. Init => TypeOK
  <2> SUFFICES ASSUME Init PROVE TypeOK
    OBVIOUS
  <2> USE ThreadsAssumption, MaxPollsAssumption DEF Init
  <2>1. pc \in [Procs -> QrLabels \cup GameLabels]
    BY DEF QrLabels, GameLabels
  <2>2. \A p \in Procs : pc[p] \in (IF p = Game THEN GameLabels ELSE QrLabels)
    BY DEF QrLabels, GameLabels
  <2>3. /\ SteamAccountName \in Logins /\ SteamAccessToken \in Logins
        /\ authFile \in [name : Logins, token : Logins]
    BY DEF Logins
  <2>4. /\ fail \in [Procs -> BOOLEAN] /\ bInteractive \in BOOLEAN
        /\ has_netadr \in BOOLEAN /\ has_fatal_error \in BOOLEAN
        /\ has_pending_interactive_logon \in BOOLEAN
        /\ auth_session_running \in BOOLEAN /\ auth_session_success \in BOOLEAN
        /\ is_displaying_qr \in BOOLEAN /\ connectAllowed \in BOOLEAN
        /\ crashed \in BOOLEAN /\ answered \in BOOLEAN /\ owed \in BOOLEAN
        /\ torn \in BOOLEAN /\ repeated \in BOOLEAN
    BY Zenon DEF CM!Init
  <2>5. /\ sized \in [name : Logins, token : Logins] /\ wire \in Logins
        /\ ret \in [QrThreads -> {"close", "setConfig", "tick"}]
        /\ timeout \in [QrThreads -> 0 .. MaxPolls + 1]
        /\ dialog \in Dialogs
    BY DEF Logins, Dialogs
  <2> QED
    BY <2>1, <2>2, <2>3, <2>4, <2>5 DEF TypeOK, PcOK, DataOK, CM!TypeOK
<1>2. TypeOK /\ [Next]_vars => TypeOK'
  BY PcStep, DataStep DEF TypeOK
<1> QED
  BY <1>1, <1>2, PTL DEF Spec

-----------------------------------------------------------------------------
(* The overlay belongs to a running login.                                   *)

\* Every step keeps the QR code with a login that will take it down: only Show
\* raises the flag, and a thread leaves Displaying only by clearing it.
LEMMA OverlayStep == PcOK /\ DataOK /\ OverlayOwned /\ [Next]_vars => OverlayOwned'
<1> SUFFICES ASSUME PcOK, DataOK, OverlayOwned, [Next]_vars PROVE OverlayOwned'
  OBVIOUS
<1> USE ThreadsAssumption
    DEF OverlayOwned, Displaying, ShowLabels, LoopLabels, ApprovedLabels, Goto,
        ownVars, sharedVars, exceptAccount, exceptSession,
        exceptOverlay, exceptDialog, exceptClient, cmVars, accountVars, sessionVars,
        overlayVars, dialogVars, messageVars, clientVars, localVars, ghostVars
<1>type. /\ pc \in [Procs -> QrLabels \cup GameLabels]
         /\ \A t \in QrThreads : /\ t \in Procs /\ t # Game
                                 /\ ret[t] \in {"close", "setConfig", "tick"}
  BY DEF PcOK, DataOK, Procs
<1>dialogs. ASSUME NEW t \in QrThreads,
                   Abort(t) \/ OpenConnecting(t) \/ ClearSuccess(t) \/ CloseConnecting(t)
                   \/ Arm(t)
            PROVE  OverlayOwned'
  BY <1>dialogs, <1>type DEF Abort, OpenConnecting, Open, ClearSuccess,
     CloseConnecting, Closed, Arm
<1>poll. ASSUME NEW t \in QrThreads,
                Begin(t) \/ Poll(t) \/ RpcFailure(t)
         PROVE  OverlayOwned'
  BY <1>poll, <1>type DEF Begin, Respond, Poll, RpcFailure
<1>loop. ASSUME NEW t \in QrThreads, Loop(t) PROVE OverlayOwned'
  BY <1>loop, <1>type DEF Loop
<1>tick. ASSUME NEW t \in QrThreads, Tick(t) PROVE OverlayOwned'
  BY <1>tick, <1>type DEF Tick
<1>show. ASSUME NEW t \in QrThreads,
                Encode(t) \/ Border(t) \/ Show(t)
         PROVE  OverlayOwned'
  BY <1>show, <1>type DEF Encode, LoadTexture, Return, Border, Show
<1>approved. ASSUME NEW t \in QrThreads,
                    SetConfig(t) \/ SetName(t) \/ SetToken(t) \/ ClearRunning(t)
                    \/ SetSuccess(t) \/ Save(t)
             PROVE  OverlayOwned'
  BY <1>approved, <1>type DEF SetConfig, SetName, SetToken, ClearRunning, SetSuccess,
     Save
<1>stop. ASSUME NEW p \in Procs,
                StopFlag(p) \/ StopBorder(p) \/ StopQr(p) \/ StopRunning(p)
         PROVE  OverlayOwned'
  BY <1>stop, <1>type DEF StopFlag, StopBorder, DeleteTexture, StopQr, StopRunning
<1>dispatch. ASSUME NEW p \in Procs,
                    DispatchArg(p) \/ Dispatch(p) \/ DispatchCall(p)
             PROVE  OverlayOwned'
  BY <1>dispatch, <1>type DEF DispatchArg, Dispatch, End, DispatchCall, CallLogOn
<1>fatal. ASSUME HookFatal PROVE OverlayOwned'
  BY <1>fatal, <1>type DEF HookFatal, FailLogon, Open
<1>cm. ASSUME HookCm PROVE OverlayOwned'
  BY <1>cm, <1>type DEF HookCm, FailLogon, Open
<1>fatalCall. ASSUME HookFatalCall PROVE OverlayOwned'
  BY <1>fatalCall, <1>type DEF HookFatalCall, HookCall, CallLogOn
<1>cmCall. ASSUME HookCmCall PROVE OverlayOwned'
  BY <1>cmCall, <1>type DEF HookCmCall, HookCall, CallLogOn
<1>prompt. ASSUME HookPrompt \/ HookConfig \/ HookConfigCall PROVE OverlayOwned'
  <2>1. CASE HookPrompt
    BY <2>1, <1>type DEF HookPrompt, Open
  <2>2. CASE HookConfig
    BY <2>2, <1>type DEF HookConfig
  <2>3. CASE HookConfigCall
    BY <2>3, <1>type DEF HookConfigCall, HookCall, CallLogOn
  <2> QED
    BY <1>prompt, <2>1, <2>2, <2>3
<1>input. ASSUME PromptNo \/ Notice \/ PressCircle PROVE OverlayOwned'
  BY <1>input, <1>type DEF PromptNo, Notice, Open, PressCircle
<1>logon. ASSUME (\E b \in BOOLEAN : LogOn(b)) \/ (\E t \in QrThreads : PromptYes(t))
          PROVE  OverlayOwned'
  BY <1>logon, <1>type DEF LogOn, PromptYes
<1>ext. ASSUME ResolveCM \/ Welcome \/ RestoreConnect \/ Render PROVE OverlayOwned'
  BY <1>ext, <1>type DEF ResolveCM, CM!Next, CM!Resolve, CM!Fail, CM!Undecided,
     Welcome, Open, Closed, RestoreConnect, Render, RenderCheck, DrawBorder, DrawQr, Draw
<1>client. ASSUME ByteSize \/ Serialize \/ (\E ok \in BOOLEAN : LogonResponse(ok))
           PROVE  OverlayOwned'
  BY <1>client, <1>type DEF ByteSize, Serialize, LogonResponse
<1>stutter. ASSUME UNCHANGED vars PROVE OverlayOwned'
  BY <1>stutter DEF vars
<1> HIDE DEF OverlayOwned
<1> QED
  BY <1>dialogs, <1>poll, <1>loop, <1>tick, <1>show, <1>approved, <1>stop,
     <1>dispatch, <1>fatal, <1>cm, <1>fatalCall, <1>cmCall, <1>prompt, <1>input,
     <1>logon, <1>ext, <1>client, <1>stutter DEF Next, ThreadStep, Qr, Stop, GameStep,
     InputStep, ExternalStep, Procs

\* The overlay never outlives the logins: whenever the QR code is displayed and
\* the pad captured, a QR thread is on its way to take it down.
THEOREM OverlayAlwaysOwned == Spec => []OverlayOwned
<1>1. Init => OverlayOwned
  BY DEF Init, OverlayOwned
<1>2. TypeOK /\ OverlayOwned /\ [Next]_vars => OverlayOwned'
  BY OverlayStep DEF TypeOK
<1> QED
  BY <1>1, <1>2, TypeCorrect, PTL DEF Spec

-----------------------------------------------------------------------------
(* A login runs only when its answer can be given.                           *)

\* Every step keeps SessionInv, provided no logon starts before the welcome
\* message is closed: its delayed close could take down the notice that stands
\* in for the prompt while there is no address.
LEMMA SessionStep ==
  ASSUME "welcomeDialog" \notin Allowed
  PROVE  PcOK /\ DataOK /\ SessionInv /\ [Next]_vars => SessionInv'
<1> SUFFICES ASSUME PcOK, DataOK, SessionInv, [Next]_vars PROVE SessionInv'
  OBVIOUS
<1> USE ThreadsAssumption
    DEF SessionInv, SessionReady, Ready, Alive, Goto, HookLabels, ShowLabels,
        ownVars, sharedVars, exceptAccount, exceptSession,
        exceptOverlay, exceptDialog, exceptClient, cmVars, accountVars, sessionVars,
        overlayVars, dialogVars, messageVars, clientVars, localVars, ghostVars
<1>type. /\ pc \in [Procs -> QrLabels \cup GameLabels]
         /\ Game \in Procs /\ \A t \in QrThreads : t \in Procs /\ t # Game
         /\ ret \in [QrThreads -> {"close", "setConfig", "tick"}]
  BY DEF PcOK, DataOK, Procs
<1>dialogs. ASSUME NEW t \in QrThreads,
                   Abort(t) \/ OpenConnecting(t) \/ ClearSuccess(t) \/ CloseConnecting(t)
                   \/ Arm(t)
            PROVE  SessionInv'
  BY <1>dialogs, <1>type DEF Abort, OpenConnecting, Open, ClearSuccess,
     CloseConnecting, Closed, Arm
<1>poll. ASSUME NEW t \in QrThreads,
                Begin(t) \/ Poll(t) \/ RpcFailure(t)
         PROVE  SessionInv'
  BY <1>poll, <1>type DEF Begin, Respond, Poll, RpcFailure
<1>loop. ASSUME NEW t \in QrThreads, Loop(t) PROVE SessionInv'
  BY <1>loop, <1>type DEF Loop
<1>tick. ASSUME NEW t \in QrThreads, Tick(t) PROVE SessionInv'
  BY <1>tick, <1>type DEF Tick
<1>show. ASSUME NEW t \in QrThreads, Encode(t) \/ Border(t) \/ Show(t) PROVE SessionInv'
  BY <1>show, <1>type DEF Encode, LoadTexture, Return, Border, Show
<1>approved. ASSUME NEW t \in QrThreads,
                    SetConfig(t) \/ SetName(t) \/ SetToken(t) \/ ClearRunning(t)
                    \/ SetSuccess(t) \/ Save(t)
             PROVE  SessionInv'
  BY <1>approved, <1>type DEF SetConfig, SetName, SetToken, ClearRunning, SetSuccess,
     Save
<1>stop. ASSUME NEW p \in Procs,
                StopFlag(p) \/ StopBorder(p) \/ StopQr(p) \/ StopRunning(p)
         PROVE  SessionInv'
  BY <1>stop, <1>type DEF StopFlag, StopBorder, DeleteTexture, StopQr, StopRunning
<1>dispatch. ASSUME NEW p \in Procs,
                    DispatchArg(p) \/ Dispatch(p) \/ DispatchCall(p)
             PROVE  SessionInv'
  BY <1>dispatch, <1>type DEF DispatchArg, Dispatch, End, DispatchCall, CallLogOn
<1>fatal. ASSUME HookFatal PROVE SessionInv'
  BY <1>fatal, <1>type DEF HookFatal, FailLogon, Open
<1>cm. ASSUME HookCm PROVE SessionInv'
  BY <1>cm, <1>type DEF HookCm, FailLogon, Open
<1>fatalCall. ASSUME HookFatalCall PROVE SessionInv'
  BY <1>fatalCall, <1>type DEF HookFatalCall, HookCall, CallLogOn
<1>cmCall. ASSUME HookCmCall PROVE SessionInv'
  BY <1>cmCall, <1>type DEF HookCmCall, HookCall, CallLogOn
<1>prompt. ASSUME HookPrompt \/ HookConfig \/ HookConfigCall PROVE SessionInv'
  <2>1. CASE HookPrompt
    BY <2>1, <1>type DEF HookPrompt, Open
  <2>2. CASE HookConfig
    BY <2>2, <1>type DEF HookConfig
  <2>3. CASE HookConfigCall
    BY <2>3, <1>type DEF HookConfigCall, HookCall, CallLogOn
  <2> QED
    BY <1>prompt, <2>1, <2>2, <2>3
<1>input. ASSUME PromptNo \/ Notice \/ PressCircle PROVE SessionInv'
  BY <1>input, <1>type DEF PromptNo, Notice, Open, PressCircle
<1>logon. ASSUME (\E b \in BOOLEAN : LogOn(b)) \/ (\E t \in QrThreads : PromptYes(t))
          PROVE  SessionInv'
  BY <1>logon, <1>type DEF LogOn, PromptYes
<1>ext. ASSUME ResolveCM \/ Welcome \/ RestoreConnect \/ Render PROVE SessionInv'
  BY <1>ext, <1>type DEF ResolveCM, CM!Next, CM!Resolve, CM!Fail, CM!Undecided,
     Welcome, Open, Closed, RestoreConnect, Render, RenderCheck, DrawBorder, DrawQr, Draw
<1>client. ASSUME ByteSize \/ Serialize \/ (\E ok \in BOOLEAN : LogonResponse(ok))
           PROVE  SessionInv'
  BY <1>client, <1>type DEF ByteSize, Serialize, LogonResponse
<1>stutter. ASSUME UNCHANGED vars PROVE SessionInv'
  BY <1>stutter DEF vars
<1> HIDE DEF SessionInv
<1> QED
  BY <1>dialogs, <1>poll, <1>loop, <1>tick, <1>show, <1>approved, <1>stop,
     <1>dispatch, <1>fatal, <1>cm, <1>fatalCall, <1>cmCall, <1>prompt, <1>input,
     <1>logon, <1>ext, <1>client, <1>stutter DEF Next, ThreadStep, Qr, Stop, GameStep,
     InputStep, ExternalStep, Procs

\* Every step keeps AddressInv: only the hook calls LogOn without an address,
\* and then it has cleared the connect field, which nobody sets in between.
LEMMA AddressStep ==
  PcOK /\ DataOK /\ OverlayOwned /\ SessionInv /\ AddressInv /\ [Next]_vars => AddressInv'
<1> SUFFICES ASSUME PcOK, DataOK, OverlayOwned, SessionInv, AddressInv, [Next]_vars
             PROVE  AddressInv'
  OBVIOUS
<1> USE ThreadsAssumption
    DEF AddressInv, ConnectHasAddress, Goto, HookLabels, StopLabels, DispatchLabels,
        ownVars, sharedVars, exceptAccount, exceptSession,
        exceptOverlay, exceptDialog, exceptClient, cmVars, accountVars, sessionVars,
        overlayVars, dialogVars, messageVars, clientVars, localVars, ghostVars
<1>type. /\ pc \in [Procs -> QrLabels \cup GameLabels]
         /\ Game \in Procs /\ \A t \in QrThreads : t \in Procs /\ t # Game
         /\ ret \in [QrThreads -> {"close", "setConfig", "tick"}]
  BY DEF PcOK, DataOK, Procs
<1>login. /\ \A t \in QrThreads : pc[t] \notin {"none", "done"} => has_netadr
          /\ dialog \in {"prompt", "promptClosed"} => has_netadr
          /\ is_displaying_qr => has_netadr
  BY DEF SessionInv, SessionReady, Ready, Alive, OverlayOwned, Displaying, ShowLabels,
     LoopLabels, ApprovedLabels
<1>dialogs. ASSUME NEW t \in QrThreads,
                   Abort(t) \/ OpenConnecting(t) \/ ClearSuccess(t) \/ CloseConnecting(t)
                   \/ Arm(t)
            PROVE  AddressInv'
  BY <1>dialogs, <1>type, <1>login DEF Abort, OpenConnecting, Open, ClearSuccess,
     CloseConnecting, Closed, Arm
<1>poll. ASSUME NEW t \in QrThreads,
                Begin(t) \/ Poll(t) \/ RpcFailure(t)
         PROVE  AddressInv'
  BY <1>poll, <1>type, <1>login DEF Begin, Respond, Poll, RpcFailure
<1>loop. ASSUME NEW t \in QrThreads, Loop(t) PROVE AddressInv'
  BY <1>loop, <1>type, <1>login DEF Loop
<1>tick. ASSUME NEW t \in QrThreads, Tick(t) PROVE AddressInv'
  BY <1>tick, <1>type, <1>login DEF Tick
<1>show. ASSUME NEW t \in QrThreads, Encode(t) \/ Border(t) \/ Show(t) PROVE AddressInv'
  BY <1>show, <1>type, <1>login DEF Encode, LoadTexture, Return, Border, Show
<1>approved. ASSUME NEW t \in QrThreads,
                    SetConfig(t) \/ SetName(t) \/ SetToken(t) \/ ClearRunning(t)
                    \/ SetSuccess(t) \/ Save(t)
             PROVE  AddressInv'
  BY <1>approved, <1>type, <1>login DEF SetConfig, SetName, SetToken, ClearRunning,
     SetSuccess, Save
<1>stop. ASSUME NEW p \in Procs,
                StopFlag(p) \/ StopBorder(p) \/ StopQr(p) \/ StopRunning(p)
         PROVE  AddressInv'
  BY <1>stop, <1>type, <1>login DEF StopFlag, StopBorder, DeleteTexture, StopQr,
     StopRunning, Procs
<1>dispatch. ASSUME NEW p \in Procs,
                    DispatchArg(p) \/ Dispatch(p) \/ DispatchCall(p)
             PROVE  AddressInv'
  BY <1>dispatch, <1>type, <1>login DEF DispatchArg, Dispatch, End, DispatchCall,
     CallLogOn, Procs
<1>fatal. ASSUME HookFatal PROVE AddressInv'
  BY <1>fatal, <1>type, <1>login DEF HookFatal, FailLogon, Open
<1>cm. ASSUME HookCm PROVE AddressInv'
  BY <1>cm, <1>type, <1>login DEF HookCm, FailLogon, Open
<1>fatalCall. ASSUME HookFatalCall PROVE AddressInv'
  BY <1>fatalCall, <1>type, <1>login DEF HookFatalCall, HookCall, CallLogOn
<1>cmCall. ASSUME HookCmCall PROVE AddressInv'
  BY <1>cmCall, <1>type, <1>login DEF HookCmCall, HookCall, CallLogOn
<1>prompt. ASSUME HookPrompt \/ HookConfig \/ HookConfigCall PROVE AddressInv'
  <2>1. CASE HookPrompt
    BY <2>1, <1>type, <1>login DEF HookPrompt, Open
  <2>2. CASE HookConfig
    BY <2>2, <1>type, <1>login DEF HookConfig
  <2>3. CASE HookConfigCall
    BY <2>3, <1>type, <1>login DEF HookConfigCall, HookCall, CallLogOn
  <2> QED
    BY <1>prompt, <2>1, <2>2, <2>3
<1>input. ASSUME PromptNo \/ Notice \/ PressCircle PROVE AddressInv'
  BY <1>input, <1>type, <1>login DEF PromptNo, Notice, Open, PressCircle
<1>logon. ASSUME (\E b \in BOOLEAN : LogOn(b)) \/ (\E t \in QrThreads : PromptYes(t))
          PROVE  AddressInv'
  BY <1>logon, <1>type, <1>login DEF LogOn, PromptYes
<1>ext. ASSUME ResolveCM \/ Welcome \/ RestoreConnect \/ Render PROVE AddressInv'
  BY <1>ext, <1>type, <1>login DEF ResolveCM, CM!Next, CM!Resolve, CM!Fail,
     CM!Undecided, Welcome, Open, Closed, RestoreConnect, Render, RenderCheck, DrawBorder,
     DrawQr, Draw
<1>client. ASSUME ByteSize \/ Serialize \/ (\E ok \in BOOLEAN : LogonResponse(ok))
           PROVE  AddressInv'
  BY <1>client, <1>type, <1>login DEF ByteSize, Serialize, LogonResponse
<1>stutter. ASSUME UNCHANGED vars PROVE AddressInv'
  BY <1>stutter DEF vars
<1> HIDE DEF AddressInv
<1> QED
  BY <1>dialogs, <1>poll, <1>loop, <1>tick, <1>show, <1>approved, <1>stop,
     <1>dispatch, <1>fatal, <1>cm, <1>fatalCall, <1>cmCall, <1>prompt, <1>input,
     <1>logon, <1>ext, <1>client, <1>stutter DEF Next, ThreadStep, Qr, Stop, GameStep,
     InputStep, ExternalStep, Procs

\* A login is started, and therefore runs, only with a connection manager to
\* log on to and a pending logon to answer.
THEOREM SessionAlwaysReady ==
  ASSUME "welcomeDialog" \notin Allowed
  PROVE  Spec => []SessionReady
<1>1. Init => SessionInv
  BY ThreadsAssumption
  DEF Init, SessionInv, SessionReady, Alive, HookLabels, Ready, CM!Init, Procs
<1>2. TypeOK /\ SessionInv /\ [Next]_vars => SessionInv'
  BY SessionStep DEF TypeOK
<1>3. SessionInv => SessionReady
  BY DEF SessionInv
<1> QED
  BY <1>1, <1>2, <1>3, TypeCorrect, PTL DEF Spec

\* The Steam client never connects without an address to connect to.
THEOREM AddressAlwaysKnown ==
  ASSUME "welcomeDialog" \notin Allowed
  PROVE  Spec => []ConnectHasAddress
<1>1. Init => SessionInv /\ AddressInv
  BY ThreadsAssumption
  DEF Init, SessionInv, SessionReady, Alive, HookLabels, Ready, CM!Init, Procs, AddressInv,
      ConnectHasAddress, StopLabels, DispatchLabels
<1>2. TypeOK /\ SessionInv /\ [Next]_vars => SessionInv'
  BY SessionStep DEF TypeOK
<1>3. TypeOK /\ OverlayOwned /\ SessionInv /\ AddressInv /\ [Next]_vars => AddressInv'
  BY AddressStep DEF TypeOK
<1>4. AddressInv => ConnectHasAddress
  BY DEF AddressInv
<1> QED
  BY <1>1, <1>2, <1>3, <1>4, TypeCorrect, OverlayAlwaysOwned, PTL DEF Spec

-----------------------------------------------------------------------------
(* One login at a time.                                                      *)

\* Every step keeps at most one login going, if the game logs on only while no
\* earlier logon is unanswered.
LEMMA OneLoginStep ==
  ASSUME Calm
  PROVE  PcOK /\ DataOK /\ OneLoginInv /\ [Next]_vars => OneLoginInv'
<1> SUFFICES ASSUME PcOK, DataOK, OneLoginInv, [Next]_vars PROVE OneLoginInv'
  OBVIOUS
<1> USE ThreadsAssumption
    DEF OneLoginInv, NoneAlive, Alive, Goto, HookLabels, ShowLabels,
        ownVars, sharedVars, exceptAccount, exceptSession,
        exceptOverlay, exceptDialog, exceptClient, cmVars, accountVars, sessionVars,
        overlayVars, dialogVars, messageVars, clientVars, localVars, ghostVars
<1>type. /\ pc \in [Procs -> QrLabels \cup GameLabels]
         /\ Game \in Procs /\ \A t \in QrThreads : t \in Procs /\ t # Game
         /\ ret \in [QrThreads -> {"close", "setConfig", "tick"}]
  BY DEF PcOK, DataOK, Procs
<1>dialogs. ASSUME NEW t \in QrThreads,
                   Abort(t) \/ OpenConnecting(t) \/ ClearSuccess(t) \/ CloseConnecting(t)
                   \/ Arm(t)
            PROVE  OneLoginInv'
  BY <1>dialogs, <1>type DEF Abort, OpenConnecting, Open, ClearSuccess,
     CloseConnecting, Closed, Arm
<1>poll. ASSUME NEW t \in QrThreads,
                Begin(t) \/ Poll(t) \/ RpcFailure(t)
         PROVE  OneLoginInv'
  BY <1>poll, <1>type DEF Begin, Respond, Poll, RpcFailure
<1>loop. ASSUME NEW t \in QrThreads, Loop(t) PROVE OneLoginInv'
  BY <1>loop, <1>type DEF Loop
<1>tick. ASSUME NEW t \in QrThreads, Tick(t) PROVE OneLoginInv'
  BY <1>tick, <1>type DEF Tick
<1>show. ASSUME NEW t \in QrThreads,
                Encode(t) \/ Border(t) \/ Show(t)
         PROVE  OneLoginInv'
  BY <1>show, <1>type DEF Encode, LoadTexture, Return, Border, Show
<1>approved. ASSUME NEW t \in QrThreads,
                    SetConfig(t) \/ SetName(t) \/ SetToken(t) \/ ClearRunning(t)
                    \/ SetSuccess(t) \/ Save(t)
             PROVE  OneLoginInv'
  BY <1>approved, <1>type DEF SetConfig, SetName, SetToken, ClearRunning, SetSuccess,
     Save
<1>stop. ASSUME NEW p \in Procs,
                StopFlag(p) \/ StopBorder(p) \/ StopQr(p) \/ StopRunning(p)
         PROVE  OneLoginInv'
  BY <1>stop, <1>type DEF StopFlag, StopBorder, DeleteTexture, StopQr, StopRunning
<1>dispatch. ASSUME NEW p \in Procs,
                    DispatchArg(p) \/ Dispatch(p) \/ DispatchCall(p)
             PROVE  OneLoginInv'
  BY <1>dispatch, <1>type DEF DispatchArg, Dispatch, End, DispatchCall, CallLogOn
<1>fatal. ASSUME HookFatal PROVE OneLoginInv'
  BY <1>fatal, <1>type DEF HookFatal, FailLogon, Open
<1>cm. ASSUME HookCm PROVE OneLoginInv'
  BY <1>cm, <1>type DEF HookCm, FailLogon, Open
<1>fatalCall. ASSUME HookFatalCall PROVE OneLoginInv'
  BY <1>fatalCall, <1>type DEF HookFatalCall, HookCall, CallLogOn
<1>cmCall. ASSUME HookCmCall PROVE OneLoginInv'
  BY <1>cmCall, <1>type DEF HookCmCall, HookCall, CallLogOn
<1>prompt. ASSUME HookPrompt \/ HookConfig \/ HookConfigCall PROVE OneLoginInv'
  <2>1. CASE HookPrompt
    BY <2>1, <1>type DEF HookPrompt, Open
  <2>2. CASE HookConfig
    BY <2>2, <1>type DEF HookConfig
  <2>3. CASE HookConfigCall
    BY <2>3, <1>type DEF HookConfigCall, HookCall, CallLogOn
  <2> QED
    BY <1>prompt, <2>1, <2>2, <2>3
<1>input. ASSUME PromptNo \/ Notice \/ PressCircle PROVE OneLoginInv'
  BY <1>input, <1>type DEF PromptNo, Notice, Open, PressCircle
<1>logon. ASSUME (\E b \in BOOLEAN : LogOn(b)) \/ (\E t \in QrThreads : PromptYes(t))
          PROVE  OneLoginInv'
  BY <1>logon, <1>type DEF LogOn, PromptYes
<1>ext. ASSUME ResolveCM \/ Welcome \/ RestoreConnect \/ Render PROVE OneLoginInv'
  BY <1>ext, <1>type DEF ResolveCM, CM!Next, CM!Resolve, CM!Fail, CM!Undecided,
     Welcome, Open, Closed, RestoreConnect, Render, RenderCheck, DrawBorder, DrawQr, Draw
<1>client. ASSUME ByteSize \/ Serialize \/ (\E ok \in BOOLEAN : LogonResponse(ok))
           PROVE  OneLoginInv'
  BY <1>client, <1>type DEF ByteSize, Serialize, LogonResponse
<1>stutter. ASSUME UNCHANGED vars PROVE OneLoginInv'
  BY <1>stutter DEF vars
<1> HIDE DEF OneLoginInv
<1> QED
  BY <1>dialogs, <1>poll, <1>loop, <1>tick, <1>show, <1>approved, <1>stop,
     <1>dispatch, <1>fatal, <1>cm, <1>fatalCall, <1>cmCall, <1>prompt, <1>input,
     <1>logon, <1>ext, <1>client, <1>stutter DEF Next, ThreadStep, Qr, Stop, GameStep,
     InputStep, ExternalStep, Procs

\* Every step keeps SignInInv: with one login at a time nobody else raises
\* auth_session_running again or replaces half of the stored account.
LEMMA SignInStep ==
  PcOK /\ DataOK /\ OneLoginInv /\ SignInInv /\ [Next]_vars => SignInInv'
<1> SUFFICES ASSUME PcOK, DataOK, OneLoginInv, SignInInv, [Next]_vars PROVE SignInInv'
  OBVIOUS
<1> USE ThreadsAssumption
    DEF SignInInv, SuccessMeansSignedIn, AuthFileWhole, ShowLabels, Goto,
        ownVars, sharedVars, exceptAccount, exceptSession,
        exceptOverlay, exceptDialog, exceptClient, cmVars, accountVars, sessionVars,
        overlayVars, dialogVars, messageVars, clientVars, localVars, ghostVars
<1>type. /\ pc \in [Procs -> QrLabels \cup GameLabels]
         /\ Game \in Procs /\ \A t \in QrThreads : t \in Procs /\ t # Game
         /\ ret \in [QrThreads -> {"close", "setConfig", "tick"}]
  BY DEF PcOK, DataOK, Procs
<1>one. \A t, u \in QrThreads :
          pc[t] \notin {"none", "done"} /\ pc[u] \notin {"none", "done"} => t = u
  BY DEF OneLoginInv, Alive
<1>dialogs. ASSUME NEW t \in QrThreads,
                   Abort(t) \/ OpenConnecting(t) \/ ClearSuccess(t) \/ CloseConnecting(t)
                   \/ Arm(t)
            PROVE  SignInInv'
  BY <1>dialogs, <1>type, <1>one DEF Abort, OpenConnecting, Open, ClearSuccess,
     CloseConnecting, Closed, Arm
<1>poll. ASSUME NEW t \in QrThreads,
                Begin(t) \/ Poll(t) \/ RpcFailure(t)
         PROVE  SignInInv'
  BY <1>poll, <1>type, <1>one DEF Begin, Respond, Poll, RpcFailure
<1>loop. ASSUME NEW t \in QrThreads, Loop(t) PROVE SignInInv'
  BY <1>loop, <1>type, <1>one DEF Loop
<1>tick. ASSUME NEW t \in QrThreads, Tick(t) PROVE SignInInv'
  BY <1>tick, <1>type, <1>one DEF Tick
<1>show. ASSUME NEW t \in QrThreads, Encode(t) \/ Border(t) \/ Show(t) PROVE SignInInv'
  BY <1>show, <1>type, <1>one DEF Encode, LoadTexture, Return, Border, Show
<1>approved. ASSUME NEW t \in QrThreads,
                    SetConfig(t) \/ SetName(t) \/ SetToken(t) \/ ClearRunning(t)
                    \/ SetSuccess(t) \/ Save(t)
             PROVE  SignInInv'
  BY <1>approved, <1>type, <1>one DEF SetConfig, SetName, SetToken, ClearRunning,
     SetSuccess, Save
<1>stop. ASSUME NEW p \in Procs,
                StopFlag(p) \/ StopBorder(p) \/ StopQr(p) \/ StopRunning(p)
         PROVE  SignInInv'
  BY <1>stop, <1>type, <1>one DEF StopFlag, StopBorder, DeleteTexture, StopQr,
     StopRunning
<1>dispatch. ASSUME NEW p \in Procs,
                    DispatchArg(p) \/ Dispatch(p) \/ DispatchCall(p)
             PROVE  SignInInv'
  BY <1>dispatch, <1>type, <1>one DEF DispatchArg, Dispatch, End, DispatchCall,
     CallLogOn
<1>fatal. ASSUME HookFatal PROVE SignInInv'
  BY <1>fatal, <1>type, <1>one DEF HookFatal, FailLogon, Open
<1>cm. ASSUME HookCm PROVE SignInInv'
  BY <1>cm, <1>type, <1>one DEF HookCm, FailLogon, Open
<1>fatalCall. ASSUME HookFatalCall PROVE SignInInv'
  BY <1>fatalCall, <1>type, <1>one DEF HookFatalCall, HookCall, CallLogOn
<1>cmCall. ASSUME HookCmCall PROVE SignInInv'
  BY <1>cmCall, <1>type, <1>one DEF HookCmCall, HookCall, CallLogOn
<1>prompt. ASSUME HookPrompt \/ HookConfig \/ HookConfigCall PROVE SignInInv'
  <2>1. CASE HookPrompt
    BY <2>1, <1>type, <1>one DEF HookPrompt, Open
  <2>2. CASE HookConfig
    BY <2>2, <1>type, <1>one DEF HookConfig
  <2>3. CASE HookConfigCall
    BY <2>3, <1>type, <1>one DEF HookConfigCall, HookCall, CallLogOn
  <2> QED
    BY <1>prompt, <2>1, <2>2, <2>3
<1>input. ASSUME PromptNo \/ Notice \/ PressCircle PROVE SignInInv'
  BY <1>input, <1>type, <1>one DEF PromptNo, Notice, Open, PressCircle
<1>logon. ASSUME (\E b \in BOOLEAN : LogOn(b)) \/ (\E t \in QrThreads : PromptYes(t))
          PROVE  SignInInv'
  BY <1>logon, <1>type, <1>one DEF LogOn, PromptYes
<1>ext. ASSUME ResolveCM \/ Welcome \/ RestoreConnect \/ Render PROVE SignInInv'
  BY <1>ext, <1>type, <1>one DEF ResolveCM, CM!Next, CM!Resolve, CM!Fail,
     CM!Undecided, Welcome, Open, Closed, RestoreConnect, Render, RenderCheck, DrawBorder,
     DrawQr, Draw
<1>client. ASSUME ByteSize \/ Serialize \/ (\E ok \in BOOLEAN : LogonResponse(ok))
           PROVE  SignInInv'
  BY <1>client, <1>type, <1>one DEF ByteSize, Serialize, LogonResponse
<1>stutter. ASSUME UNCHANGED vars PROVE SignInInv'
  BY <1>stutter DEF vars
<1> HIDE DEF SignInInv
<1> QED
  BY <1>dialogs, <1>poll, <1>loop, <1>tick, <1>show, <1>approved, <1>stop,
     <1>dispatch, <1>fatal, <1>cm, <1>fatalCall, <1>cmCall, <1>prompt, <1>input,
     <1>logon, <1>ext, <1>client, <1>stutter DEF Next, ThreadStep, Qr, Stop, GameStep,
     InputStep, ExternalStep, Procs

LEMMA AlwaysSignInInv ==
  ASSUME Calm
  PROVE  Spec => []SignInInv
<1>1. Init => OneLoginInv /\ SignInInv
  BY ThreadsAssumption
  DEF Init, OneLoginInv, NoneAlive, Alive, HookLabels, SignInInv, SuccessMeansSignedIn,
      AuthFileWhole, ShowLabels, Procs
<1>2. TypeOK /\ OneLoginInv /\ [Next]_vars => OneLoginInv'
  BY OneLoginStep DEF TypeOK
<1>3. TypeOK /\ OneLoginInv /\ SignInInv /\ [Next]_vars => SignInInv'
  BY SignInStep DEF TypeOK
<1> QED
  BY <1>1, <1>2, <1>3, TypeCorrect, PTL DEF Spec

\* auth_session_success is set only when the name and the token of one login
\* are stored, if the game logs on only while no earlier logon is unanswered.
THEOREM SignInSound ==
  ASSUME Calm
  PROVE  Spec => []SuccessMeansSignedIn
<1>1. SignInInv => SuccessMeansSignedIn
  BY DEF SignInInv
<1> QED
  BY <1>1, AlwaysSignInInv, PTL

\* Under the same assumption the saved configuration holds one login's account.
THEOREM FileAlwaysWhole ==
  ASSUME Calm
  PROVE  Spec => []AuthFileWhole
<1>1. SignInInv => AuthFileWhole
  BY DEF SignInInv
<1> QED
  BY <1>1, AlwaysSignInInv, PTL

-----------------------------------------------------------------------------
(* The message, the refused token, the overlay's images, the cancelled login. *)

\* Every step keeps MessageInv: the account changes only while a login that has
\* not succeeded is going on, and then the client does not log on.
LEMMA MessageStep ==
  ASSUME Calm
  PROVE  PcOK /\ DataOK /\ OneLoginInv /\ OverlayOwned /\ SignInInv /\ MessageInv
           /\ [Next]_vars => MessageInv'
<1> SUFFICES ASSUME PcOK, DataOK, OneLoginInv, OverlayOwned, SignInInv, MessageInv,
                    [Next]_vars
             PROVE  MessageInv'
  OBVIOUS
<1>type. /\ pc \in [Procs -> QrLabels \cup GameLabels]
         /\ Game \in Procs /\ \A t \in QrThreads : t \in Procs /\ t # Game
         /\ ret \in [QrThreads -> {"close", "setConfig", "tick"}]
  BY ThreadsAssumption DEF PcOK, DataOK, Procs
<1>one. /\ \A t, u \in QrThreads :
             pc[t] \notin {"none", "done"} /\ pc[u] \notin {"none", "done"} => t = u
        /\ pc[Game] \in HookLabels \/ dialog \in {"prompt", "promptClosed"} =>
             \A t \in QrThreads : pc[t] \in {"none", "done"}
  BY DEF OneLoginInv, NoneAlive, Alive
<1>shown. is_displaying_qr =>
            \E t \in QrThreads :
              pc[t] \notin {"none", "done", "abort", "open", "init", "begin"}
  BY DEF OverlayOwned, Displaying, ShowLabels, LoopLabels, ApprovedLabels
<1>sign. \A t \in QrThreads :
           /\ pc[t] \in {"begin", "close", "arm", "poll", "setConfig", "setName", "setToken",
                        "clearRunning", "encode", "border", "show"} => ~auth_session_success
           /\ pc[t] \in {"save", "tick", "loop"} /\ auth_session_success =>
                ~auth_session_running
           /\ pc[t] \in {"setToken", "clearRunning", "setSuccess", "save"} =>
                SteamAccountName = t
           /\ pc[t] \in {"clearRunning", "setSuccess", "save"} => SteamAccessToken = t
  BY DEF SignInInv, ShowLabels
<1>booleans. /\ fail \in [Procs -> BOOLEAN] /\ connectAllowed \in BOOLEAN
             /\ pc[Game] \in GameLabels
  BY <1>type DEF PcOK, DataOK
<1> USE ThreadsAssumption
    DEF MessageInv, LogonMessageWhole, Settled, Alive, Calm, HookLabels, StopLabels,
        DispatchLabels, ShowLabels, Goto,
        ownVars, sharedVars, exceptAccount, exceptSession,
        exceptOverlay, exceptDialog, exceptClient, cmVars, accountVars, sessionVars,
        overlayVars, dialogVars, messageVars, clientVars, localVars, ghostVars
<1>dialogs. ASSUME NEW t \in QrThreads,
                   Abort(t) \/ OpenConnecting(t) \/ ClearSuccess(t) \/ CloseConnecting(t)
                   \/ Arm(t)
            PROVE  MessageInv'
  BY <1>dialogs, <1>type, <1>one, <1>shown, <1>sign, <1>booleans DEF Abort,
     OpenConnecting, Open, ClearSuccess,
     CloseConnecting, Closed, Arm
<1>poll. ASSUME NEW t \in QrThreads,
                Begin(t) \/ Poll(t) \/ RpcFailure(t)
         PROVE  MessageInv'
  BY <1>poll, <1>type, <1>one, <1>shown, <1>sign, <1>booleans DEF Begin, Respond, Poll,
     RpcFailure
<1>loop. ASSUME NEW t \in QrThreads, Loop(t) PROVE MessageInv'
  BY <1>loop, <1>type, <1>one, <1>shown, <1>sign, <1>booleans DEF Loop
<1>tick. ASSUME NEW t \in QrThreads, Tick(t) PROVE MessageInv'
  BY <1>tick, <1>type, <1>one, <1>shown, <1>sign, <1>booleans DEF Tick
<1>show. ASSUME NEW t \in QrThreads, Encode(t) \/ Border(t) \/ Show(t) PROVE MessageInv'
  BY <1>show, <1>type, <1>one, <1>shown, <1>sign, <1>booleans DEF Encode, LoadTexture,
     Return, Border, Show
<1>approved. ASSUME NEW t \in QrThreads,
                    SetConfig(t) \/ SetName(t) \/ SetToken(t) \/ ClearRunning(t)
                    \/ SetSuccess(t) \/ Save(t)
             PROVE  MessageInv'
  BY <1>approved, <1>type, <1>one, <1>shown, <1>sign, <1>booleans DEF SetConfig, SetName,
     SetToken, ClearRunning,
     SetSuccess, Save
<1>stop. ASSUME NEW p \in Procs,
                StopFlag(p) \/ StopBorder(p) \/ StopQr(p) \/ StopRunning(p)
         PROVE  MessageInv'
  BY <1>stop, <1>type, <1>one, <1>shown, <1>sign, <1>booleans DEF StopFlag, StopBorder,
     DeleteTexture, StopQr,
     StopRunning
<1>arg. ASSUME NEW p \in Procs, DispatchArg(p) PROVE MessageInv'
  BY <1>arg, <1>type, <1>one, <1>shown, <1>sign, <1>booleans DEF DispatchArg, End, Procs
<1>dispatch. ASSUME NEW p \in Procs, Dispatch(p) PROVE MessageInv'
  BY <1>dispatch, <1>type, <1>one, <1>shown, <1>sign, <1>booleans DEF Dispatch, End, Procs
<1>call. ASSUME NEW p \in Procs, DispatchCall(p) PROVE MessageInv'
  BY <1>call, <1>type, <1>one, <1>shown, <1>sign, <1>booleans DEF End, DispatchCall,
     CallLogOn, Procs
<1>fatal. ASSUME HookFatal PROVE MessageInv'
  BY <1>fatal, <1>type, <1>one, <1>shown, <1>sign, <1>booleans DEF HookFatal, FailLogon,
     Open
<1>cm. ASSUME HookCm PROVE MessageInv'
  BY <1>cm, <1>type, <1>one, <1>shown, <1>sign, <1>booleans DEF HookCm, FailLogon, Open
<1>fatalCall. ASSUME HookFatalCall PROVE MessageInv'
  BY <1>fatalCall, <1>type, <1>one, <1>shown, <1>sign, <1>booleans DEF HookFatalCall,
     HookCall, CallLogOn
<1>cmCall. ASSUME HookCmCall PROVE MessageInv'
  BY <1>cmCall, <1>type, <1>one, <1>shown, <1>sign, <1>booleans DEF HookCmCall, HookCall,
     CallLogOn
<1>prompt. ASSUME HookPrompt PROVE MessageInv'
  BY <1>prompt, <1>type, <1>one, <1>shown, <1>sign, <1>booleans DEF HookPrompt, Open
<1>config. ASSUME HookConfig PROVE MessageInv'
  BY <1>config, <1>type, <1>one, <1>shown, <1>sign, <1>booleans DEF HookConfig
<1>configCall. ASSUME HookConfigCall PROVE MessageInv'
  BY <1>configCall, <1>type, <1>one, <1>shown, <1>sign, <1>booleans DEF HookConfigCall,
     HookCall, CallLogOn
<1>input. ASSUME PromptNo \/ Notice \/ PressCircle PROVE MessageInv'
  BY <1>input, <1>type, <1>one, <1>shown, <1>sign, <1>booleans DEF PromptNo, Notice, Open,
     PressCircle
<1>logon. ASSUME NEW b \in BOOLEAN, LogOn(b) PROVE MessageInv'
  BY <1>logon, <1>type, <1>one, <1>shown, <1>sign, <1>booleans DEF LogOn
<1>yes. ASSUME NEW t \in QrThreads, PromptYes(t) PROVE MessageInv'
  BY <1>yes, <1>type, <1>one, <1>shown, <1>sign, <1>booleans DEF PromptYes, Procs
<1>ext. ASSUME ResolveCM \/ Welcome \/ RestoreConnect \/ Render PROVE MessageInv'
  BY <1>ext, <1>type, <1>one, <1>shown, <1>sign, <1>booleans DEF ResolveCM, CM!Next,
     CM!Resolve, CM!Fail,
     CM!Undecided, Welcome, Open, Closed, RestoreConnect, Render, RenderCheck, DrawBorder,
     DrawQr, Draw
<1>client. ASSUME ByteSize \/ Serialize \/ (\E ok \in BOOLEAN : LogonResponse(ok))
           PROVE  MessageInv'
  BY <1>client, <1>type, <1>one, <1>shown, <1>sign, <1>booleans DEF ByteSize, Serialize,
     LogonResponse
<1>stutter. ASSUME UNCHANGED vars PROVE MessageInv'
  BY <1>stutter DEF vars
<1> HIDE DEF MessageInv
<1> QED
  BY <1>dialogs, <1>poll, <1>loop, <1>tick, <1>show, <1>approved, <1>stop,
     <1>arg, <1>dispatch, <1>call, <1>fatal, <1>cm, <1>fatalCall, <1>cmCall, <1>prompt,
     <1>config, <1>configCall, <1>input,
     <1>logon, <1>yes, <1>ext, <1>client, <1>stutter DEF Next, ThreadStep, Qr, Stop, GameStep,
     InputStep, ExternalStep, Procs

\* Every step keeps OwedInv: the prompt opens while the client is idle and no
\* login lives, the one login it starts has a new token, and the first dispatch
\* settles the debt.
LEMMA OwedStep ==
  PcOK /\ DataOK /\ OneLoginInv /\ OverlayOwned /\ SignInInv /\ MessageInv /\ OwedInv
      /\ RejectInv
    /\ [Next]_vars => OwedInv'
<1> SUFFICES ASSUME PcOK, DataOK, OneLoginInv, OverlayOwned, SignInInv, MessageInv, OwedInv,
                    RejectInv, [Next]_vars
             PROVE  OwedInv'
  OBVIOUS
<1>type. /\ pc \in [Procs -> QrLabels \cup GameLabels]
         /\ Game \in Procs /\ \A t \in QrThreads : t \in Procs /\ t # Game
         /\ ret \in [QrThreads -> {"close", "setConfig", "tick"}]
         /\ fail \in [Procs -> BOOLEAN]
  BY ThreadsAssumption DEF PcOK, DataOK, Procs
<1>one. /\ \A t, u \in QrThreads :
             pc[t] \notin {"none", "done"} /\ pc[u] \notin {"none", "done"} => t = u
        /\ pc[Game] \in HookLabels \/ dialog \in {"prompt", "promptClosed"} =>
             \A t \in QrThreads : pc[t] \in {"none", "done"}
  BY DEF OneLoginInv, NoneAlive, Alive
<1>sign. \A t \in QrThreads :
           /\ pc[t] \in {"begin", "close", "arm", "poll", "setConfig", "setName", "setToken",
                        "clearRunning", "encode", "border", "show"} => ~auth_session_success
           /\ pc[t] \in {"save", "tick", "loop"} /\ auth_session_success =>
                ~auth_session_running
           /\ pc[t] \in {"setToken", "clearRunning", "setSuccess", "save"} =>
                SteamAccountName = t
           /\ pc[t] \in {"clearRunning", "setSuccess", "save"} => SteamAccessToken = t
  BY DEF SignInInv, ShowLabels
<1>settled. /\ engine # "idle" =>
                 \A t \in QrThreads : pc[t] \notin {"none", "done"} => auth_session_success
            /\ pc[Game] \in HookLabels => engine = "idle"
            /\ pc[Game] \in {"hookFatalCall", "hookCmCall"} => ~connectAllowed
            /\ \A p \in Procs : pc[p] = "dispatchCall" /\ connectAllowed =>
                 \A t \in QrThreads : pc[t] \notin {"none", "done"} =>
                   auth_session_success /\ pc[t] \notin {"abort", "open", "init"}
  BY DEF MessageInv, Settled, Alive
<1>shown. is_displaying_qr => \E t \in QrThreads : pc[t] \notin {"none", "done"}
  BY DEF OverlayOwned, Displaying, ShowLabels, LoopLabels, ApprovedLabels
<1>fresh. /\ \A t \in QrThreads : pc[t] = "none" => t \notin rejected
          /\ pc[Game] = "hookConfigCall" /\ connectAllowed => HasConfigLoaded
  BY DEF RejectInv, Fresh
<1> USE ThreadsAssumption
    DEF OwedInv, NoneAlive, Alive, HookLabels, StopLabels, ShowLabels, Goto,
        ownVars, sharedVars, exceptAccount, exceptSession,
        exceptOverlay, exceptDialog, exceptClient, cmVars, accountVars, sessionVars,
        overlayVars, dialogVars, messageVars, clientVars, localVars, ghostVars
<1>dialogs. ASSUME NEW t \in QrThreads,
                   Abort(t) \/ OpenConnecting(t) \/ ClearSuccess(t) \/ CloseConnecting(t)
                   \/ Arm(t)
            PROVE  OwedInv'
  BY <1>dialogs, <1>type
     DEF Abort, OpenConnecting, Open, ClearSuccess,
     CloseConnecting, Closed, Arm
<1>poll. ASSUME NEW t \in QrThreads,
                Begin(t) \/ Poll(t) \/ RpcFailure(t)
         PROVE  OwedInv'
  BY <1>poll, <1>type
     DEF Begin, Respond, Poll, RpcFailure
<1>loop. ASSUME NEW t \in QrThreads, Loop(t) PROVE OwedInv'
  BY <1>loop, <1>type DEF Loop
<1>tick. ASSUME NEW t \in QrThreads, Tick(t) PROVE OwedInv'
  BY <1>tick, <1>type DEF Tick
<1>show. ASSUME NEW t \in QrThreads, Encode(t) \/ Border(t) \/ Show(t) PROVE OwedInv'
  BY <1>show, <1>type
     DEF Encode, LoadTexture, Return, Border, Show
<1>approved. ASSUME NEW t \in QrThreads,
                    SetConfig(t) \/ SetName(t) \/ SetToken(t) \/ ClearRunning(t)
                    \/ SetSuccess(t) \/ Save(t)
             PROVE  OwedInv'
  BY <1>approved, <1>type, <1>one, <1>sign
     DEF SetConfig, SetName, SetToken, ClearRunning,
     SetSuccess, Save
<1>stop. ASSUME NEW p \in Procs,
                StopFlag(p) \/ StopBorder(p) \/ StopQr(p) \/ StopRunning(p)
         PROVE  OwedInv'
  <2>1. UNCHANGED <<owed, has_pending_interactive_logon, engine, HasConfigLoaded, rejected,
                    auth_session_success, SteamAccessToken, connectAllowed, fail>>
    BY <1>stop DEF StopFlag, StopBorder, DeleteTexture, StopQr, StopRunning
  <2>2. /\ pc[p] \in {"stopFlag", "stopBorder", "stopQr", "stopRunning"}
        /\ \E l \in {"stopBorder", "stopQr", "stopRunning", "dispatchArg"} :
             pc' = [pc EXCEPT ![p] = l]
    BY <1>stop DEF StopFlag, StopBorder, DeleteTexture, StopQr, StopRunning
  <2>3. CASE p = Game
    BY <2>1, <2>2, <2>3, <1>type
  <2>4. CASE p \in QrThreads
    BY <2>1, <2>2, <2>4, <1>type, <1>one
  <2> QED
    BY <2>3, <2>4 DEF Procs
<1>dispatch. ASSUME NEW p \in Procs, DispatchArg(p) \/ Dispatch(p) PROVE OwedInv'
  <2>1. CASE DispatchArg(p) /\ p = Game
    BY <2>1, <1>type DEF DispatchArg
  <2>2. CASE DispatchArg(p) /\ p \in QrThreads
    BY <2>2, <1>type DEF DispatchArg
  <2>3. CASE Dispatch(p) /\ p = Game
    <3>1. owed => pc' = [pc EXCEPT ![Game] = "dispatchCall"]
      BY <2>3 DEF Dispatch
    <3>2. owed => (connectAllowed' = ~fail[Game])
      BY <2>3, Zenon DEF Dispatch
    <3>3. /\ pc[Game] = "dispatch"
          /\ UNCHANGED <<owed, has_pending_interactive_logon, engine, HasConfigLoaded, rejected,
                         auth_session_success, SteamAccessToken, fail>>
      BY <2>3 DEF Dispatch
    <3> QED
      BY <3>1, <3>2, <3>3, <1>type
  <2>4. CASE Dispatch(p) /\ p \in QrThreads
    <3>1. owed => pc' = [pc EXCEPT ![p] = "dispatchCall"]
      BY <2>4 DEF Dispatch
    <3>3. /\ pc[p] = "dispatch"
          /\ UNCHANGED <<owed, has_pending_interactive_logon, engine, HasConfigLoaded, rejected,
                         auth_session_success, SteamAccessToken, fail>>
      BY <2>4 DEF Dispatch
    <3> QED
      BY <3>1, <3>3, <2>4, <1>type
  <2> QED
    BY <1>dispatch, <2>1, <2>2, <2>3, <2>4 DEF Procs
<1>call. ASSUME NEW p \in Procs, DispatchCall(p) PROVE OwedInv'
  BY <1>call DEF DispatchCall
<1>fatal. ASSUME HookFatal PROVE OwedInv'
  BY <1>fatal, <1>type
     DEF HookFatal, FailLogon, Open
<1>cm. ASSUME HookCm PROVE OwedInv'
  BY <1>cm, <1>type DEF HookCm, FailLogon, Open
<1>fatalCall. ASSUME HookFatalCall PROVE OwedInv'
  BY <1>fatalCall, <1>type, <1>settled
     DEF HookFatalCall, HookCall, CallLogOn
<1>cmCall. ASSUME HookCmCall PROVE OwedInv'
  BY <1>cmCall, <1>type, <1>settled
     DEF HookCmCall, HookCall, CallLogOn
<1>prompt. ASSUME HookPrompt \/ HookConfig \/ HookConfigCall PROVE OwedInv'
  <2>1. CASE HookPrompt
    BY <2>1, <1>type, <1>one, <1>settled DEF HookPrompt, Open
  <2>2. CASE HookConfig
    BY <2>2, <1>type DEF HookConfig
  <2>3. CASE HookConfigCall
    BY <2>3, <1>type, <1>one, <1>fresh
       DEF HookConfigCall, HookCall, CallLogOn
  <2> QED
    BY <1>prompt, <2>1, <2>2, <2>3
<1>input. ASSUME PromptNo \/ Notice \/ PressCircle PROVE OwedInv'
  <2>1. CASE PromptNo
    BY <2>1, <1>type, <1>one DEF PromptNo
  <2>2. CASE Notice
    BY <2>2, <1>type DEF Notice, Open
  <2>3. CASE PressCircle
    BY <2>3, <1>type, <1>shown DEF PressCircle
  <2> QED
    BY <1>input, <2>1, <2>2, <2>3
<1>logon. ASSUME (\E b \in BOOLEAN : LogOn(b)) \/ (\E t \in QrThreads : PromptYes(t))
          PROVE  OwedInv'
  <2>1. ASSUME NEW b \in BOOLEAN, LogOn(b) PROVE OwedInv'
    BY <2>1, <1>type DEF LogOn
  <2>2. ASSUME NEW t \in QrThreads, PromptYes(t) PROVE OwedInv'
    BY <2>2, <1>type, <1>one, <1>fresh DEF PromptYes
  <2> QED
    BY <1>logon, <2>1, <2>2
<1>ext. ASSUME ResolveCM \/ Welcome \/ RestoreConnect \/ Render PROVE OwedInv'
  BY <1>ext, <1>type
     DEF ResolveCM, CM!Next, CM!Resolve, CM!Fail,
     CM!Undecided, Welcome, Open, Closed, RestoreConnect, Render, RenderCheck, DrawBorder,
     DrawQr, Draw
<1>client. ASSUME ByteSize \/ Serialize \/ (\E ok \in BOOLEAN : LogonResponse(ok))
           PROVE  OwedInv'
  <2>1. CASE ByteSize \/ Serialize
    BY <2>1, <1>type DEF ByteSize, Serialize
  <2>2. ASSUME NEW ok \in BOOLEAN, LogonResponse(ok) PROVE OwedInv'
    BY <2>2, <1>type DEF LogonResponse
  <2> QED
    BY <1>client, <2>1, <2>2
<1>stutter. ASSUME UNCHANGED vars PROVE OwedInv'
  BY <1>stutter DEF vars
<1> HIDE DEF OwedInv
<1> QED
  BY <1>dialogs, <1>poll, <1>loop, <1>tick, <1>show, <1>approved, <1>stop,
     <1>dispatch, <1>call, <1>fatal, <1>cm, <1>fatalCall, <1>cmCall, <1>prompt, <1>input,
     <1>logon, <1>ext, <1>client, <1>stutter DEF Next, ThreadStep, Qr, Stop, GameStep,
     InputStep, ExternalStep, Procs

\* Every step keeps RejectInv: what a login stores is new, the hook passes a
\* logon on only with an account that was not refused, and so does a dispatch
\* of a logon that is owed its answer.
LEMMA RejectStep ==
  PcOK /\ DataOK /\ OneLoginInv /\ SignInInv /\ MessageInv /\ OwedInv /\ RejectInv
      /\ [Next]_vars
    => RejectInv'
<1> SUFFICES ASSUME PcOK, DataOK, OneLoginInv, SignInInv, MessageInv, OwedInv, RejectInv,
                    [Next]_vars
             PROVE  RejectInv'
  OBVIOUS
<1>type. /\ pc \in [Procs -> QrLabels \cup GameLabels]
         /\ Game \in Procs /\ \A t \in QrThreads : t \in Procs /\ t # Game
         /\ ret \in [QrThreads -> {"close", "setConfig", "tick"}]
  BY ThreadsAssumption DEF PcOK, DataOK, Procs
<1>one. /\ \A t, u \in QrThreads :
             pc[t] \notin {"none", "done"} /\ pc[u] \notin {"none", "done"} => t = u
        /\ pc[Game] \in HookLabels \/ dialog \in {"prompt", "promptClosed"} =>
             \A t \in QrThreads : pc[t] \in {"none", "done"}
  BY DEF OneLoginInv, NoneAlive, Alive
<1>sign. \A t \in QrThreads :
           /\ pc[t] \in {"begin", "close", "arm", "poll", "setConfig", "setName", "setToken",
                        "clearRunning", "encode", "border", "show"} => ~auth_session_success
           /\ pc[t] \in {"save", "tick", "loop"} /\ auth_session_success =>
                ~auth_session_running
           /\ pc[t] \in {"setToken", "clearRunning", "setSuccess", "save"} =>
                SteamAccountName = t
           /\ pc[t] \in {"clearRunning", "setSuccess", "save"} => SteamAccessToken = t
  BY DEF SignInInv, ShowLabels
<1>settled. /\ engine # "idle" =>
                 \A t \in QrThreads : pc[t] \notin {"none", "done"} => auth_session_success
            /\ pc[Game] \in HookLabels => engine = "idle"
            /\ pc[Game] \in {"hookFatalCall", "hookCmCall"} => ~connectAllowed
            /\ \A p \in Procs : pc[p] = "dispatchCall" /\ connectAllowed =>
                 \A t \in QrThreads : pc[t] \notin {"none", "done"} =>
                   auth_session_success /\ pc[t] \notin {"abort", "open", "init"}
  BY DEF MessageInv, Settled, Alive
<1>owed. owed => /\ engine = "idle"
                 /\ \A t \in QrThreads : pc[t] \notin {"none", "done"} =>
                      /\ t \notin rejected
                      /\ auth_session_success /\ pc[t] \notin {"abort", "open", "init"}
                           => SteamAccessToken = t
                 /\ (\A t \in QrThreads : pc[t] \in {"none", "done"})
                      /\ pc[Game] = "dispatchCall" => ~connectAllowed
  BY DEF OwedInv, NoneAlive, Alive
<1> USE ThreadsAssumption, LoginsAssumption
    DEF RejectInv, RefusedTokenNotOffered, Fresh, ShowLabels, HookLabels, Goto,
        ownVars, sharedVars, exceptAccount, exceptSession,
        exceptOverlay, exceptDialog, exceptClient, cmVars, accountVars, sessionVars,
        overlayVars, dialogVars, messageVars, clientVars, localVars, ghostVars
<1>dialogs. ASSUME NEW t \in QrThreads,
                   Abort(t) \/ OpenConnecting(t) \/ ClearSuccess(t) \/ CloseConnecting(t)
                   \/ Arm(t)
            PROVE  RejectInv'
  BY <1>dialogs, <1>type, <1>one
     DEF Abort, OpenConnecting, Open, ClearSuccess,
     CloseConnecting, Closed, Arm
<1>poll. ASSUME NEW t \in QrThreads,
                Begin(t) \/ Poll(t) \/ RpcFailure(t)
         PROVE  RejectInv'
  BY <1>poll, <1>type DEF Begin, Respond, Poll, RpcFailure
<1>loop. ASSUME NEW t \in QrThreads, Loop(t) PROVE RejectInv'
  BY <1>loop, <1>type, <1>sign DEF Loop
<1>tick. ASSUME NEW t \in QrThreads, Tick(t) PROVE RejectInv'
  BY <1>tick, <1>type DEF Tick
<1>show. ASSUME NEW t \in QrThreads, Encode(t) \/ Border(t) \/ Show(t) PROVE RejectInv'
  BY <1>show, <1>type DEF Encode, LoadTexture, Return, Border, Show
<1>approved. ASSUME NEW t \in QrThreads,
                    SetConfig(t) \/ SetName(t) \/ SetToken(t) \/ ClearRunning(t)
                    \/ SetSuccess(t) \/ Save(t)
             PROVE  RejectInv'
  BY <1>approved, <1>type
     DEF SetConfig, SetName, SetToken, ClearRunning,
     SetSuccess, Save
<1>stop. ASSUME NEW p \in Procs,
                StopFlag(p) \/ StopBorder(p) \/ StopQr(p) \/ StopRunning(p)
         PROVE  RejectInv'
  BY <1>stop, <1>type
     DEF StopFlag, StopBorder, DeleteTexture, StopQr,
     StopRunning
<1>dispatch. ASSUME NEW p \in Procs, DispatchArg(p) \/ Dispatch(p) PROVE RejectInv'
  BY <1>dispatch, <1>type, <1>one DEF DispatchArg, Dispatch, End, Procs
<1>call. ASSUME NEW p \in Procs, DispatchCall(p) PROVE RejectInv'
  <2>1. owed /\ connectAllowed => SteamAccessToken \notin rejected
    BY <1>call, <1>type, <1>one, <1>settled, <1>owed DEF DispatchCall, Procs
  <2> QED
    BY <1>call, <1>type, <2>1
       DEF DispatchCall, CallLogOn, End, Procs
<1>fatal. ASSUME HookFatal PROVE RejectInv'
  BY <1>fatal, <1>type DEF HookFatal, FailLogon, Open
<1>cm. ASSUME HookCm PROVE RejectInv'
  BY <1>cm, <1>type DEF HookCm, FailLogon, Open
<1>fatalCall. ASSUME HookFatalCall PROVE RejectInv'
  BY <1>fatalCall, <1>type, <1>settled DEF HookFatalCall, HookCall, CallLogOn
<1>cmCall. ASSUME HookCmCall PROVE RejectInv'
  BY <1>cmCall, <1>type, <1>settled DEF HookCmCall, HookCall, CallLogOn
<1>prompt. ASSUME HookPrompt \/ HookConfig \/ HookConfigCall PROVE RejectInv'
  <2>1. CASE HookPrompt
    BY <2>1, <1>type DEF HookPrompt, Open
  <2>2. CASE HookConfig
    BY <2>2, <1>type DEF HookConfig
  <2>3. CASE HookConfigCall
    BY <2>3, <1>type, <1>one DEF HookConfigCall, HookCall, CallLogOn
  <2> QED
    BY <1>prompt, <2>1, <2>2, <2>3
<1>input. ASSUME PromptNo \/ Notice \/ PressCircle PROVE RejectInv'
  BY <1>input, <1>type DEF PromptNo, Notice, Open, PressCircle
<1>logon. ASSUME (\E b \in BOOLEAN : LogOn(b)) \/ (\E t \in QrThreads : PromptYes(t))
          PROVE  RejectInv'
  BY <1>logon, <1>type DEF LogOn, PromptYes
<1>ext. ASSUME ResolveCM \/ Welcome \/ RestoreConnect \/ Render PROVE RejectInv'
  BY <1>ext, <1>type DEF ResolveCM, CM!Next, CM!Resolve, CM!Fail,
     CM!Undecided, Welcome, Open, Closed, RestoreConnect, Render, RenderCheck, DrawBorder,
     DrawQr, Draw
<1>client. ASSUME ByteSize \/ Serialize \/ (\E ok \in BOOLEAN : LogonResponse(ok))
           PROVE  RejectInv'
  <2>1. CASE ByteSize \/ Serialize
    BY <2>1, <1>type DEF ByteSize, Serialize
  <2>2. ASSUME NEW ok \in BOOLEAN, LogonResponse(ok) PROVE RejectInv'
    BY <2>2, <1>type, <1>settled DEF LogonResponse
  <2> QED
    BY <1>client, <2>1, <2>2
<1>stutter. ASSUME UNCHANGED vars PROVE RejectInv'
  BY <1>stutter DEF vars
<1> HIDE DEF RejectInv
<1> QED
  BY <1>dialogs, <1>poll, <1>loop, <1>tick, <1>show, <1>approved, <1>stop,
     <1>dispatch, <1>call, <1>fatal, <1>cm, <1>fatalCall, <1>cmCall, <1>prompt, <1>input,
     <1>logon, <1>ext, <1>client, <1>stutter DEF Next, ThreadStep, Qr, Stop, GameStep,
     InputStep, ExternalStep, Procs

\* Every step keeps ShowInv, if no response replaces the challenge URL: whoever
\* deletes a texture has cleared the flag, and nobody loads one meanwhile.
LEMMA ShowStep ==
  ASSUME "newChallengeUrl" \notin Allowed
  PROVE  PcOK /\ DataOK /\ OneLoginInv /\ OverlayOwned /\ ShowInv /\ [Next]_vars => ShowInv'
<1> SUFFICES ASSUME PcOK, DataOK, OneLoginInv, OverlayOwned, ShowInv, [Next]_vars
             PROVE  ShowInv'
  OBVIOUS
<1>type. /\ pc \in [Procs -> QrLabels \cup GameLabels]
         /\ Game \in Procs /\ \A t \in QrThreads : t \in Procs /\ t # Game
         /\ ret \in [QrThreads -> {"close", "setConfig", "tick"}]
  BY ThreadsAssumption DEF PcOK, DataOK, Procs
<1>one. /\ \A t, u \in QrThreads :
             pc[t] \notin {"none", "done"} /\ pc[u] \notin {"none", "done"} => t = u
        /\ pc[Game] \in HookLabels \/ dialog \in {"prompt", "promptClosed"} =>
             \A t \in QrThreads : pc[t] \in {"none", "done"}
  BY DEF OneLoginInv, NoneAlive, Alive
<1>shown. is_displaying_qr =>
            \E t \in QrThreads :
              pc[t] \notin {"none", "done", "abort", "open", "init", "begin"}
  BY DEF OverlayOwned, Displaying, ShowLabels, LoopLabels, ApprovedLabels
<1>images. textures \subseteq {"qr", "border"}
  BY DEF DataOK
<1> USE ThreadsAssumption
    DEF ShowInv, DrawnIsLoaded, ShowLabels, HookLabels, Goto,
        ownVars, sharedVars, exceptAccount, exceptSession,
        exceptOverlay, exceptDialog, exceptClient, cmVars, accountVars, sessionVars,
        overlayVars, dialogVars, messageVars, clientVars, localVars, ghostVars
<1>dialogs. ASSUME NEW t \in QrThreads,
                   Abort(t) \/ OpenConnecting(t) \/ ClearSuccess(t) \/ CloseConnecting(t)
                   \/ Arm(t)
            PROVE  ShowInv'
  BY <1>dialogs, <1>type, <1>one, <1>shown DEF Abort, OpenConnecting, Open, ClearSuccess,
     CloseConnecting, Closed, Arm
<1>poll. ASSUME NEW t \in QrThreads,
                Begin(t) \/ Poll(t) \/ RpcFailure(t)
         PROVE  ShowInv'
  BY <1>poll, <1>type, <1>one, <1>shown DEF Begin, Respond, Poll, RpcFailure
<1>loop. ASSUME NEW t \in QrThreads, Loop(t) PROVE ShowInv'
  BY <1>loop, <1>type, <1>one, <1>shown DEF Loop
<1>tick. ASSUME NEW t \in QrThreads, Tick(t) PROVE ShowInv'
  BY <1>tick, <1>type, <1>one, <1>shown DEF Tick
<1>show. ASSUME NEW t \in QrThreads, Encode(t) \/ Border(t) \/ Show(t) PROVE ShowInv'
  <2>1. CASE Encode(t)
    BY <2>1, <1>type, <1>one, <1>images DEF Encode, LoadTexture, Return
  <2>2. CASE Border(t)
    BY <2>2, <1>type, <1>one, <1>images, ZenonT(40) DEF Border, LoadTexture, Return
  <2>3. CASE Show(t)
    BY <2>3, <1>type, <1>one, <1>images DEF Show, Return, Procs
  <2> QED
    BY <1>show, <2>1, <2>2, <2>3
<1>approved. ASSUME NEW t \in QrThreads,
                    SetConfig(t) \/ SetName(t) \/ SetToken(t) \/ ClearRunning(t)
                    \/ SetSuccess(t) \/ Save(t)
             PROVE  ShowInv'
  BY <1>approved, <1>type, <1>one, <1>shown DEF SetConfig, SetName, SetToken, ClearRunning,
     SetSuccess, Save
<1>stop. ASSUME NEW p \in Procs,
                StopFlag(p) \/ StopBorder(p) \/ StopQr(p) \/ StopRunning(p)
         PROVE  ShowInv'
  <2>1. CASE StopFlag(p)
    BY <2>1, <1>type, <1>one, <1>shown DEF StopFlag, Procs
  <2>2. CASE StopBorder(p)
    BY <2>2, <1>type, <1>one, <1>shown DEF StopBorder, DeleteTexture, Procs
  <2>3. CASE StopQr(p)
    BY <2>3, <1>type, <1>one, <1>shown DEF StopQr, DeleteTexture, Procs
  <2>4. CASE StopRunning(p)
    BY <2>4, <1>type, <1>one, <1>shown DEF StopRunning, Procs
  <2> QED
    BY <1>stop, <2>1, <2>2, <2>3, <2>4
<1>dispatch. ASSUME NEW p \in Procs,
                    DispatchArg(p) \/ Dispatch(p) \/ DispatchCall(p)
             PROVE  ShowInv'
  BY <1>dispatch, <1>type, <1>one, <1>shown DEF DispatchArg, Dispatch, End, DispatchCall,
     CallLogOn
<1>fatal. ASSUME HookFatal PROVE ShowInv'
  BY <1>fatal, <1>type, <1>one, <1>shown DEF HookFatal, FailLogon, Open
<1>cm. ASSUME HookCm PROVE ShowInv'
  BY <1>cm, <1>type, <1>one, <1>shown DEF HookCm, FailLogon, Open
<1>fatalCall. ASSUME HookFatalCall PROVE ShowInv'
  BY <1>fatalCall, <1>type, <1>one, <1>shown DEF HookFatalCall, HookCall, CallLogOn
<1>cmCall. ASSUME HookCmCall PROVE ShowInv'
  BY <1>cmCall, <1>type, <1>one, <1>shown DEF HookCmCall, HookCall, CallLogOn
<1>prompt. ASSUME HookPrompt \/ HookConfig \/ HookConfigCall PROVE ShowInv'
  <2>1. CASE HookPrompt
    BY <2>1, <1>type, <1>one, <1>shown DEF HookPrompt, Open
  <2>2. CASE HookConfig
    BY <2>2, <1>type, <1>one, <1>shown DEF HookConfig
  <2>3. CASE HookConfigCall
    BY <2>3, <1>type, <1>one, <1>shown DEF HookConfigCall, HookCall, CallLogOn
  <2> QED
    BY <1>prompt, <2>1, <2>2, <2>3
<1>input. ASSUME PromptNo \/ Notice \/ PressCircle PROVE ShowInv'
  BY <1>input, <1>type, <1>one, <1>shown DEF PromptNo, Notice, Open, PressCircle
<1>logon. ASSUME (\E b \in BOOLEAN : LogOn(b)) \/ (\E t \in QrThreads : PromptYes(t))
          PROVE  ShowInv'
  BY <1>logon, <1>type, <1>one, <1>shown DEF LogOn, PromptYes
<1>ext. ASSUME ResolveCM \/ Welcome \/ RestoreConnect PROVE ShowInv'
  BY <1>ext, <1>type, <1>one, <1>shown DEF ResolveCM, CM!Next, CM!Resolve, CM!Fail,
     CM!Undecided, Welcome, Open, Closed, RestoreConnect
<1>render. ASSUME Render PROVE ShowInv'
  <2>1. CASE RenderCheck
    BY <2>1, <1>type DEF RenderCheck
  <2>2. CASE DrawBorder
    BY <2>2, <1>type DEF DrawBorder, Draw
  <2>3. CASE DrawQr
    BY <2>3, <1>type DEF DrawQr, Draw
  <2> QED
    BY <1>render, <2>1, <2>2, <2>3 DEF Render
<1>client. ASSUME ByteSize \/ Serialize \/ (\E ok \in BOOLEAN : LogonResponse(ok))
           PROVE  ShowInv'
  BY <1>client, <1>type, <1>one, <1>shown DEF ByteSize, Serialize, LogonResponse
<1>stutter. ASSUME UNCHANGED vars PROVE ShowInv'
  BY <1>stutter DEF vars
<1> HIDE DEF ShowInv
<1> QED
  BY <1>dialogs, <1>poll, <1>loop, <1>tick, <1>show, <1>approved, <1>stop,
     <1>dispatch, <1>fatal, <1>cm, <1>fatalCall, <1>cmCall, <1>prompt, <1>input,
     <1>logon, <1>ext, <1>render, <1>client, <1>stutter DEF Next, ThreadStep, Qr, Stop,
     GameStep,
     InputStep, ExternalStep, Procs

\* Every step keeps CancelInv: only a login before its loop arms the flag again,
\* and that would be a second login.
LEMMA CancelStep ==
  PcOK /\ DataOK /\ OneLoginInv /\ CancelInv /\ [Next]_vars => CancelInv'
<1> SUFFICES ASSUME PcOK, DataOK, OneLoginInv, CancelInv, [Next]_vars
             PROVE  CancelInv'
  OBVIOUS
<1>type. /\ pc \in [Procs -> QrLabels \cup GameLabels]
         /\ Game \in Procs /\ \A t \in QrThreads : t \in Procs /\ t # Game
         /\ ret \in [QrThreads -> {"close", "setConfig", "tick"}]
  BY ThreadsAssumption DEF PcOK, DataOK, Procs
<1>one. /\ \A t, u \in QrThreads :
             pc[t] \notin {"none", "done"} /\ pc[u] \notin {"none", "done"} => t = u
        /\ pc[Game] \in HookLabels \/ dialog \in {"prompt", "promptClosed"} =>
             \A t \in QrThreads : pc[t] \in {"none", "done"}
  BY DEF OneLoginInv, NoneAlive, Alive
<1>ids. cancelled \subseteq QrThreads
  BY DEF DataOK
<1> USE ThreadsAssumption
    DEF CancelInv, Alive, ShowLabels, HookLabels, Goto,
        ownVars, sharedVars, exceptAccount, exceptSession,
        exceptOverlay, exceptDialog, exceptClient, cmVars, accountVars, sessionVars,
        overlayVars, dialogVars, messageVars, clientVars, localVars, ghostVars
<1>dialogs. ASSUME NEW t \in QrThreads,
                   Abort(t) \/ OpenConnecting(t) \/ ClearSuccess(t) \/ CloseConnecting(t)
                   \/ Arm(t)
            PROVE  CancelInv'
  BY <1>dialogs, <1>type, <1>one, <1>ids DEF Abort, OpenConnecting, Open, ClearSuccess,
     CloseConnecting, Closed, Arm
<1>poll. ASSUME NEW t \in QrThreads,
                Begin(t) \/ Poll(t) \/ RpcFailure(t)
         PROVE  CancelInv'
  BY <1>poll, <1>type, <1>one, <1>ids DEF Begin, Respond, Poll, RpcFailure
<1>loop. ASSUME NEW t \in QrThreads, Loop(t) PROVE CancelInv'
  BY <1>loop, <1>type, <1>one, <1>ids DEF Loop
<1>tick. ASSUME NEW t \in QrThreads, Tick(t) PROVE CancelInv'
  BY <1>tick, <1>type, <1>one, <1>ids DEF Tick
<1>show. ASSUME NEW t \in QrThreads, Encode(t) \/ Border(t) \/ Show(t) PROVE CancelInv'
  BY <1>show, <1>type, <1>one, <1>ids DEF Encode, LoadTexture, Return, Border, Show
<1>approved. ASSUME NEW t \in QrThreads,
                    SetConfig(t) \/ SetName(t) \/ SetToken(t) \/ ClearRunning(t)
                    \/ SetSuccess(t) \/ Save(t)
             PROVE  CancelInv'
  BY <1>approved, <1>type, <1>one, <1>ids DEF SetConfig, SetName, SetToken, ClearRunning,
     SetSuccess, Save
<1>stop. ASSUME NEW p \in Procs,
                StopFlag(p) \/ StopBorder(p) \/ StopQr(p) \/ StopRunning(p)
         PROVE  CancelInv'
  BY <1>stop, <1>type, <1>one, <1>ids DEF StopFlag, StopBorder, DeleteTexture, StopQr,
     StopRunning
<1>dispatch. ASSUME NEW p \in Procs,
                    DispatchArg(p) \/ Dispatch(p) \/ DispatchCall(p)
             PROVE  CancelInv'
  BY <1>dispatch, <1>type, <1>one, <1>ids DEF DispatchArg, Dispatch, End, DispatchCall,
     CallLogOn
<1>fatal. ASSUME HookFatal PROVE CancelInv'
  BY <1>fatal, <1>type, <1>one, <1>ids DEF HookFatal, FailLogon, Open
<1>cm. ASSUME HookCm PROVE CancelInv'
  BY <1>cm, <1>type, <1>one, <1>ids DEF HookCm, FailLogon, Open
<1>fatalCall. ASSUME HookFatalCall PROVE CancelInv'
  BY <1>fatalCall, <1>type, <1>one, <1>ids DEF HookFatalCall, HookCall, CallLogOn
<1>cmCall. ASSUME HookCmCall PROVE CancelInv'
  BY <1>cmCall, <1>type, <1>one, <1>ids DEF HookCmCall, HookCall, CallLogOn
<1>prompt. ASSUME HookPrompt \/ HookConfig \/ HookConfigCall PROVE CancelInv'
  <2>1. CASE HookPrompt
    BY <2>1, <1>type, <1>one, <1>ids DEF HookPrompt, Open
  <2>2. CASE HookConfig
    BY <2>2, <1>type, <1>one, <1>ids DEF HookConfig
  <2>3. CASE HookConfigCall
    BY <2>3, <1>type, <1>one, <1>ids DEF HookConfigCall, HookCall, CallLogOn
  <2> QED
    BY <1>prompt, <2>1, <2>2, <2>3
<1>input. ASSUME PromptNo \/ Notice \/ PressCircle PROVE CancelInv'
  BY <1>input, <1>type, <1>one, <1>ids DEF PromptNo, Notice, Open, PressCircle
<1>logon. ASSUME (\E b \in BOOLEAN : LogOn(b)) \/ (\E t \in QrThreads : PromptYes(t))
          PROVE  CancelInv'
  BY <1>logon, <1>type, <1>one, <1>ids DEF LogOn, PromptYes
<1>ext. ASSUME ResolveCM \/ Welcome \/ RestoreConnect \/ Render PROVE CancelInv'
  BY <1>ext, <1>type, <1>one, <1>ids DEF ResolveCM, CM!Next, CM!Resolve, CM!Fail,
     CM!Undecided, Welcome, Open, Closed, RestoreConnect, Render, RenderCheck, DrawBorder,
     DrawQr, Draw
<1>client. ASSUME ByteSize \/ Serialize \/ (\E ok \in BOOLEAN : LogonResponse(ok))
           PROVE  CancelInv'
  BY <1>client, <1>type, <1>one, <1>ids DEF ByteSize, Serialize, LogonResponse
<1>stutter. ASSUME UNCHANGED vars PROVE CancelInv'
  BY <1>stutter DEF vars
<1> HIDE DEF CancelInv
<1> QED
  BY <1>dialogs, <1>poll, <1>loop, <1>tick, <1>show, <1>approved, <1>stop,
     <1>dispatch, <1>fatal, <1>cm, <1>fatalCall, <1>cmCall, <1>prompt, <1>input,
     <1>logon, <1>ext, <1>client, <1>stutter DEF Next, ThreadStep, Qr, Stop, GameStep,
     InputStep, ExternalStep, Procs

LEMMA AlwaysOneLogin ==
  ASSUME Calm
  PROVE  Spec => []OneLoginInv
<1>1. Init => OneLoginInv
  BY ThreadsAssumption DEF Init, OneLoginInv, NoneAlive, Alive, HookLabels, Procs
<1>2. TypeOK /\ OneLoginInv /\ [Next]_vars => OneLoginInv'
  BY OneLoginStep DEF TypeOK
<1> QED
  BY <1>1, <1>2, TypeCorrect, PTL DEF Spec

LEMMA AlwaysMessageInv ==
  ASSUME Calm
  PROVE  Spec => []MessageInv
<1>1. Init => MessageInv
  BY ThreadsAssumption
  DEF Init, MessageInv, LogonMessageWhole, Settled, Alive, HookLabels, StopLabels,
      DispatchLabels, Procs
<1>2. /\ TypeOK /\ OneLoginInv /\ OverlayOwned /\ SignInInv /\ MessageInv /\ [Next]_vars
      => MessageInv'
  BY MessageStep DEF TypeOK
<1> QED
  BY <1>1, <1>2, TypeCorrect, AlwaysOneLogin, OverlayAlwaysOwned, AlwaysSignInInv,
     PTL DEF Spec

\* The logon message carries one account, and the token that was measured is
\* the one that is written, if logons do not overlap.
THEOREM MessageAlwaysWhole ==
  ASSUME Calm
  PROVE  Spec => []LogonMessageWhole
<1>1. MessageInv => LogonMessageWhole
  BY DEF MessageInv
<1> QED
  BY <1>1, AlwaysMessageInv, PTL

\* A token Steam refused goes on the wire again only when a logon is dispatched
\* twice for one login, if logons do not overlap.
THEOREM RefusedNeverOffered ==
  ASSUME Calm
  PROVE  Spec => []RefusedTokenNotOffered
<1>1. Init => OwedInv /\ RejectInv
  BY ThreadsAssumption, LoginsAssumption
  DEF Init, OwedInv, RejectInv, RefusedTokenNotOffered, Fresh, ShowLabels, Procs
<1>2. /\ TypeOK /\ OneLoginInv /\ OverlayOwned /\ SignInInv /\ MessageInv
      /\ OwedInv /\ RejectInv /\ [Next]_vars
      => OwedInv' /\ RejectInv'
  BY OwedStep, RejectStep DEF TypeOK
<1>3. RejectInv => RefusedTokenNotOffered
  BY DEF RejectInv
<1> QED
  BY <1>1, <1>2, <1>3, TypeCorrect, AlwaysOneLogin, OverlayAlwaysOwned, AlwaysSignInInv,
     AlwaysMessageInv, PTL DEF Spec

\* Only the frame during which the QR code is taken down may draw a texture that
\* is not loaded, if logons do not overlap and the challenge URL stays the same.
THEOREM DrawnAlwaysLoaded ==
  ASSUME Calm, "newChallengeUrl" \notin Allowed
  PROVE  Spec => []DrawnIsLoaded
<1>1. Init => ShowInv
  BY ThreadsAssumption DEF Init, ShowInv, DrawnIsLoaded, ShowLabels, Procs
<1>2. /\ TypeOK /\ OneLoginInv /\ OverlayOwned /\ ShowInv /\ [Next]_vars
      => ShowInv'
  BY ShowStep DEF TypeOK
<1>3. ShowInv => DrawnIsLoaded
  BY DEF ShowInv
<1> QED
  BY <1>1, <1>2, <1>3, TypeCorrect, AlwaysOneLogin, OverlayAlwaysOwned, PTL DEF Spec

\* A login that was cancelled during its poll loop is not polled once more, if
\* logons do not overlap: only Loop leads to a poll, and the flag is clear.
THEOREM CancelAlwaysEnds ==
  ASSUME Calm
  PROVE  Spec => CancelEndsSession
<1> DEFINE NoPoll == \A t \in cancelled : ~(pc[t] = "loop" /\ pc'[t] = "poll")
<1>1. Init => CancelInv
  BY DEF Init, CancelInv
<1>2. TypeOK /\ OneLoginInv /\ CancelInv /\ [Next]_vars => CancelInv'
  BY CancelStep DEF TypeOK
<1>3. TypeOK /\ CancelInv /\ [Next]_vars => NoPoll
  <2> SUFFICES ASSUME PcOK, DataOK, CancelInv, [Next]_vars, NEW c \in cancelled,
                      pc[c] = "loop", pc'[c] = "poll"
               PROVE  FALSE
    BY DEF TypeOK
  <2>type. /\ pc \in [Procs -> QrLabels \cup GameLabels]
           /\ c \in QrThreads /\ c \in Procs /\ c # Game /\ Game \in Procs
           /\ \A t \in QrThreads : t \in Procs
           /\ ret \in [QrThreads -> {"close", "setConfig", "tick"}]
    BY ThreadsAssumption DEF PcOK, DataOK, Procs
  <2>off. ~auth_session_running
    BY <2>type DEF CancelInv, Alive
  <2>1. ASSUME NEW t \in QrThreads, Qr(t) PROVE FALSE
    BY <2>1, <2>type, <2>off
    DEF Qr, Goto, Return, Respond, LoadTexture, Abort, OpenConnecting, ClearSuccess, Begin,
        RpcFailure, Encode, Border, Show, CloseConnecting, Arm, Loop, Poll, SetConfig,
        SetName, SetToken, ClearRunning, SetSuccess, Save, Tick
  <2>2. ASSUME NEW p \in Procs, Stop(p) PROVE FALSE
    BY <2>2, <2>type
    DEF Stop, Goto, End, StopFlag, StopBorder, StopQr, DeleteTexture, StopRunning,
        DispatchArg, Dispatch, DispatchCall
  <2>3. CASE HookFatal \/ HookFatalCall \/ HookCm \/ HookCmCall \/ HookPrompt \/ HookConfig
             \/ HookConfigCall
    BY <2>3, <2>type
    DEF Goto, HookFatal, HookFatalCall, HookCm, HookCmCall, HookPrompt, HookConfig,
        HookConfigCall, FailLogon, HookCall
  <2>4. CASE InputStep
    BY <2>4, <2>type DEF InputStep, Goto, LogOn, PromptYes, PromptNo, Notice, PressCircle
  <2>5. CASE ExternalStep \/ UNCHANGED vars
    BY <2>5, <2>type DEF ExternalStep, ResolveCM, Welcome, ByteSize, Serialize, LogonResponse,
       RestoreConnect, Render, RenderCheck, DrawBorder, DrawQr, Draw, vars
  <2> QED
    BY <2>1, <2>2, <2>3, <2>4, <2>5, <2>type DEF Next, ThreadStep, GameStep
<1> QED
  BY <1>1, <1>2, <1>3, TypeCorrect, AlwaysOneLogin, PTL DEF Spec, CancelEndsSession
=============================================================================
