-------------------------- MODULE HttpClientProofs --------------------------
(* HttpClient for every set of login threads: what CMList promises survives  *)
(* the initialisation around it, and the shared client is configured.        *)
EXTENDS HttpClient, CMListProofs

-----------------------------------------------------------------------------
(* The connection manager thread is still CMList.                            *)

LEMMA ClientStepIsListStep == [ClientNext]_allVars => [ListNext]_vars
<1>1. ASSUME ListThread PROVE ListNext
  BY <1>1 DEF ListThread
<1>2. ASSUME NEW t \in Threads, InitCellHttp(t) PROVE UNCHANGED vars
  BY <1>2 DEF InitCellHttp
<1>3. ASSUME NEW t \in Threads, LoginStarts(t) PROVE UNCHANGED vars
  BY <1>3 DEF LoginStarts
<1>4. ASSUME UNCHANGED allVars PROVE UNCHANGED vars
  BY <1>4 DEF allVars
<1> QED  BY <1>1, <1>2, <1>3, <1>4 DEF ClientNext

\* With any number of threads initialising cellHttp around it, the connection
\* manager thread does what CMList says, so that every theorem about CMList is
\* one about the plugin as a whole.
THEOREM ClientImplementsList == ClientSpec => Spec
<1>1. ClientInit => ListInit  BY DEF ClientInit
<1>2. [ClientNext]_allVars => [ListNext]_vars  BY ClientStepIsListStep
<1> QED  BY <1>1, <1>2, PTL DEF ClientSpec, Spec

-----------------------------------------------------------------------------
(* Types.                                                                    *)

ClientTypes ==
  /\ call \in [Threads -> Calls]
  /\ current_cellHttp_client \in Threads \cup {NoClient}
  /\ settings \in [Threads -> SUBSET Settings]

LEMMA TypesInit == ClientInit => ClientTypes
BY DEF ClientInit, ClientTypes, Calls, Threads

\* A step of condenstation_init_cellHttp goes from one call to another one.
LEMMA AtTypes ==
  ASSUME call \in [Threads -> Calls], NEW t, NEW from, NEW to \in Calls, At(t, from, to)
  PROVE  call' \in [Threads -> Calls]
BY DEF At

LEMMA InitStepTypes ==
  ASSUME ClientTypes, ClientPart, NEW t \in Threads, InitStep(t)
  PROVE  ClientTypes'
<1> USE DEF ClientTypes
<1>1. ASSUME NEW from, NEW to \in Calls, InitLibrary(t, from, to) PROVE ClientTypes'
  BY <1>1, AtTypes DEF InitLibrary, Calls
<1>2. CASE CreateClient(t)
  BY <1>2, AtTypes DEF CreateClient, Calls, Settings
<1>3. CASE CreateClientFails(t)
  BY <1>3, AtTypes DEF CreateClientFails, Calls
<1>4. ASSUME NEW setting \in Settings, NEW to \in Calls, Set(t, setting, to) PROVE ClientTypes'
  <2>1. call' \in [Threads -> Calls]
    BY <1>4, AtTypes DEF Set
  <2> QED  BY <1>4, <2>1 DEF Set
<1>5. {"sslInit", "httpsInit", "createClient", "userAgent", "sslCallback", "ready"} \subseteq Calls
  BY DEF Calls, Settings
<1>6. {"version", "userAgent", "sslCallback"} \subseteq Settings
  BY DEF Settings
<1> HIDE DEF ClientTypes
<1> QED  BY <1>1, <1>2, <1>3, <1>4, <1>5, <1>6 DEF InitStep

-----------------------------------------------------------------------------
(* The invariant.                                                            *)

LEMMA ClientInvInit == ClientInit => ClientInv
<1> SUFFICES ASSUME ClientInit PROVE ClientInv  OBVIOUS
<1>1. has_netadr = FALSE
  BY Zenon DEF ClientInit, ListInit, CM!Init
<1> QED  BY <1>1 DEF ClientInit, ListInit, Init, ClientInv, ClientPart, RequestPart, Settings

\* A client, once there is one, is never taken away.
LEMMA ClientStays ==
  ASSUME ClientTypes, NEW t \in Threads, InitStep(t), current_cellHttp_client # NoClient
  PROVE  current_cellHttp_client' # NoClient
BY ThreadsAssumption DEF InitStep, InitLibrary, CreateClient, CreateClientFails, Set, Threads

LEMMA InitStepClient ==
  ASSUME ClientTypes, ClientPart, NEW t \in Threads, InitStep(t)
  PROVE  ClientPart'
<1> USE DEF ClientTypes, ClientPart, CreatorSets, Settings
<1>1. ASSUME NEW from \in {"httpInit", "sslInit", "httpsInit"},
             NEW to \in {"sslInit", "httpsInit", "createClient"}, InitLibrary(t, from, to)
      PROVE  ClientPart'
  BY <1>1 DEF InitLibrary, At
<1>2. CASE CreateClient(t)
  BY <1>2, ThreadsAssumption DEF CreateClient, At, Threads
<1>3. CASE CreateClientFails(t)
  BY <1>3 DEF CreateClientFails, At
<1>4. CASE Set(t, "version", "userAgent")
  BY <1>4 DEF Set, At
<1>5. CASE Set(t, "userAgent", "sslCallback")
  BY <1>5 DEF Set, At
<1>6. CASE Set(t, "sslCallback", "ready")
  BY <1>6 DEF Set, At
<1> QED  BY <1>1, <1>2, <1>3, <1>4, <1>5, <1>6 DEF InitStep

LEMMA InitCellHttpStep ==
  ASSUME ClientTypes, ClientInv, NEW t \in Threads, InitCellHttp(t)
  PROVE  ClientTypes' /\ ClientInv'
<1>1. ClientTypes' /\ ClientPart'
  BY InitStepTypes, InitStepClient DEF InitCellHttp, ClientInv
<1>2. current_cellHttp_client # NoClient => current_cellHttp_client' # NoClient
  BY ClientStays DEF InitCellHttp
<1>3. RequestPart'
  BY <1>2 DEF InitCellHttp, ClientInv, RequestPart, Returned, vars, httpVars, threadVars
<1> QED  BY <1>1, <1>3 DEF ClientInv

LEMMA LoginStartsStep ==
  ASSUME ClientTypes, ClientInv, NEW t \in Threads, LoginStarts(t)
  PROVE  ClientTypes' /\ ClientInv'
<1>1. ClientTypes'
  BY AtTypes DEF ClientTypes, LoginStarts, Calls
<1>2. ClientPart'
  BY DEF ClientTypes, ClientInv, ClientPart, CreatorSets, LoginStarts, At, Settings
<1>3. RequestPart'
  BY DEF ClientInv, LoginStarts, RequestPart, Returned, vars, httpVars, threadVars
<1> QED  BY <1>1, <1>2, <1>3 DEF ClientInv

LEMMA ListThreadStep ==
  ASSUME Safe, ClientTypes, ClientInv, ListThread
  PROVE  ClientTypes' /\ ClientInv'
<1> USE DEF ListThread, clientVars
<1>1. ClientTypes' /\ ClientPart'
  BY DEF ClientTypes, ClientInv, ClientPart, CreatorSets, Threads
<1>2. RequestPart /\ HasClient /\ UNCHANGED current_cellHttp_client
  BY DEF ClientInv
<1>3. pc # "done" => ~has_netadr
  BY DEF Safe, ListInv, CM!Undecided
<1>4. RequestPart'
  <2> USE <1>2, <1>3 DEF RequestPart, Returned
  <2>1. CASE InitHttp
    BY <2>1 DEF InitHttp, Goto, httpVars
  <2>2. CASE Call
    <3> SUFFICES ASSUME step' \notin {"create", "failed"} PROVE current_cellHttp_client # NoClient
      BY <2>2 DEF Call, threadVars
    <3>1. CASE step = "create"
      <4>1. step' = "send"
        BY <2>2, <3>1 DEF Call, Next, Proceed, ReturnError, CreateTransaction, SendRequest,
             GetStatusCode, GetContentLength, RecvResponse, EndReceive, LeaveLoop,
             DestroyTransaction, ReceiveFails
      <4> QED  BY <3>1, <4>1 DEF HasClient
    <3>2. step # "failed"
      BY <2>2 DEF Call, Next, Proceed, ReturnError, CreateTransaction, SendRequest,
           GetStatusCode, GetContentLength, RecvResponse, EndReceive, LeaveLoop,
           DestroyTransaction, ReceiveFails
    <3> QED  BY <3>1, <3>2
  <2>3. CASE CallReturns
    BY <2>3 DEF CallReturns, Goto, httpVars
  <2>4. CASE SetFatalError
    BY <2>4 DEF SetFatalError, Goto, httpVars
  <2>5. CASE Accept
    BY <2>5 DEF Accept, Unusable, Goto, httpVars
  <2>6. CASE SplitAddress
    BY <2>6 DEF SplitAddress, Goto, httpVars
  <2>7. CASE ParseAddress
    BY <2>7 DEF ParseAddress, Goto, httpVars
  <2>8. CASE Publish
    BY <2>8 DEF Publish, Goto, httpVars
  <2> QED  BY <2>1, <2>2, <2>3, <2>4, <2>5, <2>6, <2>7, <2>8 DEF ListNext, AfterCall
<1> QED  BY <1>1, <1>4 DEF ClientInv

LEMMA ClientStutter ==
  ASSUME ClientTypes, ClientInv, UNCHANGED allVars
  PROVE  ClientTypes' /\ ClientInv'
BY DEF allVars, clientVars, vars, httpVars, threadVars, ClientTypes, ClientInv, ClientPart,
       RequestPart, CreatorSets, Returned

LEMMA AlwaysClient == ClientSpec => [](Safe /\ ClientTypes /\ ClientInv)
<1>1. ClientInit => ClientTypes /\ ClientInv
  BY TypesInit, ClientInvInit
<1>2. Safe /\ ClientTypes /\ ClientInv /\ [ClientNext]_allVars => ClientTypes' /\ ClientInv'
  BY InitCellHttpStep, LoginStartsStep, ListThreadStep, ClientStutter DEF ClientNext
<1> QED  BY <1>1, <1>2, ClientImplementsList, AlwaysSafe, PTL DEF ClientSpec

-----------------------------------------------------------------------------
(* The theorems.                                                             *)

\* Every variable keeps its type, those of the connection manager thread too.
THEOREM ClientTypeCorrect == ClientSpec => []ClientTypeOK
<1>1. Safe /\ ClientTypes => ClientTypeOK  BY DEF Safe, ClientTypes, ClientTypeOK
<1> QED  BY <1>1, AlwaysClient, PTL

\* condenstation_init_cellHttp needs no lock: for any number of threads in it,
\* the shared client is fully configured whenever none is making settings.
THEOREM AlwaysConfigured == ClientSpec => []ClientConfigured
<1>1. ClientTypes /\ ClientInv => ClientConfigured
  BY DEF ClientTypes, ClientInv, ClientPart, CreatorSets, ClientConfigured, Settings
<1> QED  BY <1>1, AlwaysClient, PTL

\* No address without a client, although get_cm_thread ignores the result of
\* the initialisation.
THEOREM AddressOverClient == ClientSpec => []AddressNeedsClient
<1>1. ClientInv => AddressNeedsClient  BY DEF ClientInv, RequestPart, AddressNeedsClient
<1> QED  BY <1>1, AlwaysClient, PTL
=============================================================================
