----------------------------- MODULE HttpClient -----------------------------
(* condenstation_init_cellHttp: the connection manager thread and every      *)
(* login thread initialise cellHttp for themselves, without a lock and       *)
(* without looking at is_cellHttp_init, and share the one client that        *)
(* current_cellHttp_client names.  No caller looks at the result.  The       *)
(* connection manager thread goes on as CMList; what a login thread requests *)
(* is in AuthSession.                                                        *)
EXTENDS CMList

CONSTANTS
  Logins,       \* the login threads
  List,         \* the connection manager thread
  NoClient      \* current_cellHttp_client before there is one

ASSUME ThreadsAssumption == List \notin Logins /\ NoClient \notin Logins \cup {List}

Threads  == Logins \cup {List}
Settings == {"version", "userAgent", "sslCallback"}
Calls    == {"none", "httpInit", "sslInit", "httpsInit", "createClient", "ready"} \cup Settings

VARIABLES
  call,                     \* the call of the function each thread is at
  current_cellHttp_client,  \* a client is named by the thread that created it
  settings                  \* what has been set for each client

clientVars == <<call, current_cellHttp_client, settings>>
allVars    == <<vars, clientVars>>

ClientTypeOK ==
  /\ ListTypeOK
  /\ call \in [Threads -> Calls]
  /\ current_cellHttp_client \in Threads \cup {NoClient}
  /\ settings \in [Threads -> SUBSET Settings]

ClientInit ==
  /\ ListInit
  /\ call = [t \in Threads |-> IF t = List THEN "httpInit" ELSE "none"]
  /\ current_cellHttp_client = NoClient
  /\ settings = [t \in Threads |-> {}]

-----------------------------------------------------------------------------
(* The function.                                                             *)

At(t, from, to) == call[t] = from /\ call' = [call EXCEPT ![t] = to]

\* cellHttpInit, cellSslInit or cellHttpsInit; a failure returns at once.
InitLibrary(t, from, to) ==
  /\ At(t, from, to) \/ At(t, from, "ready")
  /\ UNCHANGED <<current_cellHttp_client, settings>>

\* A fault: only the first client is configured.
CreateClientUnset(t) ==
  /\ At(t, "createClient", IF current_cellHttp_client = NoClient THEN "version" ELSE "ready")
  /\ current_cellHttp_client' = t
  /\ UNCHANGED settings

CreateClient(t) ==
  /\ At(t, "createClient", "version")
  /\ current_cellHttp_client' = t
  /\ UNCHANGED settings

CreateClientFails(t) ==
  /\ At(t, "createClient", "ready")
  /\ UNCHANGED <<current_cellHttp_client, settings>>

\* Whichever client is the current one by now.
Set(t, setting, to) ==
  /\ At(t, setting, to)
  /\ settings' = [settings EXCEPT ![current_cellHttp_client] = @ \cup {setting}]
  /\ UNCHANGED current_cellHttp_client

InitStep(t) ==
  \/ InitLibrary(t, "httpInit", "sslInit")
  \/ InitLibrary(t, "sslInit", "httpsInit")
  \/ InitLibrary(t, "httpsInit", "createClient")
  \/ CreateClient(t) \/ CreateClientFails(t)
  \/ Set(t, "version", "userAgent")
  \/ Set(t, "userAgent", "sslCallback")
  \/ Set(t, "sslCallback", "ready")

InitCellHttp(t) == InitStep(t) /\ UNCHANGED vars

-----------------------------------------------------------------------------
(* The threads.                                                              *)

\* The player starts a login.  Nothing in the code keeps it from running while
\* the connection manager thread still is.
LoginStarts(t) ==
  /\ t \in Logins
  /\ At(t, "none", "httpInit")
  /\ UNCHANGED <<vars, current_cellHttp_client, settings>>

\* A transaction cannot be created without a client.
HasClient == step = "create" /\ step' = "send" => current_cellHttp_client # NoClient

ListThread ==
  /\ call[List] = "ready"
  /\ ListNext /\ HasClient
  /\ UNCHANGED clientVars

ClientNext ==
  \/ ListThread
  \/ \E t \in Threads : InitCellHttp(t) \/ LoginStarts(t)

ClientSpec == ClientInit /\ [][ClientNext]_allVars

\* As in CMList: nothing but a failing receive may be withheld from the thread.
ListProceeds ==
  \/ InitCellHttp(List)
  \/ /\ call[List] = "ready"
     /\ InitHttp \/ CallProceeds \/ CallReturns \/ AfterCall
     /\ HasClient
     /\ UNCHANGED clientVars

FairClientSpec == ClientSpec /\ WF_allVars(ListProceeds)

-----------------------------------------------------------------------------
\* Whichever threads run condenstation_init_cellHttp at once, and wherever it
\* fails in each: as soon as no thread is between creating a client and its
\* last setting, the client that requests use has all its settings.  The last
\* thread to create a client finds it still current for every one of them.
ClientConfigured ==
  current_cellHttp_client # NoClient /\ (\A t \in Threads : call[t] \notin Settings)
    => settings[current_cellHttp_client] = Settings

\* An address only ever comes over a client that there is, although the result
\* of the initialisation is not looked at (cellHttpCMList.c:82).
AddressNeedsClient == has_netadr => current_cellHttp_client # NoClient

-----------------------------------------------------------------------------
(* Strengthening, for the proofs.                                            *)

\* What the thread that created the current client has left behind is set.
CreatorSets ==
  LET here == call[current_cellHttp_client]
      set  == settings[current_cellHttp_client]
  IN  /\ here # "version" => "version" \in set
      /\ here \notin {"version", "userAgent"} => "userAgent" \in set
      /\ here \notin Settings => "sslCallback" \in set

\* A thread that makes settings has created a client, and a request that has
\* got past its first call has found one.
ClientPart ==
  /\ \A t \in Threads : call[t] \in Settings => current_cellHttp_client # NoClient
  /\ current_cellHttp_client # NoClient => CreatorSets
RequestPart ==
  /\ step \notin {"create", "failed"} => current_cellHttp_client # NoClient
  /\ pc \notin {"init", "call"} => Returned
  /\ has_netadr \/ pc \in {"split", "parse", "publish"} => step = "ok"
ClientInv == ClientPart /\ RequestPart
=============================================================================
