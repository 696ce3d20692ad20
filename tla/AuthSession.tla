----------------------------- MODULE AuthSession ----------------------------
(* The requests of one QR login: each SteamAuthenticationRPC is a request of *)
(* HttpTransaction, its response is unpacked into the memory of a bump       *)
(* allocator, and acted upon.  A response is the sequence of its fields, in  *)
(* the order of their numbers, of which a failing receive leaves a part.     *)
(* Globals shared with other threads are the matter of LogonFlow: here the   *)
(* loop may find auth_session_running cleared at any time.                   *)
EXTENDS HttpTransaction, Sequences, FiniteSets

CONSTANTS
  ArenaSize,      \* sizeof(shitalloc_buffer), 1024
  MessageSize,    \* what unpacking a poll response without strings allocates, 56
  BeginSize,      \* what unpacking the response of BeginAuthSessionViaQR allocates
  StringSize,     \* what a string of a poll response allocates
  FieldLength,    \* length of a field in a response
  MaxTimeout      \* the loop ends when timeout exceeds this, 18

\* A field takes at least two bytes, its tag and its value, and 18 unpacked poll
\* responses fit the buffer if they hold no string, as do 18 * 56 bytes in 1024.
ASSUME ArenaAssumption ==
  /\ {ArenaSize, MessageSize, BeginSize, StringSize, MaxTimeout} \subseteq Nat
  /\ FieldLength \in Nat /\ FieldLength >= 2
  /\ MaxTimeout * MessageSize <= ArenaSize

\* A server that starts no session answers with nothing, the reason in a header, or
\* with a page that is no message: neither the status nor the header is looked at.
NoSession     == <<>>
ErrorPage     == <<"page">>
BeginResponse == <<"client_id", "challenge_url", "request_id">>
BeginResponses == {BeginResponse, NoSession, ErrorPage}
Approved      == <<"refresh_token", "access_token", "account_name">>
Waiting       == <<>>
Renewed       == <<"new_client_id", "new_challenge_url">>
Both          == <<"new_client_id", "new_challenge_url", "refresh_token", "access_token",
                   "account_name">>
PollResponses == {Waiting, Renewed, Approved, Both, ErrorPage}
Names == {"client_id", "challenge_url", "request_id", "new_client_id", "new_challenge_url"}
Texts == {"new_challenge_url", "refresh_token", "access_token", "account_name"}

VARIABLES
  pc,             \* where the thread is
  method,         \* the RPC that is called or was called last
  body,           \* the complete response of the server to it
  response,       \* the fields unpacked from what was received
  allocated,      \* allocdata.allocated
  timeout,
  texts,          \* strings have been unpacked by this login (ghost)
  shown,          \* whose code is on the screen, seen from the server
  current_client_id,
  current_request_id,
  begun,          \* the server has started a session for this login (ghost)
  cut             \* a response with names in it was cut off before one (ghost)

memoryVars  == <<allocated, timeout, texts>>
nameVars    == <<shown, current_client_id, current_request_id, begun, cut>>
sessionVars == <<pc, method, body, response, memoryVars, nameVars>>
vars == <<httpVars, sessionVars>>

\* The session that a code or a client id belongs to: the one the server has
\* now, one it has replaced, or none.
Sessions == {"none", "old", "current"}

\* A request id is missing, has a last byte of zero, or has another.
RequestIds == {"none", "zero", "plain"}

SessionTypeOK ==
  /\ TypeOK
  /\ pc \in {"call", "unpack", "act", "store", "tick", "loop", "done", "crashed"}
  /\ method \in {"BeginAuthSessionViaQR", "PollAuthSessionStatus"}
  /\ body \in BeginResponses \cup PollResponses
  /\ Len(response) <= Len(body)
  /\ allocated \in Nat
  /\ timeout \in 0 .. MaxTimeout + 1
  /\ texts \in BOOLEAN /\ begun \in BOOLEAN /\ cut \in BOOLEAN
  /\ shown \in Sessions /\ current_client_id \in Sessions
  /\ current_request_id \in RequestIds

SessionInit ==
  /\ Init
  /\ pc = "call" /\ method = "BeginAuthSessionViaQR"
  /\ body \in BeginResponses
  /\ begun = (body = BeginResponse)
  /\ response = <<>>
  /\ allocated = 0
  /\ timeout = 0
  /\ texts = FALSE /\ cut = FALSE
  /\ shown = "none" /\ current_client_id = "none" /\ current_request_id = "none"

Goto(from, to) == pc = from /\ pc' = to
Polling == method = "PollAuthSessionStatus"

-----------------------------------------------------------------------------
(* SteamAuthenticationRPC, and the unpacking.                                *)

\* The content length announced is that of the body.
Call ==
  /\ pc = "call"
  /\ Next
  /\ recv_bytes' \in {0, Len(body) * FieldLength}
  /\ step' = "recv" => recv_bytes' = Len(body) * FieldLength
  /\ UNCHANGED sessionVars

\* The thread does not look at the result.
CallReturns ==
  /\ Returned
  /\ Goto("call", "unpack")
  /\ UNCHANGED <<httpVars, method, body, response, memoryVars, nameVars>>

\* What was received consists of whole fields, or nothing was received: no part of
\* a page unpacks.  After an error return it is the whole of out_buffer, with bytes
\* behind the last message that are none.
Unpackable ==
  /\ step = "ok" /\ size_output % FieldLength = 0
  /\ body = ErrorPage => size_output = 0

\* unpack allocates the message before it looks at the bytes.
MessageOf(m) == IF m = "PollAuthSessionStatus" THEN MessageSize ELSE BeginSize
Strings(fields) == {i \in DOMAIN fields : fields[i] \in Texts}

Unpack ==
  /\ Unpackable
  /\ Goto("unpack", "act")
  /\ response' = SubSeq(body, 1, size_output \div FieldLength)
  /\ allocated' = allocated + MessageOf(method)
                    + StringSize * Cardinality(Strings(response'))
  /\ texts' = (texts \/ Strings(response') # {})
  /\ cut' = (cut \/ \E i \in DOMAIN body : i > Len(response') /\ body[i] \in Names)
  /\ UNCHANGED <<httpVars, method, body, timeout, shown, current_client_id,
                 current_request_id, begun>>

\* unpack returns NULL, and the thread reads through it.
UnpackFails ==
  /\ ~Unpackable
  /\ Goto("unpack", "crashed")
  /\ UNCHANGED <<httpVars, method, body, response, memoryVars, nameVars>>

-----------------------------------------------------------------------------
(* What the thread does with a response.                                     *)

Elements(fields) == {fields[i] : i \in DOMAIN fields}

Has(field) == field \in Elements(response)

\* QRoverlay_start_displaying_qr and the ids: what the server has sent last.
Keep(field, id) == IF Has(field) THEN "current" ELSE id

\* A fault: the allocator is not reset.
ResetForgotten == UNCHANGED allocated

Reset == allocated' = 0

\* The ids are kept, the memory of the response is not.  A response without them is
\* not told apart from one with them: the client id is then 0 and the request id
\* empty.  The request id is copied to current_request_id, 32 bytes, in whatever
\* length it has: the server is taken to send one that fits.
Begin ==
  /\ ~Polling
  /\ Goto("act", "loop")
  /\ Reset
  /\ shown' = Keep("challenge_url", shown)
  /\ current_client_id' = Keep("client_id", "none")
  /\ current_request_id' \in IF Has("request_id") THEN {"zero", "plain"} ELSE {"none"}
  /\ UNCHANGED <<httpVars, method, body, response, timeout, texts, begun, cut>>

\* A fault: the access token alone is looked at.
SignedInByToken == Has("access_token")

\* The thread stores account_name and refresh_token.
SignedIn == Has("account_name") /\ Has("access_token")

\* A fault: the new client id is only logged.
RenewForgotten ==
  /\ shown' = Keep("new_challenge_url", shown)
  /\ UNCHANGED current_client_id

Renew ==
  /\ shown' = Keep("new_challenge_url", shown)
  /\ current_client_id' = Keep("new_client_id", current_client_id)

Poll ==
  /\ Polling
  /\ Goto("act", IF SignedIn THEN "store" ELSE "tick")
  /\ Renew
  /\ UNCHANGED <<httpVars, method, body, response, memoryVars, current_request_id, begun, cut>>

\* Copies the strings, and ends the loop.
Store ==
  /\ Goto("store", "done")
  /\ timeout' = timeout + 1
  /\ UNCHANGED <<httpVars, method, body, response, allocated, texts, nameVars>>

\* A fault: one poll more.
TickLate ==
  /\ timeout' = timeout + 1
  /\ Goto("tick", IF timeout > MaxTimeout THEN "done" ELSE "loop")
  /\ UNCHANGED <<httpVars, method, body, response, allocated, texts, nameVars>>

Tick ==
  /\ timeout' = timeout + 1
  /\ Goto("tick", IF timeout' > MaxTimeout THEN "done" ELSE "loop")
  /\ UNCHANGED <<httpVars, method, body, response, allocated, texts, nameVars>>

\* The packed request ends with the request id, or with its length of zero: one
\* zero there is taken for padding, and cut off.
Trimmed == current_request_id \in {"none", "zero"}

\* A server that renews the session replaces the one there was.
Replaced(id) == IF id = "current" THEN "old" ELSE id

\* auth_session_running is still set: the next poll, and the answer to it.
NextPoll ==
  /\ Goto("loop", "call")
  /\ NewRequest
  /\ method' = "PollAuthSessionStatus"
  /\ body' \in PollResponses
  /\ response' = <<>>
  /\ IF "new_client_id" \in Elements(body')
     THEN shown' = Replaced(shown) /\ current_client_id' = Replaced(current_client_id)
     ELSE UNCHANGED <<shown, current_client_id>>
  /\ UNCHANGED <<memoryVars, current_request_id, begun, cut>>

\* The login was cancelled.
Cancelled ==
  /\ Goto("loop", "done")
  /\ UNCHANGED <<httpVars, method, body, response, memoryVars, nameVars>>

SessionNext ==
  \/ Call \/ CallReturns \/ Unpack \/ UnpackFails
  \/ Begin \/ Poll \/ Store \/ Tick \/ NextPoll \/ Cancelled

Spec == SessionInit /\ [][SessionNext]_vars

-----------------------------------------------------------------------------
\* A login that goes on has destroyed the transaction of its last request: the
\* error returns that do not are followed by a crash.
TransactionsClosed ==
  pc \in {"act", "store", "tick", "loop", "done"} => transaction = "destroyed"

\* Wherever a response was cut off, all the strings that are copied out of it
\* are there: the test of account_name and access_token is enough for
\* refresh_token, which is not tested.
StoredIsThere == pc = "store" => Has("account_name") /\ Has("refresh_token")

\* Memory for unpacked responses: as long as they hold no string, it lasts for
\* the polls that MaxTimeout is the count of.
WaitingFits ==
  Polling /\ ~texts /\ timeout < MaxTimeout => allocated <= ArenaSize

\* Unless a response was cut off, the polls (steam_login_flow_qr.c:151-167) ask for
\* the session of the very code that is shown, however often the server has
\* replaced it.  If the server has started a session, there is a code to approve,
\* and only a zero at the end of the request id keeps the polls from being whole.
\* If it has not, nobody looked at its refusal: the polls go out all the same,
\* without a request id.
PollsAskForShown ==
  Polling /\ pc \in {"call", "tick", "loop"} /\ ~cut =>
    /\ shown = current_client_id
    /\ pc # "call" => shown # "old"
    /\ begun => shown # "none" /\ (Trimmed => current_request_id = "zero")
    /\ ~begun => current_request_id = "none"

\* Memory for unpacked responses: max_size (steam_login_flow_qr.c:20, 67) is
\* never exceeded.
ArenaHolds == Polling => allocated <= ArenaSize
=============================================================================
