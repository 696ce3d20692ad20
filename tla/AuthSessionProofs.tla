-------------------------- MODULE AuthSessionProofs ---------------------------
(* AuthSession for every size of its buffers, messages and strings, and every *)
(* length of the poll loop.                                                   *)
EXTENDS AuthSession, FiniteSetTheorems, TLAPS

Fields == Names \cup Texts \cup {"page"}

LEMMA BodiesAreSequences ==
  ASSUME NEW fields \in BeginResponses \cup PollResponses
  PROVE  fields \in Seq(Fields) /\ Len(fields) \in Nat
<1>1. /\ "client_id" \in Fields /\ "challenge_url" \in Fields /\ "request_id" \in Fields
      /\ "new_client_id" \in Fields /\ "new_challenge_url" \in Fields
      /\ "refresh_token" \in Fields /\ "access_token" \in Fields /\ "account_name" \in Fields
      /\ "page" \in Fields
  BY DEF Fields, Names, Texts
<1>2. /\ BeginResponse \in Seq(Fields) /\ Renewed \in Seq(Fields)
      /\ Approved \in Seq(Fields) /\ Both \in Seq(Fields)
      /\ ErrorPage \in Seq(Fields) /\ <<>> \in Seq(Fields)
  BY <1>1, SMT DEF BeginResponse, Renewed, Approved, Both, ErrorPage
<1>3. fields \in Seq(Fields)
  BY <1>2 DEF BeginResponses, NoSession, PollResponses, Waiting
<1> QED  BY <1>3

\* A prefix of a response has the fields that are before its end.
LEMMA PrefixIs ==
  ASSUME NEW fields \in Seq(Fields), NEW n \in 0 .. Len(fields)
  PROVE  /\ SubSeq(fields, 1, n) \in Seq(Fields) /\ Len(SubSeq(fields, 1, n)) = n
         /\ \A i \in 1 .. n : SubSeq(fields, 1, n)[i] = fields[i]
         /\ DOMAIN SubSeq(fields, 1, n) = 1 .. n
BY SMT

\* account_name comes last of what is approved.
LEMMA NameIsLast ==
  ASSUME NEW fields \in PollResponses, NEW n \in 0 .. Len(fields),
         "account_name" \in Elements(SubSeq(fields, 1, n))
  PROVE  "refresh_token" \in Elements(SubSeq(fields, 1, n))
<1> DEFINE prefix == SubSeq(fields, 1, n)
<1>1. fields \in Seq(Fields)
  BY BodiesAreSequences
<1>2. /\ DOMAIN prefix = 1 .. n /\ \A i \in 1 .. n : prefix[i] = fields[i]
  BY <1>1, PrefixIs
<1>3. PICK i \in 1 .. n : fields[i] = "account_name"
  BY <1>2 DEF Elements
<1>4. \E j \in 1 .. n : fields[j] = "refresh_token"
  <2>1. CASE fields = Approved
    <3>1. i = 3 /\ Len(fields) = 3 /\ fields[1] = "refresh_token"
      BY <2>1, <1>3 DEF Approved
    <3> QED  BY <3>1
  <2>2. CASE fields = Both
    <3>1. i = 5 /\ Len(fields) = 5 /\ fields[3] = "refresh_token"
      BY <2>2, <1>3 DEF Both
    <3> QED  BY <3>1
  <2>3. CASE fields = Renewed
    BY <2>3, <1>3 DEF Renewed
  <2>4. CASE fields = <<>>
    BY <2>4, <1>3
  <2>5. CASE fields = ErrorPage
    BY <2>5, <1>3 DEF ErrorPage
  <2> QED  BY <2>1, <2>2, <2>3, <2>4, <2>5 DEF PollResponses, Waiting
<1> QED  BY <1>2, <1>4 DEF Elements

\* What was received does not have more fields than the body.
LEMMA FieldsReceived ==
  ASSUME NEW length \in Nat, NEW size \in Nat, size <= length * FieldLength
  PROVE  size \div FieldLength \in 0 .. length
<1> DEFINE q == size \div FieldLength
<1>1. FieldLength \in Nat /\ FieldLength >= 2
  BY ArenaAssumption
<1>2. q \in Nat /\ q * FieldLength <= size
  BY <1>1, SMT
<1>3. ~(q >= length + 1)
  <2> SUFFICES ASSUME q >= length + 1
               PROVE  FALSE
    OBVIOUS
  <2> HIDE DEF q
  <2>1. q * FieldLength >= (length + 1) * FieldLength
    BY <1>1, <1>2, SMT
  <2>2. (length + 1) * FieldLength = length * FieldLength + FieldLength
    BY <1>1, SMT
  <2>3. length * FieldLength \in Nat /\ q * FieldLength \in Nat
    BY <1>1, <1>2, SMT
  <2> QED  BY <2>1, <2>2, <2>3, <1>1, <1>2
<1> QED  BY <1>2, <1>3

LEMMA StringsCounted ==
  ASSUME NEW fields \in Seq(Fields)
  PROVE  /\ Cardinality(Strings(fields)) \in Nat
         /\ Strings(fields) = {} => Cardinality(Strings(fields)) = 0
<1>1. Strings(fields) \subseteq 1 .. Len(fields)
  BY DEF Strings
<1>2. IsFiniteSet(1 .. Len(fields))
  BY FS_Interval
<1>3. IsFiniteSet(Strings(fields))
  BY <1>1, <1>2, FS_Subset
<1> QED  BY <1>3, FS_CardinalityType, FS_EmptySet

-----------------------------------------------------------------------------
(* The inductive invariant.                                                  *)

After == {"act", "store", "tick", "loop", "done"}

Received ==
  /\ recv_bytes \in {0, Len(body) * FieldLength}
  /\ total_recvd <= recv_bytes
  /\ step \in {"destroy", "ok"} => size_output = total_recvd

Closed ==
  /\ step = "ok" => transaction = "destroyed"
  /\ pc \in After => step = "ok"

Bodies ==
  /\ method = "PollAuthSessionStatus" => body \in PollResponses
  /\ method = "BeginAuthSessionViaQR" =>
       body \in BeginResponses /\ begun = (body = BeginResponse)
  /\ \E n \in 0 .. Len(body) : response = SubSeq(body, 1, n)
  /\ pc = "store" => Polling /\ SignedIn
  /\ pc = "tick" => Polling

\* How many messages have been unpacked since the ids were kept.
Messages == timeout + (IF Polling /\ pc \in {"act", "store", "tick"} THEN 1 ELSE 0)

Memory ==
  /\ ~Polling => timeout = 0 /\ (pc \in {"call", "unpack", "loop"} => allocated = 0)
  /\ Polling /\ ~texts => allocated <= Messages * MessageSize
  /\ pc # "done" => timeout <= MaxTimeout

SessionInv == SessionTypeOK /\ Received /\ Closed /\ Bodies /\ Memory

LEMMA SessionInvInit == SessionInit => SessionInv
<1> SUFFICES ASSUME SessionInit
             PROVE  SessionInv
  OBVIOUS
<1> USE DEF SessionInit, Init
<1>1. body \in Seq(Fields) /\ Len(body) \in Nat
  BY BodiesAreSequences
<1>2. Len(response) = 0 /\ response = SubSeq(body, 1, 0)
  BY <1>1
<1>3. SessionTypeOK
  <2>1. TypeOK
    BY SizesAssumption DEF TypeOK, Steps, NotSet
  <2>2. texts \in BOOLEAN /\ begun \in BOOLEAN /\ cut \in BOOLEAN
    BY Zenon
  <2>3. /\ pc \in {"call", "unpack", "act", "store", "tick", "loop", "done", "crashed"}
        /\ method \in {"BeginAuthSessionViaQR", "PollAuthSessionStatus"}
        /\ body \in BeginResponses \cup PollResponses
        /\ Len(response) <= Len(body) /\ allocated \in Nat
        /\ timeout \in 0 .. MaxTimeout + 1
        /\ shown \in Sessions /\ current_client_id \in Sessions
        /\ current_request_id \in RequestIds
    BY <1>1, <1>2, ArenaAssumption DEF Sessions, RequestIds
  <2> QED  BY <2>1, <2>2, <2>3, Zenon DEF SessionTypeOK
<1>4. Bodies
  BY <1>1, <1>2 DEF Bodies, Polling
<1>5. Received /\ Closed /\ Memory
  BY ArenaAssumption DEF Received, Closed, Memory, Polling, After
<1> QED  BY <1>3, <1>4, <1>5 DEF SessionInv

\* The steps of a request leave the login alone.
LEMMA CallKeeps == SessionInv /\ Call => SessionInv'
<1> SUFFICES ASSUME SessionInv, Call
             PROVE  SessionInv'
  OBVIOUS
<1>1. /\ pc = "call" /\ Next /\ recv_bytes' \in {0, Len(body) * FieldLength}
      /\ step' = "recv" => recv_bytes' = Len(body) * FieldLength
  BY DEF Call
<1>2. /\ pc' = pc /\ method' = method /\ body' = body /\ response' = response
      /\ allocated' = allocated /\ timeout' = timeout /\ texts' = texts /\ cut' = cut
      /\ begun' = begun
      /\ shown' = shown /\ current_client_id' = current_client_id
      /\ current_request_id' = current_request_id
  BY DEF Call, sessionVars, memoryVars, nameVars
<1>3. TypeOK /\ Received /\ Closed
  BY DEF SessionInv, SessionTypeOK
<1>4. /\ TypeOK' /\ total_recvd' <= recv_bytes'
      /\ step' \in {"destroy", "ok"} => size_output' = total_recvd'
      /\ step' = "ok" => transaction' = "destroyed"
  <2> USE <1>3, <1>1, SizesAssumption DEF TypeOK, Received, Closed, Steps
  <2>1. CASE ReturnError
    BY <2>1 DEF ReturnError
  <2>2. CASE CreateTransaction
    BY <2>2 DEF CreateTransaction
  <2>3. CASE SendRequest
    BY <2>3 DEF SendRequest
  <2>4. CASE GetStatusCode
    BY <2>4 DEF GetStatusCode
  <2>5. CASE GetContentLength
    BY <2>5 DEF GetContentLength
  <2>6. CASE RecvResponse
    BY <2>6 DEF RecvResponse, Room
  <2>7. CASE EndReceive \/ ReceiveFails
    BY <2>7 DEF EndReceive, ReceiveFails, LeaveLoop
  <2>8. CASE DestroyTransaction
    BY <2>8 DEF DestroyTransaction
  <2> QED  BY <2>1, <2>2, <2>3, <2>4, <2>5, <2>6, <2>7, <2>8 DEF Next, Proceed
<1>5. SessionTypeOK'
  BY <1>2, <1>4 DEF SessionInv, SessionTypeOK
<1>6. Received' /\ Closed'
  BY <1>1, <1>2, <1>4 DEF Received, Closed, After
<1>7. Bodies' /\ Memory'
  BY <1>2 DEF SessionInv, Bodies, Memory, Messages, Polling, SignedIn, Has, Elements
<1> QED  BY <1>5, <1>6, <1>7 DEF SessionInv

\* The parts that a step leaves alone, when it leaves the request alone.
LEMMA RequestStays ==
  ASSUME SessionInv, UNCHANGED httpVars, UNCHANGED body,
         pc' \in After => step = "ok"
  PROVE  TypeOK' /\ Received' /\ Closed'
BY DEF SessionInv, SessionTypeOK, httpVars, TypeOK, Received, Closed

LEMMA CallReturnsKeeps == SessionInv /\ CallReturns => SessionInv'
<1> SUFFICES ASSUME SessionInv, CallReturns
             PROVE  SessionInv'
  OBVIOUS
<1>1. /\ pc = "call" /\ pc' = "unpack" /\ UNCHANGED httpVars
      /\ method' = method /\ body' = body /\ response' = response
      /\ allocated' = allocated /\ timeout' = timeout /\ texts' = texts /\ cut' = cut
      /\ begun' = begun
      /\ shown' = shown /\ current_client_id' = current_client_id
      /\ current_request_id' = current_request_id
  BY DEF CallReturns, Goto, memoryVars, nameVars
<1>2. TypeOK' /\ Received' /\ Closed'
  BY <1>1, RequestStays DEF After
<1>3. SessionTypeOK'
  BY <1>1, <1>2 DEF SessionInv, SessionTypeOK
<1>4. Bodies' /\ Memory'
  BY <1>1 DEF SessionInv, Bodies, Memory, Messages, Polling, SignedIn, Has, Elements
<1> QED  BY <1>2, <1>3, <1>4 DEF SessionInv

LEMMA UnpackFailsKeeps == SessionInv /\ UnpackFails => SessionInv'
<1> SUFFICES ASSUME SessionInv, UnpackFails
             PROVE  SessionInv'
  OBVIOUS
<1>1. /\ pc = "unpack" /\ pc' = "crashed" /\ UNCHANGED httpVars
      /\ method' = method /\ body' = body /\ response' = response
      /\ allocated' = allocated /\ timeout' = timeout /\ texts' = texts /\ cut' = cut
      /\ begun' = begun
      /\ shown' = shown /\ current_client_id' = current_client_id
      /\ current_request_id' = current_request_id
  BY DEF UnpackFails, Goto, memoryVars, nameVars
<1>2. TypeOK' /\ Received' /\ Closed'
  BY <1>1, RequestStays DEF After
<1>3. SessionTypeOK'
  BY <1>1, <1>2 DEF SessionInv, SessionTypeOK
<1>4. Bodies' /\ Memory'
  BY <1>1 DEF SessionInv, Bodies, Memory, Messages, Polling, SignedIn, Has, Elements
<1> QED  BY <1>2, <1>3, <1>4 DEF SessionInv

\* What the response of a poll without strings takes.
LEMMA UnpackKeeps == SessionInv /\ Unpack => SessionInv'
<1> SUFFICES ASSUME SessionInv, Unpack
             PROVE  SessionInv'
  OBVIOUS
<1> DEFINE n == size_output \div FieldLength
<1>1. /\ pc = "unpack" /\ pc' = "act" /\ UNCHANGED httpVars /\ step = "ok"
      /\ method' = method /\ body' = body /\ timeout' = timeout /\ begun' = begun
      /\ shown' = shown /\ current_client_id' = current_client_id
      /\ current_request_id' = current_request_id
      /\ response' = SubSeq(body, 1, n)
      /\ allocated' = allocated + MessageOf(method)
                        + StringSize * Cardinality(Strings(response'))
  BY DEF Unpack, Unpackable, Goto
<1>2. /\ texts' = (texts \/ Strings(response') # {})
      /\ cut' = (cut \/ \E i \in DOMAIN body : i > Len(response') /\ body[i] \in Names)
  BY DEF Unpack
<1>3. texts' \in BOOLEAN /\ begun' \in BOOLEAN /\ cut' \in BOOLEAN
  BY <1>1, <1>2, Zenon DEF SessionInv, SessionTypeOK
<1>4. body \in Seq(Fields) /\ Len(body) \in Nat
  BY BodiesAreSequences DEF SessionInv, SessionTypeOK
<1>5. n \in 0 .. Len(body)
  <2>1. size_output \in Nat /\ size_output = total_recvd /\ total_recvd <= recv_bytes
        /\ recv_bytes \in {0, Len(body) * FieldLength} /\ recv_bytes \in Int
        /\ total_recvd \in Nat
    BY <1>1 DEF SessionInv, SessionTypeOK, TypeOK, Received
  <2>2. Len(body) * FieldLength \in Nat
    BY <1>4, ArenaAssumption, SMT
  <2>3. size_output <= Len(body) * FieldLength
    BY <2>1, <2>2
  <2> QED  BY <2>1, <2>3, <1>4, FieldsReceived
<1> HIDE DEF n
<1>6. response' \in Seq(Fields) /\ Len(response') = n
  BY <1>1, <1>4, <1>5, PrefixIs
<1>7. MessageOf(method) \in Nat /\ (Polling => MessageOf(method) = MessageSize)
  BY ArenaAssumption DEF MessageOf, Polling
<1>8. /\ Cardinality(Strings(response')) \in Nat
      /\ Strings(response') = {} => Cardinality(Strings(response')) = 0
  BY <1>6, StringsCounted
<1>9. /\ StringSize * Cardinality(Strings(response')) \in Nat
      /\ Strings(response') = {} => StringSize * Cardinality(Strings(response')) = 0
  BY <1>8, ArenaAssumption, SMT
<1>10. TypeOK' /\ Received' /\ Closed'
  BY <1>1, RequestStays DEF After
<1>11. SessionTypeOK'
  <2>1. allocated' \in Nat
    BY <1>1, <1>7, <1>9 DEF SessionInv, SessionTypeOK
  <2>2. /\ pc' \in {"call", "unpack", "act", "store", "tick", "loop", "done", "crashed"}
        /\ method' \in {"BeginAuthSessionViaQR", "PollAuthSessionStatus"}
        /\ body' \in BeginResponses \cup PollResponses
        /\ Len(response') <= Len(body')
        /\ timeout' \in 0 .. MaxTimeout + 1
        /\ shown' \in Sessions /\ current_client_id' \in Sessions
        /\ current_request_id' \in RequestIds
    BY <1>1, <1>4, <1>5, <1>6 DEF SessionInv, SessionTypeOK
  <2> QED  BY <1>3, <1>10, <2>1, <2>2, Zenon DEF SessionTypeOK
<1>12. Bodies'
  BY <1>1, <1>5 DEF SessionInv, Bodies, Polling
<1>13. Memory'
  <2>1. CASE Polling
    <3>1. ASSUME ~texts'
          PROVE  allocated' <= Messages' * MessageSize
      <4>1. ~texts /\ Strings(response') = {}
        BY <3>1, <1>2, Zenon
      <4>2. allocated <= Messages * MessageSize /\ Messages = timeout
        BY <2>1, <4>1, <1>1 DEF SessionInv, Memory, Messages, SessionTypeOK
      <4>3. allocated' = allocated + MessageSize /\ Messages' = timeout + 1
        BY <1>1, <1>7, <1>9, <2>1, <4>1 DEF SessionInv, SessionTypeOK, Messages, Polling
      <4>4. (timeout + 1) * MessageSize = timeout * MessageSize + MessageSize
        BY ArenaAssumption, SMT DEF SessionInv, SessionTypeOK
      <4>5. timeout * MessageSize \in Nat /\ MessageSize \in Nat
        BY ArenaAssumption, SMT DEF SessionInv, SessionTypeOK
      <4> QED  BY <4>2, <4>3, <4>4, <4>5 DEF SessionInv, SessionTypeOK
    <3>2. pc' # "done" => timeout' <= MaxTimeout
      BY <1>1 DEF SessionInv, Memory
    <3> QED  BY <2>1, <3>1, <3>2, <1>1, Zenon DEF Memory, Polling
  <2>2. CASE ~Polling
    BY <2>2, <1>1 DEF SessionInv, Memory, Polling
  <2> QED  BY <2>1, <2>2
<1> QED  BY <1>10, <1>11, <1>12, <1>13 DEF SessionInv

LEMMA BeginKeeps == SessionInv /\ Begin => SessionInv'
<1> SUFFICES ASSUME SessionInv, Begin
             PROVE  SessionInv'
  OBVIOUS
<1>1. /\ ~Polling /\ pc = "act" /\ pc' = "loop" /\ UNCHANGED httpVars
      /\ method' = method /\ body' = body /\ response' = response
      /\ allocated' = 0 /\ timeout' = timeout /\ texts' = texts /\ cut' = cut
      /\ begun' = begun
      /\ shown' = Keep("challenge_url", shown) /\ current_client_id' = Keep("client_id", "none")
      /\ current_request_id' \in {"zero", "plain", "none"}
  BY DEF Begin, Goto, Reset
<1>2. TypeOK' /\ Received' /\ Closed'
  BY <1>1, RequestStays DEF SessionInv, Closed, After
<1>3. /\ shown' \in Sessions /\ current_client_id' \in Sessions
      /\ current_request_id' \in RequestIds
  BY <1>1 DEF SessionInv, SessionTypeOK, Sessions, RequestIds, Keep
<1>4. SessionTypeOK'
  BY <1>1, <1>2, <1>3 DEF SessionInv, SessionTypeOK
<1>5. Bodies' /\ Memory'
  BY <1>1 DEF SessionInv, Bodies, Memory, Messages, Polling
<1> QED  BY <1>2, <1>4, <1>5 DEF SessionInv

LEMMA PollKeeps == SessionInv /\ Poll => SessionInv'
<1> SUFFICES ASSUME SessionInv, Poll
             PROVE  SessionInv'
  OBVIOUS
<1>1. /\ Polling /\ pc = "act" /\ pc' = (IF SignedIn THEN "store" ELSE "tick")
      /\ UNCHANGED httpVars
      /\ method' = method /\ body' = body /\ response' = response
      /\ allocated' = allocated /\ timeout' = timeout /\ texts' = texts /\ cut' = cut
      /\ begun' = begun
      /\ shown' = Keep("new_challenge_url", shown)
      /\ current_client_id' = Keep("new_client_id", current_client_id)
      /\ current_request_id' = current_request_id
  BY DEF Poll, Goto, Renew, memoryVars
<1>2. TypeOK' /\ Received' /\ Closed'
  BY <1>1, RequestStays DEF SessionInv, Closed, After
<1>3. shown' \in Sessions /\ current_client_id' \in Sessions
  BY <1>1 DEF SessionInv, SessionTypeOK, Sessions, Keep
<1>4. SessionTypeOK'
  BY <1>1, <1>2, <1>3 DEF SessionInv, SessionTypeOK
<1>5. Bodies' /\ Memory'
  BY <1>1 DEF SessionInv, Bodies, Memory, Messages, Polling, SignedIn, Has, Elements
<1> QED  BY <1>2, <1>4, <1>5 DEF SessionInv

LEMMA StoreKeeps == SessionInv /\ Store => SessionInv'
<1> SUFFICES ASSUME SessionInv, Store
             PROVE  SessionInv'
  OBVIOUS
<1>1. /\ pc = "store" /\ pc' = "done" /\ UNCHANGED httpVars
      /\ method' = method /\ body' = body /\ response' = response
      /\ allocated' = allocated /\ timeout' = timeout + 1 /\ texts' = texts /\ cut' = cut
      /\ begun' = begun
      /\ shown' = shown /\ current_client_id' = current_client_id
      /\ current_request_id' = current_request_id
  BY DEF Store, Goto, nameVars
<1>2. TypeOK' /\ Received' /\ Closed' /\ Polling
  BY <1>1, RequestStays DEF SessionInv, Closed, After, Bodies
<1>3. timeout + 1 \in 0 .. MaxTimeout + 1
  BY <1>1, ArenaAssumption DEF SessionInv, SessionTypeOK, Memory
<1>4. SessionTypeOK'
  BY <1>1, <1>2, <1>3 DEF SessionInv, SessionTypeOK
<1>5. Bodies'
  BY <1>1 DEF SessionInv, Bodies, Polling
<1>6. Memory'
  BY <1>1, <1>2 DEF SessionInv, SessionTypeOK, Memory, Messages, Polling
<1> QED  BY <1>2, <1>4, <1>5, <1>6 DEF SessionInv

LEMMA TickKeeps == SessionInv /\ Tick => SessionInv'
<1> SUFFICES ASSUME SessionInv, Tick
             PROVE  SessionInv'
  OBVIOUS
<1>1. /\ pc = "tick" /\ pc' = (IF timeout' > MaxTimeout THEN "done" ELSE "loop")
      /\ UNCHANGED httpVars
      /\ method' = method /\ body' = body /\ response' = response
      /\ allocated' = allocated /\ timeout' = timeout + 1 /\ texts' = texts /\ cut' = cut
      /\ begun' = begun
      /\ shown' = shown /\ current_client_id' = current_client_id
      /\ current_request_id' = current_request_id
  BY DEF Tick, Goto, nameVars
<1>2. TypeOK' /\ Received' /\ Closed' /\ Polling
  BY <1>1, RequestStays DEF SessionInv, Closed, After, Bodies
<1>3. timeout + 1 \in 0 .. MaxTimeout + 1
  BY <1>1, ArenaAssumption DEF SessionInv, SessionTypeOK, Memory
<1>4. SessionTypeOK'
  BY <1>1, <1>2, <1>3 DEF SessionInv, SessionTypeOK
<1>5. Bodies'
  BY <1>1 DEF SessionInv, Bodies, Polling
<1>6. Memory'
  BY <1>1, <1>2, <1>3, ArenaAssumption DEF SessionInv, SessionTypeOK, Memory, Messages, Polling
<1> QED  BY <1>2, <1>4, <1>5, <1>6 DEF SessionInv

LEMMA NextPollKeeps == SessionInv /\ NextPoll => SessionInv'
<1> SUFFICES ASSUME SessionInv, NextPoll
             PROVE  SessionInv'
  OBVIOUS
<1>1. /\ pc = "loop" /\ pc' = "call" /\ NewRequest /\ method' = "PollAuthSessionStatus"
      /\ body' \in PollResponses /\ response' = <<>>
      /\ allocated' = allocated /\ timeout' = timeout /\ texts' = texts /\ cut' = cut
      /\ begun' = begun
      /\ current_request_id' = current_request_id
  BY DEF NextPoll, Goto, memoryVars
<1>2. shown' \in Sessions /\ current_client_id' \in Sessions
  BY DEF NextPoll, SessionInv, SessionTypeOK, Sessions, Replaced
<1>3. body' \in Seq(Fields) /\ Len(body') \in Nat
  BY <1>1, BodiesAreSequences
<1>4. Len(response') = 0 /\ response' = SubSeq(body', 1, 0)
  BY <1>1, <1>3
<1>5. TypeOK' /\ Received' /\ Closed'
  BY <1>1, SizesAssumption DEF NewRequest, TypeOK, Steps, NotSet, Received, Closed, After
<1>6. SessionTypeOK'
  BY <1>1, <1>2, <1>3, <1>4, <1>5 DEF SessionInv, SessionTypeOK
<1>7. Bodies'
  BY <1>1, <1>3, <1>4 DEF Bodies, Polling
<1>8. Memory'
  <2>1. ~Polling => allocated = 0 /\ timeout = 0
    BY <1>1 DEF SessionInv, Memory
  <2>2. Polling /\ ~texts => allocated <= timeout * MessageSize
    BY <1>1 DEF SessionInv, Memory, Messages, SessionTypeOK
  <2>3. 0 * MessageSize = 0
    BY ArenaAssumption, SMT
  <2>4. ~texts => allocated <= timeout * MessageSize
    BY <2>1, <2>2, <2>3
  <2>5. Messages' = timeout /\ Polling'
    BY <1>1 DEF Messages, Polling, SessionInv, SessionTypeOK
  <2> QED  BY <1>1, <2>4, <2>5 DEF Memory, SessionInv
<1> QED  BY <1>5, <1>6, <1>7, <1>8 DEF SessionInv

LEMMA CancelledKeeps == SessionInv /\ Cancelled => SessionInv'
<1> SUFFICES ASSUME SessionInv, Cancelled
             PROVE  SessionInv'
  OBVIOUS
<1>1. /\ pc = "loop" /\ pc' = "done" /\ UNCHANGED httpVars
      /\ method' = method /\ body' = body /\ response' = response
      /\ allocated' = allocated /\ timeout' = timeout /\ texts' = texts /\ cut' = cut
      /\ begun' = begun
      /\ shown' = shown /\ current_client_id' = current_client_id
      /\ current_request_id' = current_request_id
  BY DEF Cancelled, Goto, memoryVars, nameVars
<1>2. TypeOK' /\ Received' /\ Closed'
  BY <1>1, RequestStays DEF SessionInv, Closed, After
<1>3. SessionTypeOK'
  BY <1>1, <1>2 DEF SessionInv, SessionTypeOK
<1>4. Bodies' /\ Memory'
  BY <1>1 DEF SessionInv, Bodies, Memory, Messages, Polling, SignedIn, Has, Elements
<1> QED  BY <1>2, <1>3, <1>4 DEF SessionInv

LEMMA SessionInvNext == SessionInv /\ [SessionNext]_vars => SessionInv'
<1> SUFFICES ASSUME SessionInv, [SessionNext]_vars
             PROVE  SessionInv'
  OBVIOUS
<1>1. CASE SessionNext
  BY <1>1, CallKeeps, CallReturnsKeeps, UnpackKeeps, UnpackFailsKeeps, BeginKeeps, PollKeeps,
     StoreKeeps, TickKeeps, NextPollKeeps, CancelledKeeps DEF SessionNext
<1>2. CASE UNCHANGED vars
  <2>1. /\ UNCHANGED httpVars /\ pc' = pc
        /\ method' = method /\ body' = body /\ response' = response
        /\ allocated' = allocated /\ timeout' = timeout /\ texts' = texts /\ cut' = cut
        /\ begun' = begun
        /\ shown' = shown /\ current_client_id' = current_client_id
        /\ current_request_id' = current_request_id
    BY <1>2 DEF vars, sessionVars, memoryVars, nameVars
  <2>2. TypeOK' /\ Received' /\ Closed'
    BY <2>1, RequestStays DEF SessionInv, Closed
  <2>3. SessionTypeOK'
    BY <2>1, <2>2 DEF SessionInv, SessionTypeOK
  <2>4. Bodies' /\ Memory'
    BY <2>1 DEF SessionInv, Bodies, Memory, Messages, Polling, SignedIn, Has, Elements
  <2> QED  BY <2>2, <2>3, <2>4 DEF SessionInv
<1> QED  BY <1>1, <1>2

LEMMA SessionInvariant == Spec => []SessionInv
BY SessionInvInit, SessionInvNext, PTL DEF Spec

-----------------------------------------------------------------------------
(* Theorems.                                                                 *)

\* A login keeps its types, and counts no poll too many.
THEOREM SessionTypeCorrect == Spec => []SessionTypeOK
<1>1. SessionInv => SessionTypeOK
  BY DEF SessionInv
<1> QED  BY <1>1, SessionInvariant, PTL

\* However requests fail, a login that goes on has destroyed its last
\* transaction (cellHttpSteamAuthentication.c:72-111).
THEOREM TransactionsAlwaysClosed == Spec => []TransactionsClosed
<1>1. SessionInv => TransactionsClosed
  BY DEF SessionInv, Closed, TransactionsClosed, After
<1> QED  BY <1>1, SessionInvariant, PTL

\* Wherever a response was cut off, refresh_token, which is copied without a
\* test, is there when account_name is (steam_login_flow_qr.c:186-190).
THEOREM StoredIsAlwaysThere == Spec => []StoredIsThere
<1>1. SessionInv => StoredIsThere
  <2> SUFFICES ASSUME SessionInv, pc = "store"
               PROVE  Has("account_name") /\ Has("refresh_token")
    BY DEF StoredIsThere
  <2>1. Has("account_name") /\ body \in PollResponses
    BY DEF SessionInv, Bodies, SignedIn, Polling
  <2>2. PICK n \in 0 .. Len(body) : response = SubSeq(body, 1, n)
    BY DEF SessionInv, Bodies
  <2> QED  BY <2>1, <2>2, NameIsLast DEF Has
<1> QED  BY <1>1, SessionInvariant, PTL

\* For every size of the messages and every length of the loop, waiting fits the
\* buffer of the allocator up to the last poll but one.
THEOREM WaitingAlwaysFits == Spec => []WaitingFits
<1>1. SessionInv => WaitingFits
  <2> SUFFICES ASSUME SessionInv, Polling, ~texts, timeout < MaxTimeout
               PROVE  allocated <= ArenaSize
    BY DEF WaitingFits
  <2>1. /\ timeout \in Nat /\ allocated \in Nat /\ Messages \in Nat /\ Messages <= timeout + 1
        /\ allocated <= Messages * MessageSize
    BY DEF SessionInv, SessionTypeOK, Memory, Messages
  <2>2. Messages <= MaxTimeout
    BY <2>1, ArenaAssumption
  <2>3. /\ MaxTimeout \in Nat /\ MessageSize \in Nat /\ ArenaSize \in Nat
        /\ MaxTimeout * MessageSize <= ArenaSize
    BY ArenaAssumption
  <2> HIDE DEF Messages
  <2>4. Messages * MessageSize <= MaxTimeout * MessageSize
    BY <2>1, <2>2, <2>3, SMT
  <2>5. Messages * MessageSize \in Nat /\ MaxTimeout * MessageSize \in Nat
    BY <2>1, <2>3, SMT
  <2> QED  BY <2>1, <2>3, <2>4, <2>5
<1> QED  BY <1>1, SessionInvariant, PTL

-----------------------------------------------------------------------------
(* The code on the screen, and the session that is polled for.               *)

NamesUnpacked ==
  pc = "act" /\ ~cut => \A i \in DOMAIN body : body[i] \in Names => i <= Len(response)

Asking ==
  \/ pc = "loop"
  \/ Polling /\ pc \in {"call", "unpack", "act", "tick", "store"}

AskInv ==
  /\ NamesUnpacked
  /\ ~Polling /\ pc \in {"call", "unpack", "act"} => shown = "none"
  /\ Asking /\ ~cut =>
       /\ shown = current_client_id
       /\ begun => shown # "none" /\ current_request_id # "none"
       /\ ~begun => current_request_id = "none"
       /\ shown = "old" => /\ pc \in {"call", "unpack", "act"}
                          /\ "new_client_id" \in Elements(body)

\* Of a response that is not cut off before a name, every name is unpacked.
LEMMA NamesAreThere ==
  ASSUME SessionInv, NamesUnpacked, pc = "act", ~cut, NEW f \in Names, f \in Elements(body)
  PROVE  Has(f)
<1>1. body \in Seq(Fields)
  BY BodiesAreSequences DEF SessionInv, SessionTypeOK
<1>2. PICK n \in 0 .. Len(body) : response = SubSeq(body, 1, n)
  BY DEF SessionInv, Bodies
<1>3. PICK i \in DOMAIN body : body[i] = f
  BY DEF Elements
<1>4. i \in 1 .. n /\ response[i] = f /\ DOMAIN response = 1 .. n
  <2>1. Len(response) = n /\ DOMAIN response = 1 .. n /\ \A j \in 1 .. n : response[j] = body[j]
    BY <1>1, <1>2, PrefixIs
  <2>2. i <= n
    BY <1>3, <2>1 DEF NamesUnpacked
  <2>3. i \in 1 .. n
    BY <1>1, <1>3, <2>2
  <2> QED  BY <1>3, <2>1, <2>3
<1> QED  BY <1>4 DEF Has, Elements

\* What is unpacked has been sent.
LEMMA UnpackedIsSent ==
  ASSUME SessionInv, NEW f \in Fields, Has(f)
  PROVE  f \in Elements(body)
<1>1. body \in Seq(Fields)
  BY BodiesAreSequences DEF SessionInv, SessionTypeOK
<1>2. PICK n \in 0 .. Len(body) : response = SubSeq(body, 1, n)
  BY DEF SessionInv, Bodies
<1>3. PICK i \in 1 .. n : response[i] = f /\ body[i] = f
  BY <1>1, <1>2, PrefixIs DEF Has, Elements
<1> QED  BY <1>1, <1>3 DEF Elements

LEMMA RenewedNamesBoth ==
  ASSUME NEW fields \in PollResponses, "new_client_id" \in Elements(fields)
  PROVE  "new_challenge_url" \in Elements(fields)
<1>1. CASE fields = Renewed \/ fields = Both
  <2>1. 2 \in DOMAIN fields /\ fields[2] = "new_challenge_url"
    BY <1>1 DEF Renewed, Both
  <2> QED  BY <2>1 DEF Elements
<1>2. CASE fields = Approved \/ fields = ErrorPage \/ fields = <<>>
  <2>1. \A i \in DOMAIN fields : fields[i] # "new_client_id"
    BY <1>2 DEF Approved, ErrorPage
  <2> QED  BY <2>1 DEF Elements
<1> QED  BY <1>1, <1>2 DEF PollResponses, Waiting

LEMMA UrlNamesBoth ==
  ASSUME NEW fields \in PollResponses, "new_challenge_url" \in Elements(fields)
  PROVE  "new_client_id" \in Elements(fields)
<1>1. CASE fields = Renewed \/ fields = Both
  <2>1. 1 \in DOMAIN fields /\ fields[1] = "new_client_id"
    BY <1>1 DEF Renewed, Both
  <2> QED  BY <2>1 DEF Elements
<1>2. CASE fields = Approved \/ fields = ErrorPage \/ fields = <<>>
  <2>1. \A i \in DOMAIN fields : fields[i] # "new_challenge_url"
    BY <1>2 DEF Approved, ErrorPage
  <2> QED  BY <2>1 DEF Elements
<1> QED  BY <1>1, <1>2 DEF PollResponses, Waiting

LEMMA BeginNamesAll ==
  {"client_id", "challenge_url", "request_id"} \subseteq Elements(BeginResponse)
<1>1. /\ DOMAIN BeginResponse = 1 .. 3 /\ BeginResponse[1] = "client_id"
      /\ BeginResponse[2] = "challenge_url" /\ BeginResponse[3] = "request_id"
  BY DEF BeginResponse
<1> QED  BY <1>1 DEF Elements

\* A server that starts no session names none.
LEMMA RefusalNamesNone ==
  ASSUME SessionInv, body \in {NoSession, ErrorPage}, NEW f \in Names
  PROVE  ~Has(f)
<1>1. body \in Seq(Fields) /\ (\A i \in DOMAIN body : body[i] = "page")
  <2>1. body \in Seq(Fields)
    BY BodiesAreSequences DEF SessionInv, SessionTypeOK
  <2>2. CASE body = <<>>
    BY <2>1, <2>2
  <2>3. CASE body = ErrorPage
    BY <2>1, <2>3 DEF ErrorPage
  <2> QED  BY <2>1, <2>2, <2>3 DEF NoSession
<1>2. PICK n \in 0 .. Len(body) : response = SubSeq(body, 1, n)
  BY DEF SessionInv, Bodies
<1>3. \A i \in DOMAIN response : response[i] = "page"
  BY <1>1, <1>2, PrefixIs
<1>4. f # "page"
  BY DEF Names
<1> QED  BY <1>3, <1>4 DEF Has, Elements

LEMMA AskInvInit == SessionInit => AskInv
BY DEF SessionInit, AskInv, NamesUnpacked, Asking, Polling

LEMMA AskInvNext == SessionInv /\ AskInv /\ [SessionNext]_vars => AskInv'
<1> SUFFICES ASSUME SessionInv, AskInv, [SessionNext]_vars
             PROVE  AskInv'
  OBVIOUS
<1>1. CASE Call \/ CallReturns \/ UnpackFails \/ Cancelled \/ Store \/ Tick \/ UNCHANGED vars
  <2>1. /\ body' = body /\ response' = response /\ cut' = cut /\ method' = method
        /\ shown' = shown /\ current_client_id' = current_client_id
        /\ current_request_id' = current_request_id /\ begun' = begun
        /\ \/ pc' = pc
           \/ pc = "call" /\ pc' = "unpack"
           \/ pc = "tick" /\ pc' = "loop"
           \/ pc' \in {"crashed", "done"}
    BY <1>1 DEF Call, CallReturns, UnpackFails, Cancelled, Store, Tick, Goto, vars, sessionVars,
                memoryVars, nameVars
  <2>2. pc = "tick" => Polling
    BY DEF SessionInv, Bodies
  <2> QED  BY <2>1, <2>2 DEF AskInv, NamesUnpacked, Asking, Polling, Elements
<1>2. CASE Unpack
  <2>1. /\ body' = body /\ method' = method /\ pc = "unpack" /\ pc' = "act"
        /\ shown' = shown /\ current_client_id' = current_client_id
        /\ current_request_id' = current_request_id /\ begun' = begun
    BY <1>2 DEF Unpack, Goto
  <2>2. cut' = (cut \/ \E i \in DOMAIN body : i > Len(response') /\ body[i] \in Names)
    BY <1>2 DEF Unpack
  <2>3. ~cut' => ~cut /\ \A i \in DOMAIN body : ~(i > Len(response') /\ body[i] \in Names)
    BY <2>2, Zenon
  <2>4. SessionInv'
    BY <1>2, UnpackKeeps
  <2>5. body \in Seq(Fields) /\ Len(response') \in Int
    <3>1. body \in Seq(Fields)
      BY BodiesAreSequences DEF SessionInv, SessionTypeOK
    <3>2. PICK n \in 0 .. Len(body) : response' = SubSeq(body, 1, n)
      BY <2>1, <2>4 DEF SessionInv, Bodies
    <3> QED  BY <3>1, <3>2, PrefixIs
  <2>6. NamesUnpacked'
    BY <2>1, <2>3, <2>5 DEF NamesUnpacked
  <2> QED  BY <2>1, <2>3, <2>6 DEF AskInv, Asking, Polling, Elements
<1>3. CASE Begin
  <2>1. /\ ~Polling /\ pc = "act" /\ pc' = "loop" /\ cut' = cut
        /\ shown' = Keep("challenge_url", shown)
        /\ current_client_id' = Keep("client_id", "none")
        /\ current_request_id' \in IF Has("request_id") THEN {"zero", "plain"} ELSE {"none"}
    BY <1>3 DEF Begin, Goto
  <2>2. body \in BeginResponses /\ begun = (body = BeginResponse) /\ begun' = begun
    BY <1>3, <2>1 DEF Begin, SessionInv, SessionTypeOK, Bodies, Polling
  <2>3. begun /\ ~cut => Has("challenge_url") /\ Has("client_id") /\ Has("request_id")
    BY <2>1, <2>2, BeginNamesAll, NamesAreThere DEF AskInv, Names
  <2>4. ~begun => ~Has("challenge_url") /\ ~Has("client_id") /\ ~Has("request_id")
    BY <2>2, RefusalNamesNone DEF BeginResponses, Names
  <2>5. shown = "none"
    BY <2>1 DEF AskInv
  <2>6. method' = method
    BY <1>3 DEF Begin
  <2>7. NamesUnpacked'
    BY <2>1 DEF NamesUnpacked
  <2>8. CASE begun
    <3>1. ~cut => shown' = "current" /\ current_client_id' = "current"
                  /\ current_request_id' \in {"zero", "plain"}
      BY <2>1, <2>3, <2>8 DEF Keep
    <3> QED  BY <2>1, <2>2, <2>7, <2>8, <3>1 DEF AskInv
  <2>9. CASE ~begun
    <3>1. shown' = "none" /\ current_client_id' = "none" /\ current_request_id' = "none"
      BY <2>1, <2>4, <2>5, <2>9 DEF Keep
    <3> QED  BY <2>1, <2>2, <2>7, <2>9, <3>1 DEF AskInv
  <2> QED  BY <2>8, <2>9
<1>4. CASE Poll
  <2>1. /\ Polling /\ pc = "act" /\ pc' \in {"store", "tick"} /\ cut' = cut
        /\ shown' = Keep("new_challenge_url", shown)
        /\ current_client_id' = Keep("new_client_id", current_client_id)
        /\ current_request_id' = current_request_id
    BY <1>4 DEF Poll, Goto, Renew
  <2>2. ~cut => /\ shown = current_client_id
                /\ begun => shown # "none" /\ current_request_id # "none"
                /\ ~begun => current_request_id = "none"
                /\ shown = "old" => "new_client_id" \in Elements(body)
    BY <2>1 DEF AskInv, Asking
  <2>3. body \in PollResponses
    BY <2>1 DEF SessionInv, Bodies, Polling
  <2>4. ~cut => (Has("new_client_id") <=> Has("new_challenge_url"))
    <3>1. {"new_client_id", "new_challenge_url"} \subseteq Names \cap Fields
      BY DEF Names, Fields
    <3>2. Has("new_client_id") => "new_challenge_url" \in Elements(body)
      BY <2>3, <3>1, RenewedNamesBoth, UnpackedIsSent
    <3>3. Has("new_challenge_url") => "new_client_id" \in Elements(body)
      BY <2>3, <3>1, UrlNamesBoth, UnpackedIsSent
    <3> QED  BY <2>1, <3>1, <3>2, <3>3, NamesAreThere DEF AskInv
  <2>5. ~cut /\ shown = "old" => Has("new_client_id") /\ Has("new_challenge_url")
    BY <2>1, <2>2, <2>3, <2>4, NamesAreThere DEF AskInv, Names
  <2>6. ~cut => /\ shown' = current_client_id' /\ shown' # "old"
                /\ begun => shown' # "none"
    BY <2>1, <2>2, <2>4, <2>5 DEF Keep
  <2>7. begun' = begun /\ method' = method
    BY <1>4 DEF Poll
  <2> QED  BY <2>1, <2>2, <2>6, <2>7 DEF AskInv, NamesUnpacked, Polling
<1>5. CASE NextPoll
  <2>1. /\ pc = "loop" /\ pc' = "call" /\ cut' = cut /\ current_request_id' = current_request_id
        /\ begun' = begun /\ method' = "PollAuthSessionStatus"
    BY <1>5 DEF NextPoll, Goto, memoryVars
  <2>2. IF "new_client_id" \in Elements(body')
        THEN shown' = Replaced(shown) /\ current_client_id' = Replaced(current_client_id)
        ELSE shown' = shown /\ current_client_id' = current_client_id
    BY <1>5 DEF NextPoll
  <2>3. ~cut => /\ shown = current_client_id /\ shown # "old"
                /\ begun => shown # "none" /\ current_request_id # "none"
                /\ ~begun => current_request_id = "none"
    BY <2>1 DEF AskInv, Asking
  <2>4. ~cut => /\ shown' = current_client_id' /\ (begun => shown' # "none")
                /\ shown' = "old" => "new_client_id" \in Elements(body')
    BY <2>2, <2>3 DEF Replaced
  <2>5. Elements(body)' = Elements(body')
    BY DEF Elements
  <2> QED  BY <2>1, <2>3, <2>4, <2>5 DEF AskInv, NamesUnpacked, Polling
<1> QED  BY <1>1, <1>2, <1>3, <1>4, <1>5 DEF SessionNext

\* Unless a response was cut off, the polls ask for the session of the code that
\* is on the screen, and for none, without a request id, when the server has
\* refused to start one (steam_login_flow_qr.c:103-185).
THEOREM PollsAlwaysAskForShown == Spec => []PollsAskForShown
<1>1. AskInv => PollsAskForShown
  BY DEF AskInv, Asking, PollsAskForShown, Trimmed
<1>2. SessionInv /\ SessionInv' /\ AskInv /\ [SessionNext]_vars => AskInv'
  BY AskInvNext
<1> QED  BY <1>1, <1>2, AskInvInit, SessionInvariant, PTL DEF Spec
=============================================================================
