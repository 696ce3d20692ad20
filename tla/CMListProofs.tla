---------------------------- MODULE CMListProofs ----------------------------
(* CMList for every size of its buffers: types, the receive loop, the        *)
(* address that is published, and the refinement of CMResolution.            *)
EXTENDS CMList, TLAPS

\* The least of three numbers, when one of them is known to be.
LEMMA SmallestOfThree ==
  ASSUME NEW a \in Int, NEW b \in Int, NEW c \in Int
  PROVE  /\ Smallest({a, b, c}) \in {a, b, c}
         /\ Smallest({a, b, c}) <= a /\ Smallest({a, b, c}) <= b /\ Smallest({a, b, c}) <= c
<1>1. \E n \in {a, b, c} : \A m \in {a, b, c} : n <= m
  <2>1. CASE a <= b /\ a <= c  BY <2>1
  <2>2. CASE b <= a /\ b <= c  BY <2>2
  <2>3. CASE c <= a /\ c <= b  BY <2>3
  <2> QED  BY <2>1, <2>2, <2>3
<1> QED  BY <1>1, Zenon DEF Smallest

-----------------------------------------------------------------------------
(* Types and the receive loop.                                               *)

Safe == ListTypeOK /\ BufferNotOverrun /\ ListInv

LEMMA SafeInit == ListInit => Safe
<1> SUFFICES ASSUME ListInit PROVE Safe  OBVIOUS
<1> USE SizesAssumption, LengthsAssumption
<1>1. TypeOK /\ BufferNotOverrun
  BY DEF ListInit, Init, TypeOK, Steps, NotSet, BufferNotOverrun
<1>2. has_netadr \in BOOLEAN /\ has_fatal_error \in BOOLEAN
  BY Zenon DEF ListInit, CM!Init
<1>3. taken \in 0 .. MaxSplit
  BY DEF ListInit
<1>4. ListTypeOK
  BY <1>1, <1>2, <1>3 DEF ListInit, ListTypeOK, Addresses
<1>5. ListInv
  BY DEF ListInit, ListInv, CM!Init, CM!Undecided
<1> QED  BY <1>1, <1>4, <1>5 DEF Safe

\* A step of the request keeps the request's types and its buffer.
LEMMA RequestStep ==
  ASSUME TypeOK, BufferNotOverrun, Next
  PROVE  TypeOK' /\ BufferNotOverrun'
<1> USE SizesAssumption DEF TypeOK, Steps, BufferNotOverrun
<1>1. CASE ReturnError  BY <1>1 DEF ReturnError
<1>2. CASE CreateTransaction  BY <1>2 DEF CreateTransaction
<1>3. CASE SendRequest  BY <1>3 DEF SendRequest
<1>4. CASE GetStatusCode  BY <1>4 DEF GetStatusCode
<1>5. CASE GetContentLength  BY <1>5 DEF GetContentLength
<1>6. CASE RecvResponse  BY <1>6 DEF RecvResponse, Room
<1>7. CASE EndReceive  BY <1>7 DEF EndReceive, LeaveLoop
<1>8. CASE DestroyTransaction  BY <1>8 DEF DestroyTransaction
<1>9. CASE ReceiveFails  BY <1>9 DEF ReceiveFails, LeaveLoop
<1> QED
  BY <1>1, <1>2, <1>3, <1>4, <1>5, <1>6, <1>7, <1>8, <1>9 DEF Next, Proceed

\* What the copying loop takes: never more than splitIP holds, and a numeric
\* address in full.
LEMMA Taken ==
  ASSUME ListTypeOK, ListInv, pc = "split"
  PROVE  LET n == Smallest({body.length, size_output - PrefixLength, MaxSplit})
         IN  n \in 0 .. MaxSplit /\ (body.numeric => n = body.length)
<1> DEFINE n == Smallest({body.length, size_output - PrefixLength, MaxSplit})
<1> USE LengthsAssumption
<1>1. /\ body \in Bodies /\ body.length \in 0 .. MaxSplit + 1 /\ body.numeric \in BOOLEAN
      /\ body.numeric => body.length \in 1 .. MaxAddress
  BY DEF ListTypeOK, Bodies
<1>2. size_output \in Nat /\ size_output > MinLength
  BY DEF ListTypeOK, TypeOK, ListInv
<1>3. /\ n \in {body.length, size_output - PrefixLength, MaxSplit}
      /\ n <= body.length /\ n <= size_output - PrefixLength /\ n <= MaxSplit
  <2>1. body.length \in Int /\ size_output - PrefixLength \in Int /\ MaxSplit \in Int
    BY <1>1, <1>2
  <2> QED  BY <2>1, SmallestOfThree, Zenon
<1> HIDE DEF n
<1>4. n \in 0 .. MaxSplit
  BY <1>1, <1>2, <1>3
<1>5. ASSUME body.numeric PROVE n = body.length
  BY <1>1, <1>2, <1>3, <1>5
<1> QED  BY <1>4, <1>5 DEF n

LEMMA SafeStep == Safe /\ [ListNext]_vars => Safe'
<1> SUFFICES ASSUME Safe, [ListNext]_vars PROVE Safe'  OBVIOUS
<1> USE DEF Safe
<1>1. CASE InitHttp
  BY <1>1 DEF InitHttp, Goto, httpVars, ListTypeOK, TypeOK, BufferNotOverrun, ListInv,
              Parsed, CM!Undecided
<1>2. CASE Call
  <2>1. TypeOK' /\ BufferNotOverrun'
    BY <1>2, RequestStep DEF Call, ListTypeOK
  <2> QED
    BY <1>2, <2>1 DEF Call, threadVars, ListTypeOK, ListInv, Parsed, CM!Undecided
<1>3. CASE CallReturns
  BY <1>3 DEF CallReturns, Goto, httpVars, ListTypeOK, TypeOK, BufferNotOverrun, ListInv,
              Parsed, CM!Undecided
<1>4. CASE SetFatalError
  BY <1>4 DEF SetFatalError, Goto, httpVars, ListTypeOK, TypeOK, BufferNotOverrun, ListInv,
              Parsed, CM!Undecided
<1>5. CASE Accept
  <2>1. size_output > MinLength
    BY <1>5, LengthsAssumption DEF Accept, Unusable, ListTypeOK, TypeOK
  <2> QED
    BY <1>5, <2>1 DEF Accept, Goto, httpVars, ListTypeOK, TypeOK, BufferNotOverrun, ListInv,
                      Parsed, CM!Undecided
<1>6. CASE SplitAddress
  <2>1. taken' \in 0 .. MaxSplit /\ (body.numeric => taken' = body.length)
    BY <1>6, Taken DEF SplitAddress, Goto
  <2> QED
    BY <1>6, <2>1 DEF SplitAddress, Goto, httpVars, ListTypeOK, TypeOK, BufferNotOverrun, ListInv,
                      Parsed, CM!Undecided
<1>7. CASE ParseAddress
  <2>1. behind \in StackBytes /\ netadr_to_use \in Addresses
    BY DEF ListTypeOK
  <2>2. netadr_to_use' \in Addresses /\ (body.numeric => netadr_to_use' = Parsed)
    BY <1>7, <2>1 DEF ParseAddress, Goto, ListInv, Parsed, StackBytes, Addresses
  <2> QED
    BY <1>7, <2>2 DEF ParseAddress, Goto, httpVars, ListTypeOK, TypeOK, BufferNotOverrun, ListInv,
                      Parsed, CM!Undecided
<1>8. CASE Publish
  BY <1>8 DEF Publish, Goto, httpVars, ListTypeOK, TypeOK, BufferNotOverrun, ListInv,
              Parsed, CM!Undecided
<1>9. CASE UNCHANGED vars
  BY <1>9 DEF vars, httpVars, threadVars, ListTypeOK, TypeOK, BufferNotOverrun, ListInv,
              Parsed, CM!Undecided
<1> QED
  BY <1>1, <1>2, <1>3, <1>4, <1>5, <1>6, <1>7, <1>8, <1>9 DEF ListNext, AfterCall

LEMMA AlwaysSafe == Spec => []Safe
<1>1. ListInit => Safe  BY SafeInit
<1>2. Safe /\ [ListNext]_vars => Safe'  BY SafeStep
<1> QED  BY <1>1, <1>2, PTL DEF Spec

-----------------------------------------------------------------------------
(* The theorems.                                                             *)

\* Every variable keeps its type: splitIP is never overrun either.
THEOREM ListTypeCorrect == Spec => []ListTypeOK
<1>1. Safe => ListTypeOK  BY DEF Safe
<1> QED  BY <1>1, AlwaysSafe, PTL

\* However the response is cut into pieces and however long it is announced to
\* be, the receive loop of SteamGetCMList stays inside the caller's buffer.
THEOREM ReceiveInBounds == Spec => []BufferNotOverrun
<1>1. Safe => BufferNotOverrun  BY DEF Safe
<1> QED  BY <1>1, AlwaysSafe, PTL

\* A numeric address that get_cm_thread announces is the server's, as far as
\* the bytes behind the unterminated splitIP let it be ...
THEOREM AddressSound == Spec => []AddressAsSent
<1>1. Safe => AddressAsSent
  BY DEF Safe, ListInv, ListTypeOK, Bodies, StackBytes, Parsed, AddressAsSent
<1> QED  BY <1>1, AlwaysSafe, PTL

\* ... and is stored before it is announced.
THEOREM AddressStoredFirst == Spec => []AddressBeforeFlag
<1>1. Safe => AddressBeforeFlag
  BY DEF Safe, ListInv, ListTypeOK, StackBytes, Parsed, AddressBeforeFlag
<1> QED  BY <1>1, AlwaysSafe, PTL

\* get_cm_thread implements the one-shot decision that LogonFlow is built on.
THEOREM ImplementsResolution == Spec => Resolution
<1>1. ListInit => CM!Init
  BY DEF ListInit
<1>2. Safe /\ [ListNext]_vars => [CM!Next]_(CM!resolutionVars)
  <2> SUFFICES ASSUME ListInv, [ListNext]_vars PROVE [CM!Next]_(CM!resolutionVars)
    BY DEF Safe
  <2> USE DEF CM!resolutionVars
  <2>1. CASE SetFatalError
    BY <2>1 DEF SetFatalError, Goto, ListInv, CM!Next, CM!Fail
  <2>2. CASE Publish
    BY <2>2 DEF Publish, Goto, ListInv, CM!Next, CM!Resolve
  <2>3. CASE UNCHANGED <<has_netadr, has_fatal_error>>
    BY <2>3
  <2> QED
    BY <2>1, <2>2, <2>3 DEF ListNext, AfterCall, InitHttp, Call, CallReturns, Accept, SplitAddress,
                            ParseAddress, threadVars, vars
<1> QED  BY <1>1, <1>2, AlwaysSafe, PTL DEF Spec, Resolution, CM!Spec
=============================================================================
