------------------------------- MODULE CMList -------------------------------
(* get_cm_thread: the thread that asks the Steam Web API for a connection    *)
(* manager, cuts the first address out of the response and publishes it, or  *)
(* queues a fatal error.  Of the response body only what the cutting depends *)
(* on is kept: whether it begins with the expected text, how many characters *)
(* precede the closing quote and whether they are a dotted address, with or  *)
(* without a port.  splitIP is a local array that is neither initialised nor *)
(* terminated: the parser reads on into what the stack holds behind the      *)
(* characters copied, of which only its effect on the parser is kept.        *)
EXTENDS HttpTransaction

CONSTANTS
  PrefixLength,   \* strlen("{\"response\":{\"serverlist\":[\""), 28
  MinLength,      \* responses of at most this length are too short, 50
  MaxSplit,       \* characters splitIP has room for, 23
  MaxAddress      \* length of the longest dotted address with a port, 21

\* With the sizes of the source: 28 + 21 + 1 <= 50 + 1 and 21 < 23.
ASSUME LengthsAssumption ==
  /\ PrefixLength \in Nat /\ MinLength \in Nat /\ MaxSplit \in Nat /\ MaxAddress \in Nat
  /\ PrefixLength + MaxAddress <= MinLength
  /\ MaxAddress < MaxSplit

\* Text longer than an address fills splitIP, whatever more there is of it.
Bodies ==
  {b \in [expected : BOOLEAN, length : 0 .. MaxSplit + 1, numeric : BOOLEAN, port : BOOLEAN] :
     /\ b.numeric => b.length \in 1 .. MaxAddress
     /\ b.port => b.numeric}

\* The bytes behind the copied ones: a digit, which goes on with the number
\* read last; a colon and a number, which is a port if there is none yet; or
\* anything that ends the address, a zero among others.
StackBytes == {"digit", "colon", "ends"}

\* What is parsed, compared with the address the server sent.
Addresses == {"unset", "right", "wrongPort", "wrongHost"}

VARIABLES
  pc,               \* where the thread is
  body,             \* the complete response the server sends
  taken,            \* characters of the first address copied to splitIP
  behind,           \* what the stack holds behind them
  netadr_to_use,
  has_netadr,
  has_fatal_error

threadVars == <<pc, body, taken, behind, netadr_to_use, has_netadr, has_fatal_error>>
vars == <<httpVars, threadVars>>

CM == INSTANCE CMResolution

ListTypeOK ==
  /\ TypeOK
  /\ pc \in {"init", "call", "check", "split", "parse", "publish", "done"}
  /\ body \in Bodies
  /\ taken \in 0 .. MaxSplit
  /\ behind \in StackBytes
  /\ netadr_to_use \in Addresses
  /\ has_netadr \in BOOLEAN /\ has_fatal_error \in BOOLEAN

ListInit ==
  /\ Init
  /\ pc = "init"
  /\ body \in Bodies
  /\ taken = 0
  /\ behind \in StackBytes
  /\ netadr_to_use = "unset"
  /\ CM!Init

Goto(from, to) == pc = from /\ pc' = to

\* condenstation_init_cellHttp; its result is logged only.
InitHttp ==
  /\ Goto("init", "call")
  /\ UNCHANGED <<httpVars, body, behind, taken, netadr_to_use, has_netadr, has_fatal_error>>

Call ==
  /\ pc = "call"
  /\ Next
  /\ UNCHANGED threadVars

CallReturns ==
  /\ Returned
  /\ Goto("call", "check")
  /\ UNCHANGED <<httpVars, body, behind, taken, netadr_to_use, has_netadr, has_fatal_error>>

\* Connection failed, response too short, response not the expected one.
Unusable == step = "failed" \/ size_output <= MinLength \/ ~body.expected

\* Two faults: the thread goes on after the error, or exits without a word.
SetFatalErrorGoesOn ==
  /\ Unusable
  /\ Goto("check", "split")
  /\ has_fatal_error' = TRUE
  /\ UNCHANGED <<httpVars, body, behind, taken, netadr_to_use, has_netadr>>
SetFatalErrorForgotten ==
  /\ Unusable
  /\ Goto("check", "done")
  /\ UNCHANGED <<httpVars, body, behind, taken, netadr_to_use, has_netadr, has_fatal_error>>

\* set_fatal_error and the exit of the thread.
SetFatalError ==
  /\ Unusable
  /\ Goto("check", "done")
  /\ has_fatal_error' = TRUE
  /\ UNCHANGED <<httpVars, body, behind, taken, netadr_to_use, has_netadr>>

\* A fault: the length limit only covers the text before the address.
AcceptShort ==
  /\ step = "ok" /\ size_output > PrefixLength /\ body.expected
  /\ Goto("check", "split")
  /\ UNCHANGED <<httpVars, body, behind, taken, netadr_to_use, has_netadr, has_fatal_error>>

Accept ==
  /\ ~Unusable
  /\ Goto("check", "split")
  /\ UNCHANGED <<httpVars, body, behind, taken, netadr_to_use, has_netadr, has_fatal_error>>

Smallest(S) == CHOOSE n \in S : \A m \in S : n <= m

\* Two faults: the size of splitIP is not looked at, and the address is
\* announced before it is stored.
SplitUnbounded ==
  /\ Goto("split", "parse")
  /\ taken' = Smallest({body.length, size_output - PrefixLength})
  /\ UNCHANGED <<httpVars, body, behind, netadr_to_use, has_netadr, has_fatal_error>>
SplitAnnouncing ==
  /\ Goto("split", "parse")
  /\ taken' = Smallest({body.length, size_output - PrefixLength, MaxSplit})
  /\ has_netadr' = TRUE
  /\ UNCHANGED <<httpVars, body, behind, netadr_to_use, has_fatal_error>>

\* The copying loop stops at the closing quote, at the end of what was
\* received, or when splitIP is full.
SplitAddress ==
  /\ Goto("split", "parse")
  /\ taken' = Smallest({body.length, size_output - PrefixLength, MaxSplit})
  /\ UNCHANGED <<httpVars, body, behind, netadr_to_use, has_netadr, has_fatal_error>>

\* What sscanf makes of the copied characters and of those behind them.
Parsed ==
  CASE behind = "ends"  -> "right"
    [] behind = "colon" -> IF body.port THEN "right" ELSE "wrongPort"
    [] behind = "digit" -> IF body.port THEN "wrongPort" ELSE "wrongHost"

\* IPaddrToNetadr.  It leaves netadr_to_use alone if the text is not an address;
\* text that is not a whole one may become one with the bytes behind it.
ParseAddress ==
  /\ Goto("parse", "publish")
  /\ IF body.numeric /\ taken = body.length
       THEN netadr_to_use' = Parsed
       ELSE netadr_to_use' \in {netadr_to_use, "wrongPort", "wrongHost"}
  /\ UNCHANGED <<httpVars, body, behind, taken, has_netadr, has_fatal_error>>

\* The rest of SetCMNetadr: has_netadr is set whatever became of the parsing.
Publish ==
  /\ Goto("publish", "done")
  /\ has_netadr' = TRUE
  /\ UNCHANGED <<httpVars, body, behind, taken, netadr_to_use, has_fatal_error>>

AfterCall == SetFatalError \/ Accept \/ SplitAddress \/ ParseAddress \/ Publish

ListNext == InitHttp \/ Call \/ CallReturns \/ AfterCall

Spec == ListInit /\ [][ListNext]_vars

\* The thread is scheduled and the calls return.  A receive need not ever fail,
\* so fairness must not be what ends the loop.
CallProceeds == pc = "call" /\ Proceed /\ UNCHANGED threadVars
FairSpec == Spec /\ WF_vars(InitHttp \/ CallProceeds \/ CallReturns \/ AfterCall)

-----------------------------------------------------------------------------
\* Whatever the network delivers of the response, a numeric address that is
\* announced is the server's: to the letter if the stack behind splitIP ends
\* it, and all but the port if the server sent one.  An address without a port
\* is at the mercy of that stack (cellHttpCMList.c:108-122).
AddressAsSent ==
  has_netadr /\ body.numeric =>
    /\ behind = "ends" => netadr_to_use = "right"
    /\ body.port => netadr_to_use \in {"right", "wrongPort"}

\* When has_netadr is seen set, a numeric address is already in netadr_to_use.
AddressBeforeFlag == has_netadr /\ body.numeric => netadr_to_use # "unset"

\* The thread decides once between an address and a fatal error, and never
\* takes it back: what LogonFlow assumes of it.
Resolution == CM!Spec

\* It does decide, unless the server announces more than the buffer holds; it
\* may then receive nothing for ever.
Decides == <>(has_netadr \/ has_fatal_error \/ recv_bytes > BufferSize)

\* Strengthening, for the proofs: the thread has decided nothing before it is
\* done, cuts only responses that are long enough, parses only addresses that
\* were copied to the end, and stores before it tells.
ListInv ==
  /\ pc # "done" => CM!Undecided
  /\ pc = "split" => size_output > MinLength
  /\ pc = "parse" /\ body.numeric => taken = body.length
  /\ pc = "publish" /\ body.numeric => netadr_to_use = Parsed
  /\ has_netadr /\ body.numeric => netadr_to_use = Parsed
=============================================================================
