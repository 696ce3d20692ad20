-------------------------- MODULE HttpTransaction ---------------------------
(* One cellHttp request as SteamGetCMList and SteamAuthenticationRPC make    *)
(* it: the transaction handle, the calls that may fail, and the loop that    *)
(* receives the response into a buffer of fixed size.  cellHttp itself is    *)
(* external: each of its calls succeeds or fails, and the server chooses the *)
(* content length it announces.                                              *)
EXTENDS Integers

CONSTANTS
  BufferSize,   \* *size_output on entry (8192 and 2048 in the source)
  MaxContent    \* bound on the content length a server announces

ASSUME SizesAssumption == BufferSize \in Nat /\ MaxContent \in Nat

VARIABLES
  step,         \* the call that comes next
  transaction,  \* "none", "open" or "destroyed"
  recv_bytes,   \* the announced content length
  total_recvd,  \* bytes received so far
  size_output   \* what *size_output is set to; NotSet if it is not

httpVars == <<step, transaction, recv_bytes, total_recvd, size_output>>

\* An error return leaves *size_output as the caller initialised it.
NotSet == BufferSize

Steps == {"create", "send", "status", "length", "recv", "destroy", "ok", "failed"}

TypeOK ==
  /\ step \in Steps
  /\ transaction \in {"none", "open", "destroyed"}
  /\ recv_bytes \in 0 .. MaxContent
  /\ total_recvd \in Nat
  /\ size_output \in Nat

Init ==
  /\ step = "create"
  /\ transaction = "none"
  /\ recv_bytes = 0
  /\ total_recvd = 0
  /\ size_output = NotSet

\* The caller makes another request: its variables are those of a new call.
NewRequest ==
  /\ step' = "create"
  /\ transaction' = "none"
  /\ recv_bytes' = 0
  /\ total_recvd' = 0
  /\ size_output' = NotSet

\* Any of the first four calls may fail, and the function then returns at once.
ReturnError ==
  /\ step \in {"create", "send", "status", "length"}
  /\ step' = "failed"
  /\ UNCHANGED <<transaction, recv_bytes, total_recvd, size_output>>

CreateTransaction ==
  /\ step = "create"
  /\ step' = "send"
  /\ transaction' = "open"
  /\ UNCHANGED <<recv_bytes, total_recvd, size_output>>

SendRequest ==
  /\ step = "send"
  /\ step' = "status"
  /\ UNCHANGED <<transaction, recv_bytes, total_recvd, size_output>>

\* The status code is read and logged, and not looked at.
GetStatusCode ==
  /\ step = "status"
  /\ step' = "length"
  /\ UNCHANGED <<transaction, recv_bytes, total_recvd, size_output>>

GetContentLength ==
  /\ step = "length"
  /\ step' = "recv"
  /\ recv_bytes' \in 0 .. MaxContent
  /\ UNCHANGED <<transaction, total_recvd, size_output>>

Room == BufferSize - total_recvd

\* A fault: the whole buffer is offered again for every piece.
RecvResponseWhole ==
  /\ step = "recv"
  /\ total_recvd < recv_bytes
  /\ \E n \in 1 .. BufferSize : total_recvd' = total_recvd + n
  /\ UNCHANGED <<step, transaction, recv_bytes, size_output>>

\* cellHttpRecvResponse fills at most the room that is left, with no more than
\* the rest of the body, and blocks until there is something to return, so it
\* returns nothing only into a full buffer.
RecvResponse ==
  /\ step = "recv"
  /\ total_recvd < recv_bytes
  /\ \E n \in 0 .. Room :
       /\ n = 0 => Room = 0
       /\ total_recvd + n <= recv_bytes
       /\ total_recvd' = total_recvd + n
  /\ UNCHANGED <<step, transaction, recv_bytes, size_output>>

\* Complete or cut short, what was received counts as the response.
LeaveLoop ==
  /\ step = "recv"
  /\ step' = "destroy"
  /\ size_output' = total_recvd
  /\ UNCHANGED <<transaction, recv_bytes, total_recvd>>

\* The loop condition fails.
EndReceive == total_recvd >= recv_bytes /\ LeaveLoop

\* A receive that fails breaks the loop, without an error return.
ReceiveFails == total_recvd < recv_bytes /\ LeaveLoop

\* A fault: the response is there, but the transaction is not destroyed.
DestroyForgotten ==
  /\ step = "destroy"
  /\ step' = "ok"
  /\ UNCHANGED <<transaction, recv_bytes, total_recvd, size_output>>

DestroyTransaction ==
  /\ step = "destroy"
  /\ step' = "ok"
  /\ transaction' = "destroyed"
  /\ UNCHANGED <<recv_bytes, total_recvd, size_output>>

\* What the request does when no receive fails.
Proceed ==
  \/ ReturnError
  \/ CreateTransaction \/ SendRequest \/ GetStatusCode \/ GetContentLength
  \/ RecvResponse \/ EndReceive \/ DestroyTransaction

Next == Proceed \/ ReceiveFails

Returned == step \in {"ok", "failed"}

\* The response never runs over the buffer it is received into.
BufferNotOverrun == total_recvd <= BufferSize
=============================================================================
