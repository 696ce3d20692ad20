----------------------------- MODULE HookAtomic -----------------------------
(* What hooking a function promises: the hook is installed at one instant,   *)
(* and every call runs the original function exactly once, after the hook if *)
(* and only if the hook was installed when the call was made.                *)

CONSTANT Callers

VARIABLES
  installed,   \* the function is hooked
  stage        \* how far each thread's call is

vars == <<installed, stage>>

Stages == {"idle", "called", "hooked", "calling", "body"}

TypeOK == installed \in BOOLEAN /\ stage \in [Callers -> Stages]

Init == installed = FALSE /\ stage = [c \in Callers |-> "idle"]

Install == installed' = TRUE /\ UNCHANGED stage

Move(c, from, to) ==
  /\ stage[c] = from
  /\ stage' = [stage EXCEPT ![c] = to]
  /\ UNCHANGED installed

Call(c)         == Move(c, "idle", "called")
Enter(c)        == Move(c, "called", IF installed THEN "hooked" ELSE "body")
CallOriginal(c) == Move(c, "hooked", "calling")
RunOriginal(c)  == Move(c, "calling", "body")
Return(c)       == Move(c, "body", "idle")

Next ==
  \/ Install
  \/ \E c \in Callers : Call(c) \/ Enter(c) \/ CallOriginal(c) \/ RunOriginal(c) \/ Return(c)

Spec == Init /\ [][Next]_vars
=============================================================================
