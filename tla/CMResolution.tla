---------------------------- MODULE CMResolution ----------------------------
(* What the "condenstation_CMList" thread promises the rest of the plugin:   *)
(* it decides once, either that the address of a Steam connection manager is *)
(* known (has_netadr) or that logging on is impossible (has_fatal_error),    *)
(* and never takes the decision back.  CMList.tla is the thread itself.      *)

VARIABLES
  has_netadr,       \* netadr_to_use holds the address handed to CCMInterface
  has_fatal_error   \* fatal_error_text is shown by the next interactive logon

resolutionVars == <<has_netadr, has_fatal_error>>

TypeOK ==
  /\ has_netadr \in BOOLEAN
  /\ has_fatal_error \in BOOLEAN

Init ==
  /\ has_netadr = FALSE
  /\ has_fatal_error = FALSE

Undecided == ~has_netadr /\ ~has_fatal_error

\* SetCMNetadr: has_netadr is set whether or not the text parsed as an address.
Resolve ==
  /\ Undecided
  /\ has_netadr' = TRUE
  /\ UNCHANGED has_fatal_error

\* set_fatal_error, from one of the three error exits of get_cm_thread.
Fail ==
  /\ Undecided
  /\ has_fatal_error' = TRUE
  /\ UNCHANGED has_netadr

Next == Resolve \/ Fail

Spec == Init /\ [][Next]_resolutionVars
=============================================================================
