------------------------------ MODULE MCCMList ------------------------------
(* The connection manager thread beside a login thread, for TLC: the sizes   *)
(* of the source scaled down, with every boundary kept (PrefixLength +       *)
(* MaxAddress = MinLength - 1 and MaxAddress = MaxSplit - 2).                *)
EXTENDS HttpClient
=============================================================================
