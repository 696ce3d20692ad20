----------------------------- MODULE MCStartup ------------------------------
(* Instances of Startup for TLC.                                             *)
EXTENDS Startup

Layout(orig, stub, hook, caller, clientToc, pluginToc, typeName, engine) ==
  [orig |-> orig, stub |-> stub, hook |-> hook, caller |-> caller, clientToc |-> clientToc,
   pluginToc |-> pluginToc, typeName |-> typeName, engine |-> engine]

\* The plugin above the Steam client and below it, as far away as a branch
\* reaches, with addresses around the sign boundary of the lower half.
MCLayouts ==
  {Layout(\h01800100, \h02A00000, \h02A10000, \h01850000, \h018C8000, \h02B07FF0,
          \h01897FFF, \h018D8000),
   Layout(\h03000000, \h01000008, \h01020000, \h02000000, \h03110000, \h01098000,
          \h03098000, \h030A7FFC)}

MCFirstWord == \h7C0802A6

MCFound == {Interfaces \cup UrlStrings, (Interfaces \ {"matchmaking"}) \cup {"full"}, {}}

MCFieldSize == [f \in Enabled \cup {"others"} |->
  CASE f = "psn_ticket" -> 7 [] f = "psn_service" -> 5 [] f = "account_name" -> 3
    [] f = "remember_password" -> 2 [] f = "others" -> 11]
=============================================================================
