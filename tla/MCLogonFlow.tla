---------------------------- MODULE MCLogonFlow -----------------------------
(* Instances of LogonFlow for TLC.                                           *)
EXTENDS LogonFlow, TLC

CONSTANTS t1, t2

\* What the configurations let happen: logins that overlap and are not
\* approved; one login at a time, with everything but a change of the URL; and
\* for liveness one login at a time, and logins that overlap and are polled or
\* fail, without a player who cancels or approves them.
MCOverlap     == {"logonDuringLogin", "cancel", "earlyCancel", "newChallengeUrl", "lobbySearch"}
MCOrdered     == Situations \ {"logonDuringLogin", "newChallengeUrl"}
MCLive        == Situations \ {"logonDuringLogin", "welcomeDialog", "logonMessage", "frames"}
MCOverlapLive == {"logonDuringLogin", "rpcFailure"}

\* Threads differ only in their names, and so do the logins they obtain.
MCSymmetry == Permutations(QrThreads)
=============================================================================
