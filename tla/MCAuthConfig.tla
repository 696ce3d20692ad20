---------------------------- MODULE MCAuthConfig ----------------------------
(* Instances of AuthConfig for TLC.                                          *)
EXTENDS AuthConfig, TLC

MCSymmetry == Permutations(Users) \cup Permutations(Savers) \cup Permutations(Tokens)
=============================================================================
