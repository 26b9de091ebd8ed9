------------------------------ MODULE MCSessions ------------------------------
(* Instances of Sessions for TLC.                                          *)
EXTENDS Sessions, TLC

SessSymmetry ==
  Permutations(Requests) \cup Permutations(Passwords) \cup Permutations(Tokens)
===============================================================================
