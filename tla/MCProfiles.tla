------------------------------ MODULE MCProfiles ------------------------------
(* Instances of Profiles for TLC.                                          *)
EXTENDS Profiles, TLC

ProfSymmetry == Permutations(Requests) \cup Permutations(Docs)
===============================================================================
