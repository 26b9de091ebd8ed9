---------------------------- MODULE MCSupervisor ----------------------------
(* Instances of Supervisor for TLC.                                        *)
EXTENDS Supervisor, TLC

ProcSymmetry == Permutations(Procs) \cup Permutations(Calls)
===============================================================================
