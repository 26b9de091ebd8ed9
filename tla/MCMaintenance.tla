---------------------------- MODULE MCMaintenance ----------------------------
(* Instances of Maintenance for TLC.                                       *)
EXTENDS Maintenance, TLC

CONSTANTS plain, modern, b1

\* The core b1 refuses one of the configurations, the bundled one the other.
MCRefuses == {<<b1, plain>>, <<Bundled, modern>>}

MaintSymmetry == Permutations(Maintainers) \cup Permutations(Releases)
===============================================================================
