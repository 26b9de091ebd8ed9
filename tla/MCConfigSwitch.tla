---------------------------- MODULE MCConfigSwitch ----------------------------
(* Instances of ConfigSwitch for TLC.                                      *)
EXTENDS ConfigSwitch, TLC

MCConfigs == Contents \cup {Torn}

\* Every good document, and a bad one.
MCUploads == {c \in Contents : c.doc \in BadDocs => c.opts = NoOptions}

\* Documents that all set the setting, as the overrides do.
MCSetting == {c \in Contents : (c.doc \in BadDocs) <=> (c.opts = NoOptions)}

ConfSymmetry == UNION {Permutations(S) : S \in {Procs, Editors, Vals}}
===============================================================================
