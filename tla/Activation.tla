------------------------------ MODULE Activation ------------------------------
(***************************************************************************)
(* What the rest of the helper sees of an activation                       *)
(* (internal/helper/helper.go: activatePrepared): a configuration the core *)
(* accepts takes the place of active.yaml and stays there, or what was     *)
(* there comes back.  An upload or a patch does it; maintenance, which     *)
(* reads and tests active.yaml at times of its own, lives with it.         *)
(***************************************************************************)
CONSTANT Nil

VARIABLES
  active,   \* active.yaml, or Nil
  edit,     \* the activation under way: how far it is, what will be active
            \* (until the rename), and what was active
  accepted  \* the configurations the core in force accepts; never constrained

activationVars == <<active, edit>>

NoEdit           == [stage |-> "none", new |-> Nil, old |-> Nil]
Tested(new, old) == [stage |-> "tested", new |-> new, old |-> old]
Renamed(old)     == [stage |-> "renamed", new |-> Nil, old |-> old]

ActivationInit == active = Nil /\ edit = NoEdit

\* The core accepts the candidate.
Accept ==
  /\ edit = NoEdit
  /\ \E config \in accepted : edit' = Tested(config, active)
  /\ UNCHANGED active

\* The candidate takes the place of active.yaml.
Replace ==
  /\ edit.stage = "tested"
  /\ active' = edit.new
  /\ edit' = Renamed(edit.old)

\* It stays; or the activation gives up, or is cut off with its helper.
Finish ==
  /\ edit' = NoEdit
  /\ UNCHANGED active

\* The core cannot be started, and what was active comes back.
Undo ==
  /\ edit.stage = "renamed" /\ edit.old # Nil
  /\ active' = edit.old
  /\ edit' = NoEdit

ActivationNext == Accept \/ Replace \/ Finish \/ Undo

ActivationSpec == ActivationInit /\ [][ActivationNext]_activationVars
===============================================================================
