------------------------------ MODULE CoreService ------------------------------
(***************************************************************************)
(* What the helper's supervisor promises about core processes, without     *)
(* saying how (internal/helper/helper.go: start, stop, wait): there is at  *)
(* most one current core; a core that is told to go leaves and never       *)
(* becomes current again; every core that has left the current place is    *)
(* known until it is gone, and it does go.                                 *)
(***************************************************************************)
CONSTANTS Procs, Nil

VARIABLES
  current,  \* the core that serves, or Nil
  leaving   \* cores that were told to go and have not been collected

svcVars == <<current, leaving>>

SvcInit == current = Nil /\ leaving = {}

\* start(): a process that is neither current nor leaving becomes current.
Appoint(p) ==
  /\ current = Nil
  /\ p \notin leaving
  /\ current' = p
  /\ UNCHANGED leaving

\* stop(): the current core is told to go.
Dismiss ==
  /\ current # Nil
  /\ leaving' = leaving \cup {current}
  /\ current' = Nil

\* The current core exits by itself.
Lose ==
  /\ current # Nil
  /\ current' = Nil
  /\ UNCHANGED leaving

\* A core that was told to go has gone.
Gone(p) ==
  /\ p \in leaving
  /\ leaving' = leaving \ {p}
  /\ UNCHANGED current

\* The helper ends, and whoever runs it sees to the rest.
End ==
  /\ current' = Nil
  /\ leaving' = {}

SvcNext ==
  \/ \E p \in Procs : Appoint(p) \/ Gone(p)
  \/ Dismiss \/ Lose \/ End

SvcSpec == SvcInit /\ [][SvcNext]_svcVars

SvcFairSpec == SvcSpec /\ \A p \in Procs : WF_svcVars(Gone(p))
===============================================================================
