------------------------------ MODULE MCSettings ------------------------------
(* Instances of Settings for TLC.                                          *)
EXTENDS Settings, TLC

CONSTANTS
  bind, tun, ctl, providers, enable, stack,
  star, addr, blank, null, on, off, mixed, ours, theirs, outside

MCFixed(k)   == ours
MCChoices(f) == IF f = bind THEN {star} ELSE {on, off}

\* String(v || '*') and Boolean(v): an empty address shows as the default.
MCShown(f, v) ==
  CASE f = bind /\ v \in {blank, null, Unset} -> star
    [] f = bind /\ v \in Leaves \ {blank, null} -> v
    [] f = bind /\ v \in Flat                 -> outside
    [] OTHER                                  -> IF v = on THEN on ELSE off

\* bindAddress || '*'
MCSent(f, x) == IF f = bind /\ x = blank THEN star ELSE x

\* The values the core can read.
MCAccepts(doc) ==
  doc[bind] \notin Flat /\ doc[tun] \in Flat \cup {null, Unset}

Tun(e, s) == enable :> e @@ stack :> s
Conf(b, t, c, p) == bind :> b @@ tun :> t @@ ctl :> c @@ providers :> p

\* A full document, and one the helper refuses.
MCUploads == {
  Conf(blank, Tun(on, mixed), theirs, Unset),
  Conf(addr, Unset, Unset, Tun(outside, Unset))}

\* A part of a map beside what the helper fixes, and a path.
MCPatches == {
  Conf(Unset, Tun(off, Unset), Unset, Unset),
  Conf(Unset, Unset, Unset, Tun(outside, Unset))}

\* What the core says of itself; a core that does not answer only disables the
\* button.
MCCoreAnswers ==
  {[online |-> TRUE, report |-> Conf(star, Tun(off, Unset), Unset, Unset)]}

SettingsSymmetry == Permutations(Handlers)
===============================================================================
