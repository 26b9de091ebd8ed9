---------------------------- MODULE LoginLimiter ----------------------------
(***************************************************************************)
(* How often an address may try to log in (internal/app/server.go:         *)
(* allowLogin, recordLogin, login).  Addresses are independent, so there   *)
(* is one.  loginAttempts[ip] is a set of slots, each with the age of a    *)
(* failed attempt instead of its time: a slot is taken for an append and   *)
(* freed when allowLogin drops what is older than the window.  Admission   *)
(* and record are apart by the time a password takes to verify, and other  *)
(* logins come between.                                                    *)
(***************************************************************************)
EXTENDS Naturals, FiniteSets

CONSTANTS
  Requests,  \* logins at once
  Slots,     \* bound: failures the list can hold
  Limit,     \* 8 in the code
  Window,    \* ten minutes, in ticks
  Nil

ASSUME LimiterAssumption ==
  /\ Limit \in Nat \ {0}
  /\ Window \in Nat \ {0}
  /\ Nil \notin Nat
  /\ IsFiniteSet(Requests)
  /\ IsFiniteSet(Slots)
  /\ Cardinality(Slots) >= Limit + Cardinality(Requests)

VARIABLES
  age,  \* of the failure in a slot, at most Window; Nil in a free slot
  pc    \* "idle", or "verify" between allowLogin and the outcome

limVars == <<age, pc>>

LimInit ==
  /\ age = [k \in Slots |-> Nil]
  /\ pc = [r \in Requests |-> "idle"]

Recorded  == {k \in Slots : age[k] # Nil}
Recent    == {k \in Recorded : age[k] < Window}
Verifying == {r \in Requests : pc[r] = "verify"}

\* allowLogin keeps the recent attempts only, whatever it answers.
Prune == age' = [k \in Slots |-> IF k \in Recent THEN age[k] ELSE Nil]

\* Mutant of Admit: one attempt more.
AdmitOneMore(r) ==
  /\ pc[r] = "idle"
  /\ Cardinality(Recent) <= Limit
  /\ Prune
  /\ pc' = [pc EXCEPT ![r] = "verify"]

Admit(r) ==
  /\ pc[r] = "idle"
  /\ Cardinality(Recent) < Limit
  /\ Prune
  /\ pc' = [pc EXCEPT ![r] = "verify"]

\* Mutant of Refuse: what is refused is recorded too.
RefuseAndRecord(r) ==
  /\ pc[r] = "idle"
  /\ Cardinality(Recent) >= Limit
  /\ \E k \in Recent : age' = [age EXCEPT ![k] = 0]
  /\ UNCHANGED pc

\* 429, and nothing is recorded.
Refuse(r) ==
  /\ pc[r] = "idle"
  /\ Cardinality(Recent) >= Limit
  /\ Prune
  /\ UNCHANGED pc

Done(r) == pc[r] = "verify" /\ pc' = [pc EXCEPT ![r] = "idle"]

\* recordLogin: a wrong name or password.
Fail(r) ==
  /\ Done(r)
  /\ \E k \in Slots \ Recorded : age' = [age EXCEPT ![k] = 0]

\* The body cannot be decoded, or the password is right.
Leave(r) == Done(r) /\ UNCHANGED age

\* Time; a failure older than the window is not told from one just past it.
Tick ==
  /\ age' = [k \in Slots |-> IF k \in Recent THEN age[k] + 1 ELSE age[k]]
  /\ UNCHANGED pc

\* The map is in the server's memory.
Restart ==
  /\ age' = [k \in Slots |-> Nil]
  /\ pc' = [r \in Requests |-> "idle"]

LimNext ==
  \/ \E r \in Requests : Admit(r) \/ Refuse(r) \/ Fail(r) \/ Leave(r)
  \/ Tick \/ Restart

LimSpec == LimInit /\ [][LimNext]_limVars

\* Time goes by; nobody has to come back or to finish.
LimFairSpec == LimSpec /\ WF_limVars(Tick)

-------------------------------------------------------------------------------
(* Properties.                                                             *)

LimTypeOK ==
  /\ age \in [Slots -> 0 .. Window \cup {Nil}]
  /\ pc \in [Requests -> {"idle", "verify"}]

\* Although admission and record are not atomic, the failures of a window, and
\* the list with them, exceed the limit by less than the logins at once.
FailuresBounded ==
  Cardinality(Recorded) + 1 <= Limit + Cardinality(Requests)

\* Who is locked out gets in again when the window has passed, however often he
\* is refused meanwhile and however long the logins under way take.
Locked    == Cardinality(Recent) >= Limit
LockLifts == Locked ~> ~Locked
===============================================================================
