----------------------------- MODULE LimiterProofs -----------------------------
(***************************************************************************)
(* FailuresBounded for every number of logins at once, every limit and     *)
(* every window.  It is inductive with the logins under way counted as     *)
(* failures to come: an admission finds fewer failures than the limit,     *)
(* however many others are under way, and each adds one at most.           *)
(***************************************************************************)
EXTENDS LoginLimiter, FiniteSetTheorems, TLAPS

USE LimiterAssumption

FailuresToCome ==
  Cardinality(Recorded) + Cardinality(Verifying) + 1
    <= Limit + Cardinality(Requests)

\* The sets counted are finite.
LEMMA Counts ==
  /\ IsFiniteSet(Recorded) /\ Cardinality(Recorded) \in Nat
  /\ IsFiniteSet(Recent) /\ Cardinality(Recent) \in Nat
  /\ IsFiniteSet(Verifying) /\ Cardinality(Verifying) \in Nat
  /\ Cardinality(Requests) \in Nat
<1>1. Recorded \subseteq Slots /\ Recent \subseteq Slots
      /\ Verifying \subseteq Requests
  BY DEF Recorded, Recent, Verifying
<1> QED
  BY <1>1, FS_Subset, FS_CardinalityType

\* The same of the state after a step.
LEMMA CountsNext ==
  /\ IsFiniteSet(Recorded') /\ Cardinality(Recorded') \in Nat
  /\ IsFiniteSet(Verifying') /\ Cardinality(Verifying') \in Nat
  /\ Verifying' \subseteq Requests
  /\ Cardinality(Verifying') <= Cardinality(Requests)
<1>1. Recorded' \subseteq Slots /\ Verifying' \subseteq Requests
  BY DEF Recorded, Verifying
<1> QED
  BY <1>1, FS_Subset, FS_CardinalityType

\* Ages and labels keep their types.
LEMMA LimTypeStep ==
  ASSUME LimTypeOK, [LimNext]_limVars
  PROVE  LimTypeOK'
<1> USE DEF LimTypeOK
<1>1. ASSUME Prune
      PROVE  age' \in [Slots -> (0 .. Window) \cup {Nil}]
  BY <1>1 DEF Prune
<1>2. ASSUME NEW r \in Requests, Admit(r) \/ Refuse(r)
      PROVE  LimTypeOK'
  BY <1>1, <1>2 DEF Admit, Refuse
<1>3. ASSUME NEW r \in Requests, Fail(r) \/ Leave(r)
      PROVE  LimTypeOK'
  BY <1>3 DEF Fail, Leave, Done
<1>4. CASE Tick
  BY <1>4 DEF Tick, Recent, Recorded
<1>5. CASE Restart
  BY <1>5 DEF Restart
<1>6. CASE UNCHANGED limVars
  BY <1>6 DEF limVars
<1> QED
  BY <1>2, <1>3, <1>4, <1>5, <1>6 DEF LimNext

\* The count of failures, made or to come, never passes its bound.
LEMMA FailuresStep ==
  ASSUME LimTypeOK, FailuresToCome, [LimNext]_limVars
  PROVE  FailuresToCome'
<1> USE DEF FailuresToCome
<1>1. ASSUME Recorded' \subseteq Recorded, Verifying' \subseteq Verifying
      PROVE  FailuresToCome'
  <2>1. /\ Cardinality(Recorded') <= Cardinality(Recorded)
        /\ Cardinality(Verifying') <= Cardinality(Verifying)
    BY <1>1, Counts, FS_Subset
  <2> QED
    BY <2>1, Counts, CountsNext
<1>2. ASSUME Prune
      PROVE  Recorded' = Recent
  BY <1>2 DEF Prune, Recorded, Recent
<1>3. ASSUME NEW r \in Requests, Admit(r)
      PROVE  FailuresToCome'
  BY <1>2, <1>3, Counts, CountsNext DEF Admit
<1>4. ASSUME NEW r \in Requests, Refuse(r)
      PROVE  FailuresToCome'
  BY <1>1, <1>2, <1>4 DEF Refuse, Recent, Verifying
<1>5. ASSUME NEW r \in Requests, Fail(r)
      PROVE  FailuresToCome'
  <2>1. PICK k \in Slots \ Recorded : age' = [age EXCEPT ![k] = 0]
    BY <1>5 DEF Fail
  <2>2. Recorded' = Recorded \cup {k} /\ k \notin Recorded
    BY <2>1 DEF Recorded, LimTypeOK
  <2>3. Verifying' = Verifying \ {r} /\ r \in Verifying
    BY <1>5 DEF Fail, Done, Verifying, LimTypeOK
  <2>4. Cardinality(Recorded') = Cardinality(Recorded) + 1
    BY <2>2, Counts, FS_AddElement
  <2>5. Cardinality(Verifying') = Cardinality(Verifying) - 1
    BY <2>3, Counts, FS_RemoveElement
  <2> QED
    BY <2>4, <2>5, Counts
<1>6. ASSUME NEW r \in Requests, Leave(r)
      PROVE  FailuresToCome'
  <2>1. Recorded' = Recorded /\ Verifying' \subseteq Verifying
    BY <1>6 DEF Leave, Done, Recorded, Verifying, LimTypeOK
  <2> QED
    BY <1>1, <2>1
<1>7. CASE Tick
  <2>1. Recorded' = Recorded /\ Verifying' = Verifying
    BY <1>7 DEF Tick, Recorded, Recent, Verifying, LimTypeOK
  <2> QED
    BY <1>1, <2>1
<1>8. CASE Restart
  BY <1>1, <1>8 DEF Restart, Recorded, Verifying
<1>9. CASE UNCHANGED limVars
  BY <1>1, <1>9 DEF limVars, Recorded, Verifying
<1> QED
  BY <1>3, <1>4, <1>5, <1>6, <1>7, <1>8, <1>9 DEF LimNext

\* LimTypeOK for every instance.
THEOREM LimiterTyped == LimSpec => []LimTypeOK
<1>1. LimInit => LimTypeOK
  BY DEF LimInit, LimTypeOK
<1> QED
  BY <1>1, LimTypeStep, PTL DEF LimSpec

\* allowLogin and recordLogin let fewer failures pass in a window than the limit
\* and the number of logins at once together.
THEOREM FailuresStayBounded == LimSpec => []FailuresBounded
<1>1. LimInit => FailuresToCome
  <2> SUFFICES ASSUME LimInit
               PROVE  FailuresToCome
    OBVIOUS
  <2>1. Recorded = {} /\ Verifying = {}
    BY DEF LimInit, Recorded, Verifying
  <2> QED
    BY <2>1, Counts, FS_EmptySet DEF FailuresToCome
<1>2. FailuresToCome => FailuresBounded
  BY Counts DEF FailuresToCome, FailuresBounded
<1> QED
  BY <1>1, <1>2, LimiterTyped, FailuresStep, PTL DEF LimSpec
===============================================================================
