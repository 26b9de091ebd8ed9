---------------------------- MODULE SessionsProofs ----------------------------
(***************************************************************************)
(* Sessions for all requests, passwords and tokens.                        *)
(***************************************************************************)
EXTENDS Sessions, TLAPS

USE SessionsAssumption DEF User, Reset, database, process

\* Passwords are generated from those there are.
LEMMA FreshOnes == Fresh \subseteq Passwords
BY DEF Fresh

\* The records written are rows, and none is Nil.
LEMMA Written ==
  ASSUME NEW p \in Passwords
  PROVE  /\ [password |-> p, must |-> TRUE] \in User \ {Nil}
         /\ [password |-> p, must |-> FALSE] \in User \ {Nil}
         /\ [step |-> "sessions", password |-> p] \in Reset \ {Nil}
<1>1. [password |-> p, must |-> TRUE] \in User
  OBVIOUS
<1>2. [password |-> p, must |-> FALSE] \in User
  OBVIOUS
<1>3. [step |-> "sessions", password |-> p] \in Reset
  OBVIOUS
<1> HIDE DEF User, Reset
<1> QED
  BY <1>1, <1>2, <1>3

\* The row of users after a step: as before, a fresh password that must be
\* changed, or what a request has chosen.
LEMMA AdminStep ==
  ASSUME SessTypeOK, [SessNext]_sessVars
  PROVE  \/ UNCHANGED admin
         \/ FirstStart \/ ResetWrites
         \/ \E r \in Requests :
              /\ ChangeSaves(r)
              /\ chosen[r] \in Passwords
              /\ admin' = [password |-> chosen[r], must |-> FALSE]
<1>1. ASSUME NEW r \in Requests, ChangeSaves(r)
      PROVE  chosen[r] \in Passwords
  BY <1>1 DEF ChangeSaves, Goto, SessTypeOK
<1> QED
  BY <1>1 DEF SessNext, WriteBootstrap, LaterStart, ServerEnds, Login,
     OpenSession, ChangeEnters, ChangeVerifies, ChangeSaves, CloseSession,
     ResetEndsSessions, ResetShows, ResetFails, sessVars

\* Types survive every step.
LEMMA SessTypeStep ==
  ASSUME SessTypeOK, [SessNext]_sessVars
  PROVE  SessTypeOK'
<1> USE DEF SessTypeOK
<1>1. CASE FirstStart
  <2>1. PICK p \in Passwords : /\ admin' = [password |-> p, must |-> TRUE]
                               /\ first' = p
                               /\ known' \in {known, known \cup {p}}
    BY <1>1, FreshOnes DEF FirstStart
  <2>2. admin' \in User /\ admin' # Nil /\ first' # Nil
    BY <2>1, Written
  <2> QED
    BY <1>1, <2>1, <2>2 DEF FirstStart
<1>2. CASE WriteBootstrap
  BY <1>2 DEF WriteBootstrap
<1>3. CASE LaterStart
  BY <1>3 DEF LaterStart
<1>4. CASE ServerEnds
  BY <1>4 DEF ServerEnds, SessLabels
<1>5. ASSUME NEW r \in Requests, Login(r) \/ OpenSession(r) \/ ChangeEnters(r)
      PROVE  SessTypeOK'
  BY <1>5 DEF Login, OpenSession, ChangeEnters, Goto, SessLabels
<1>6. ASSUME NEW r \in Requests, ChangeVerifies(r)
      PROVE  SessTypeOK'
  BY <1>6, FreshOnes DEF ChangeVerifies, Goto, SessLabels
<1>7. ASSUME NEW r \in Requests, ChangeSaves(r)
      PROVE  SessTypeOK'
  <2>1. chosen[r] \in Passwords
    BY <1>7 DEF ChangeSaves, Goto
  <2>2. admin' \in User \cup {Nil} /\ admin' # Nil
    BY <1>7, <2>1, Written DEF ChangeSaves, Goto
  <2> QED
    BY <1>7, <2>1, <2>2 DEF ChangeSaves, Goto, SessLabels
<1>8. ASSUME NEW t \in Tokens, CloseSession(t)
      PROVE  SessTypeOK'
  BY <1>8 DEF CloseSession
<1>9. CASE ResetWrites
  <2>1. PICK p \in Passwords :
          /\ admin' = [password |-> p, must |-> TRUE]
          /\ cli' = [step |-> "sessions", password |-> p]
    BY <1>9, FreshOnes DEF ResetWrites
  <2>2. admin' \in User /\ admin' # Nil /\ cli' \in Reset
    BY <2>1, Written
  <2> QED
    BY <1>9, <2>1, <2>2 DEF ResetWrites
<1>10. CASE ResetEndsSessions
  BY <1>10 DEF ResetEndsSessions, ResetGoes
<1>11. CASE ResetShows \/ ResetFails
  BY <1>11 DEF ResetShows, Shown, ResetFails, ResetGoes
<1>12. CASE UNCHANGED sessVars
  BY <1>12 DEF sessVars
<1> QED
  BY <1>1, <1>2, <1>3, <1>4, <1>5, <1>6, <1>7, <1>8, <1>9, <1>10, <1>11, <1>12
     DEF SessNext

\* SessTypeOK for every instance.
THEOREM SessionsTyped == SessSpec => []SessTypeOK
<1>1. SessInit => SessTypeOK
  BY DEF SessInit, SessTypeOK, SessLabels
<1> QED
  BY <1>1, SessTypeStep, PTL DEF SessSpec

\* Passwords that are known stay known.
LEMMA KnownGrows ==
  ASSUME [SessNext]_sessVars
  PROVE  known \subseteq known'
BY DEF SessNext, FirstStart, WriteBootstrap, LaterStart, ServerEnds, Login,
   OpenSession, ChangeEnters, ChangeVerifies, ChangeSaves, CloseSession,
   ResetWrites, ResetEndsSessions, ResetShows, Shown, ResetFails, sessVars

\* Whatever fails, must_change is clear only when somebody knows the password.
THEOREM UnknownIsForced == SessSpec => []ForcedUnlessChosen
<1>1. SessInit => ForcedUnlessChosen
  BY DEF SessInit, ForcedUnlessChosen
<1>2. ASSUME SessTypeOK, ForcedUnlessChosen, [SessNext]_sessVars
      PROVE  ForcedUnlessChosen'
  <2> USE DEF ForcedUnlessChosen
  <2>1. CASE UNCHANGED admin
    BY <1>2, <2>1, KnownGrows
  <2>2. CASE FirstStart \/ ResetWrites
    BY <2>2 DEF FirstStart, ResetWrites
  <2>3. ASSUME NEW r \in Requests, ChangeSaves(r),
               admin' = [password |-> chosen[r], must |-> FALSE]
        PROVE  ForcedUnlessChosen'
    BY <2>3 DEF ChangeSaves
  <2> QED
    BY <1>2, <2>1, <2>2, <2>3, AdminStep
<1> QED
  BY <1>1, <1>2, SessionsTyped, PTL DEF SessSpec

(***************************************************************************)
(* The password in force and the file.                                     *)

\* The password in force is known, or about to be shown by who set it.
KnownOrComing ==
  /\ cli # Nil => admin # Nil /\ admin.password \in known \cup {cli.password}
  /\ (admin # Nil /\ cli = Nil /\ "failure" \notin trouble) =>
       \/ admin.password \in known
       \/ server = "starting" /\ first = admin.password

\* However the first start, password changes and reset-password interleave,
\* nobody is locked out once they are done, but by a failure that no reset has
\* repaired.
THEOREM NobodyLockedOut == SessSpec => []PasswordKnown
<1>1. SessInit => KnownOrComing
  BY DEF SessInit, KnownOrComing
<1>2. ASSUME SessTypeOK, KnownOrComing, [SessNext]_sessVars
      PROVE  KnownOrComing'
  <2> USE DEF KnownOrComing
  <2>1. CASE FirstStart
    BY <1>2, <2>1, FreshOnes, Written DEF FirstStart
  <2>2. CASE ResetWrites
    BY <1>2, <2>2, FreshOnes, Written DEF ResetWrites
  <2>3. ASSUME NEW r \in Requests, ChangeSaves(r),
               chosen[r] \in Passwords,
               admin' = [password |-> chosen[r], must |-> FALSE]
        PROVE  KnownOrComing'
    BY <2>3, Written DEF ChangeSaves
  <2>4. CASE WriteBootstrap
    BY <1>2, <2>4 DEF WriteBootstrap
  <2>5. CASE ResetShows
    BY <1>2, <2>5 DEF ResetShows, Shown, ResetGoes
  <2>6. CASE ResetEndsSessions
    BY <1>2, <2>6 DEF ResetEndsSessions, ResetGoes, SessTypeOK
  <2>7. CASE LaterStart \/ ServerEnds \/ ResetFails
    BY <1>2, <2>7 DEF LaterStart, ServerEnds, ResetFails
  <2>8. CASE UNCHANGED <<admin, server, first, cli, trouble>>
    BY <1>2, <2>8, KnownGrows
  <2> QED
    BY <1>2, <2>1, <2>2, <2>3, <2>4, <2>5, <2>6, <2>7, <2>8, AdminStep
       DEF SessNext, Login, OpenSession, ChangeEnters, ChangeVerifies,
           ChangeSaves, CloseSession, Goto, sessVars
<1>3. SessTypeOK /\ KnownOrComing => PasswordKnown
  BY DEF KnownOrComing, PasswordKnown, SessTypeOK
<1> QED
  BY <1>1, <1>2, <1>3, SessionsTyped, PTL DEF SessSpec

\* While a forced change is outstanding, whoever set the password is about to
\* write the file or has written it.
FileOrComing ==
  /\ cli # Nil => admin # Nil
  /\ (cli # Nil /\ admin.must) => cli.password = admin.password
  /\ (server = "starting" /\ "overlap" \notin trouble)
       => cli = Nil /\ first = admin.password
  /\ (admin # Nil /\ admin.must /\ server # "starting" /\ cli = Nil /\ trouble = {})
       => bootstrap = admin.password

\* bootstrap-password holds the password in force as long as it has to be changed,
\* unless a failure or an overlap is unrepaired.
THEOREM BootstrapIsCurrent == SessSpec => []BootstrapOpens
<1>1. SessInit => FileOrComing
  BY DEF SessInit, FileOrComing
<1>2. ASSUME SessTypeOK, FileOrComing, [SessNext]_sessVars
      PROVE  FileOrComing'
  <2> USE DEF FileOrComing
  <2>1. CASE FirstStart
    BY <1>2, <2>1 DEF FirstStart
  <2>2. CASE ResetWrites
    BY <1>2, <2>2, FreshOnes, Written DEF ResetWrites
  <2>3. ASSUME NEW r \in Requests, ChangeSaves(r),
               chosen[r] \in Passwords,
               admin' = [password |-> chosen[r], must |-> FALSE]
        PROVE  FileOrComing'
    BY <1>2, <2>3, Written DEF ChangeSaves, Goto
  <2>4. CASE WriteBootstrap
    BY <1>2, <2>4 DEF WriteBootstrap
  <2>5. CASE ResetShows
    BY <1>2, <2>5 DEF ResetShows, Shown, ResetGoes
  <2>6. CASE ResetEndsSessions
    BY <1>2, <2>6 DEF ResetEndsSessions, ResetGoes, SessTypeOK
  <2>7. CASE LaterStart \/ ServerEnds \/ ResetFails
    BY <1>2, <2>7 DEF LaterStart, ServerEnds, ResetFails
  <2>8. CASE UNCHANGED <<admin, bootstrap, server, first, cli, trouble>>
    BY <1>2, <2>8
  <2> QED
    BY <1>2, <2>1, <2>2, <2>3, <2>4, <2>5, <2>6, <2>7, <2>8, AdminStep
       DEF SessNext, Login, OpenSession, ChangeEnters, ChangeVerifies,
           ChangeSaves, CloseSession, Goto, sessVars
<1>3. SessTypeOK /\ FileOrComing => BootstrapOpens
  BY DEF FileOrComing, BootstrapOpens, FirstPasswordInFile, SessTypeOK
<1> QED
  BY <1>1, <1>2, <1>3, SessionsTyped, PTL DEF SessSpec
===============================================================================
