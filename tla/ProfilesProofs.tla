---------------------------- MODULE ProfilesProofs ----------------------------
(***************************************************************************)
(* Profiles for every set of requests and every number of profiles.  All   *)
(* writes to the table are an insertion, an update that leaves the flags,  *)
(* a deletion or the flag's transaction; the first section says what each  *)
(* does to a table in which one row at most is marked.                     *)
(***************************************************************************)
EXTENDS Profiles, TLAPS

Table == [Ids -> Row \cup {Nil}]

USE ProfilesAssumption DEF Ids

(***************************************************************************)
(* The writes.                                                             *)

\* No row appears, and none changes its flag.
FlagsStay == \A i \in Ids : Exists(i)' =>
               Exists(i) /\ rows'[i].active = rows[i].active

\* At most the row of the next id appears, and it is not marked.
FlagsStayButNew ==
  \A i \in Ids : Exists(i)' =>
    IF i = next THEN ~rows'[i].active
    ELSE Exists(i) /\ rows'[i].active = rows[i].active

\* No row appears, and the row marked is that of i.
Marks(i) == \A j \in Ids :
              Exists(j)' => Exists(j) /\ (rows'[j].active <=> i = j)

\* UPDATE ... WHERE id keeps the flags and inserts nothing.
LEMMA SaveKeeps ==
  ASSUME rows \in Table, NEW i \in Ids, NEW url \in Urls \cup {Nil},
         NEW content \in Docs, Save(i, url, content)
  PROVE  rows' \in Table /\ FlagsStay
<1> USE DEF Table, Row, Exists, FlagsStay
<1>1. CASE rows[i] = Nil
  BY <1>1 DEF Save
<1>2. CASE rows[i] # Nil
  <2> DEFINE row == [rows[i] EXCEPT !.url = url, !.content = content]
  <2>1. row \in Row /\ row.active = rows[i].active
    BY <1>2
  <2>2. rows' = [rows EXCEPT ![i] = row]
    BY <1>2 DEF Save
  <2> QED
    BY <1>2, <2>1, <2>2
<1> QED
  BY <1>1, <1>2

\* A new row is not marked.
LEMMA CreateKeeps ==
  ASSUME ProfTypeOK, NEW r \in Requests, Create(r)
  PROVE  rows' \in Table /\ FlagsStayButNew
<1>1. rows \in Table /\ next \in Ids
  BY DEF ProfTypeOK, Table, Create
<1>2. PICK url \in Urls \cup {Nil}, content \in Docs :
        rows' = [rows EXCEPT ![next] =
                   [url |-> url, content |-> content, active |-> FALSE]]
  BY DEF Create
<1>3. [url |-> url, content |-> content, active |-> FALSE] \in Row
  BY DEF Row
<1> QED
  BY <1>1, <1>2, <1>3 DEF Table, FlagsStayButNew, Exists

\* The transaction marks its own row and no other.
LEMMA FlaggedKeeps ==
  ASSUME rows \in Table, NEW i \in Ids, rows' = Flagged(i)
  PROVE  rows' \in Table /\ Marks(i)
<1> SUFFICES ASSUME NEW j \in Ids
             PROVE  /\ rows'[j] \in Row \cup {Nil}
                    /\ Exists(j)' => Exists(j) /\ (rows'[j].active <=> i = j)
  BY DEF Table, Flagged, Marks
<1>1. CASE rows[j] = Nil
  BY <1>1 DEF Flagged, Exists
<1>2. CASE rows[j] # Nil
  BY <1>2 DEF Flagged, Exists, Table, Row
<1> QED
  BY <1>1, <1>2

\* What a request holds after its read, until it ends.
LEMMA HasRead ==
  ASSUME ProfTypeOK, NEW r \in Requests, pc[r] # "idle"
  PROVE  local[r] \in Held /\ local[r].id \in Ids
BY DEF ProfTypeOK, Held

\* Every step writes the table in one of these ways or not at all.
LEMMA TableStep ==
  ASSUME ProfTypeOK, [ProfNext]_profVars
  PROVE  /\ rows' \in Table
         /\ FlagsStay \/ FlagsStayButNew \/ \E i \in Ids : Marks(i)
<1> rows \in Table
  BY DEF ProfTypeOK, Table
<1>0. ASSUME UNCHANGED rows
      PROVE  rows' \in Table /\ FlagsStay
  BY <1>0 DEF FlagsStay, Exists
<1>1. ASSUME NEW r \in Requests, Create(r)
      PROVE  rows' \in Table /\ FlagsStayButNew
  BY <1>1, CreateKeeps
<1>2. ASSUME NEW r \in Requests, UpdateWrite(r) \/ RefreshWrite(r)
      PROVE  rows' \in Table /\ FlagsStay
  <2>1. local[r] \in Held /\ local[r].id \in Ids
    BY <1>2, HasRead DEF UpdateWrite, RefreshWrite, Goto
  <2>2. local[r].url \in Urls \cup {Nil}
    BY <2>1 DEF Held
  <2> QED
    BY <1>0, <1>2, <2>1, <2>2, SaveKeeps DEF UpdateWrite, RefreshWrite
<1>3. ASSUME NEW r \in Requests, NEW i \in Ids, Delete(r, i)
      PROVE  rows' \in Table /\ FlagsStay
  BY <1>3 DEF Delete, Table, FlagsStay, Exists
<1>4. ASSUME NEW r \in Requests, Flag(r)
      PROVE  rows' \in Table /\ (FlagsStay \/ \E i \in Ids : Marks(i))
  <2>1. local[r].id \in Ids
    BY <1>4, HasRead DEF Flag, Goto
  <2>2. CASE rows' = Flagged(local[r].id)
    BY <2>1, <2>2, FlaggedKeeps
  <2> QED
    BY <1>0, <1>4, <2>2 DEF Flag
<1>5. CASE ProfNext /\ rows' # rows
  BY <1>1, <1>2, <1>3, <1>4, <1>5 DEF ProfNext, UpdateRead, RefreshRead,
     ActivateRead, Send, HelperSwitches, HelperRefuses, HelperFails, Answer,
     GivesUp, EditBegins, EditEnds, Restart
<1> QED
  BY <1>0, <1>5 DEF profVars

(***************************************************************************)
(* Types, one marked profile, deletion.                                    *)

Owners == Ids \cup {0, Nil}

\* The types of what the helper holds, and of the history.
SideTypes ==
  /\ running \in Owners /\ previous \in Owners /\ edit \in Owners
  /\ parted \in BOOLEAN /\ alone \in Requests \cup {Nil}

\* What an activation may leave behind is a profile's, no profile's or nothing.
LEMMA ActivationTyped ==
  ASSUME running \in Owners, previous \in Owners, parted \in BOOLEAN,
         alone \in Requests \cup {Nil}, NEW id \in Ids \cup {0}
  PROVE  /\ Switches(id) => running' = id /\ previous' \in Owners
         /\ Stays => running' = running /\ previous' \in Owners
         /\ FailsAfterRename(id) =>
              /\ running' \in Owners /\ previous' \in Owners
              /\ parted' \in BOOLEAN /\ alone' \in Requests \cup {Nil}
<1>1. ASSUME NEW c \in BOOLEAN, BackUp(c)
      PROVE  previous' \in Owners
  BY <1>1 DEF BackUp, Owners
<1>2. Switches(id) => running' = id /\ previous' \in Owners
  BY <1>1 DEF Switches
<1>3. Stays => running' = running /\ previous' \in Owners
  BY <1>1 DEF Stays
<1>4. ASSUME FailsAfterRename(id)
      PROVE  /\ running' \in Owners /\ previous' \in Owners
             /\ parted' \in BOOLEAN /\ alone' \in Requests \cup {Nil}
  <2>1. PICK copied \in BOOLEAN, restored \in BOOLEAN :
          /\ BackUp(copied)
          /\ running' \in IF previous' = Nil THEN {id}
                          ELSE IF restored THEN {previous'} ELSE {id, 0}
          /\ Parts(running = Nil \/ ~copied \/ ~restored)
    BY <1>4 DEF FailsAfterRename
  <2>2. previous' \in Owners
    BY <1>1, <2>1
  <2> QED
    BY <2>1, <2>2 DEF Parts, Owners
<1> QED
  BY <1>2, <1>3, <1>4

LEMMA SideStep ==
  ASSUME ProfTypeOK, SideTypes, [ProfNext]_profVars
  PROVE  SideTypes'
<1> USE DEF SideTypes
<1>1. CASE UNCHANGED <<helperVars, history>>
  BY <1>1 DEF helperVars, history
<1>2. ASSUME NEW r \in Requests, Send(r) \/ Flag(r) \/ GivesUp(r)
      PROVE  SideTypes'
  BY <1>2 DEF Send, Flag, GivesUp, Parts, helperVars
<1>3. CASE Restart
  BY <1>3 DEF Restart, Parts, helperVars
<1>4. ASSUME NEW r \in Requests,
             HelperSwitches(r) \/ HelperRefuses(r) \/ HelperFails(r)
      PROVE  SideTypes'
  <2>1. local[r].id \in Ids
    BY <1>4, HasRead DEF HelperSwitches, HelperRefuses, HelperFails, Answer, Goto
  <2> QED
    BY <1>4, <2>1, ActivationTyped
       DEF HelperSwitches, HelperRefuses, HelperFails, Answer, history, Owners
<1>5. CASE EditBegins
  BY <1>5 DEF EditBegins, Parts, Owners
<1>6. CASE EditEnds
  <2>1. edit \in Ids \cup {0}
    BY <1>6 DEF EditEnds, Owners
  <2> QED
    BY <1>6, <2>1, ActivationTyped DEF EditEnds, history, Owners
<1> QED
  BY <1>1, <1>2, <1>3, <1>4, <1>5, <1>6
     DEF ProfNext, profVars, Create, UpdateRead, UpdateWrite, RefreshRead,
         RefreshWrite, Delete, ActivateRead

LEMMA SideTyped == ProfTypeOK => SideTypes
BY DEF ProfTypeOK, SideTypes, Owners

\* Types survive every step.
LEMMA TypeStep ==
  ASSUME ProfTypeOK, [ProfNext]_profVars
  PROVE  ProfTypeOK'
<1> USE DEF ProfTypeOK
<1>1. rows' \in [Ids -> Row \cup {Nil}]
  BY TableStep DEF Table
<1>s. /\ {running, previous, edit}' \subseteq Ids \cup {0, Nil}
      /\ parted' \in BOOLEAN /\ alone' \in Requests \cup {Nil}
  BY SideStep, SideTyped DEF SideTypes, Owners
<1>2. ASSUME next' \in 1 .. MaxId + 1, UNCHANGED <<pc, local>>
      PROVE  ProfTypeOK'
  BY <1>1, <1>s, <1>2
<1>3. ASSUME UNCHANGED next, NEW r \in Requests,
             NEW to \in ProfLabels \ {"idle"}, pc' = [pc EXCEPT ![r] = to],
             UNCHANGED local \/ (\E x \in Held : local' = [local EXCEPT ![r] = x]),
             pc[r] = "idle" => ~UNCHANGED local
      PROVE  ProfTypeOK'
  BY <1>1, <1>s, <1>3
<1>4. ASSUME UNCHANGED next, NEW r \in Requests,
             pc' = [pc EXCEPT ![r] = "idle"], local' = [local EXCEPT ![r] = Nil]
      PROVE  ProfTypeOK'
  BY <1>1, <1>s, <1>4 DEF ProfLabels
<1>5. ASSUME NEW r \in Requests, Create(r)
      PROVE  ProfTypeOK'
  BY <1>2, <1>5 DEF Create
<1>6. ASSUME NEW r \in Requests, NEW i \in Ids,
             UpdateRead(r, i) \/ RefreshRead(r, i) \/ ActivateRead(r, i)
      PROVE  ProfTypeOK'
  <2> DEFINE x == [id |-> i, url |-> rows[i].url, content |-> rows[i].content]
  <2>1. x \in Held
    BY <1>6 DEF UpdateRead, RefreshRead, ActivateRead, Read, Exists, Row, Held
  <2>2. local' = [local EXCEPT ![r] = x] /\ pc[r] = "idle" /\ local[r] = Nil
    BY <1>6 DEF UpdateRead, RefreshRead, ActivateRead, Read, Goto
  <2> QED
    BY <1>3, <1>6, <2>1, <2>2
       DEF UpdateRead, RefreshRead, ActivateRead, Goto, ProfLabels
<1>7. ASSUME NEW r \in Requests, UpdateWrite(r) \/ RefreshWrite(r) \/ Flag(r)
      PROVE  ProfTypeOK'
  BY <1>4, <1>7 DEF UpdateWrite, RefreshWrite, Flag, Forget, Goto
<1>8. ASSUME NEW r \in Requests, Send(r) \/ GivesUp(r)
      PROVE  ProfTypeOK'
  BY <1>3, <1>8 DEF Send, GivesUp, Goto, ProfLabels
<1>9. ASSUME NEW r \in Requests,
             HelperSwitches(r) \/ HelperRefuses(r) \/ HelperFails(r)
      PROVE  ProfTypeOK'
  <2>1. PICK to \in {"flag", "idle"} : Answer(r, to)
    BY <1>9 DEF HelperSwitches, HelperRefuses, HelperFails
  <2>2. UNCHANGED next
    BY <2>1 DEF Answer
  <2>3. CASE pc' = [pc EXCEPT ![r] = "flag"]
    BY <1>3, <2>1, <2>2, <2>3 DEF Answer, Goto, ProfLabels
  <2>4. CASE pc' = [pc EXCEPT ![r] = "idle"]
    BY <1>4, <2>1, <2>2, <2>4 DEF Answer, Forget
  <2> QED
    BY <2>1, <2>3, <2>4 DEF Answer, Goto
<1>10. CASE Restart
  BY <1>1, <1>s, <1>10 DEF Restart, AtHelper, ProfLabels
<1> QED
  BY <1>2, <1>5, <1>6, <1>7, <1>8, <1>9, <1>10
     DEF ProfNext, Delete, EditBegins, EditEnds, profVars

\* ProfTypeOK for every set of requests, documents and urls and every MaxId.
THEOREM ProfilesTyped == ProfSpec => []ProfTypeOK
<1>1. ProfInit => ProfTypeOK
  <2>1. ProfInit => parted \in BOOLEAN
    BY DEF ProfInit
  <2> QED
    BY <2>1 DEF ProfInit, ProfTypeOK, ProfLabels
<1> QED
  BY <1>1, TypeStep, PTL DEF ProfSpec

\* At most one profile is marked active, whatever interleaves: ActivateProfile
\* is the only statement that sets a flag, and it clears the others with it.
THEOREM OneActive == ProfSpec => []AtMostOneActive
<1>1. ProfInit => AtMostOneActive
  BY DEF ProfInit, AtMostOneActive, Exists
<1>2. ASSUME ProfTypeOK, AtMostOneActive, [ProfNext]_profVars
      PROVE  AtMostOneActive'
  BY <1>2, TableStep DEF AtMostOneActive, FlagsStay, FlagsStayButNew, Marks, Exists
<1> QED
  BY <1>1, <1>2, ProfilesTyped, PTL DEF ProfSpec

\* No request that read a profile before its deletion brings it back, and ids
\* are not given twice.
THEOREM DeletionIsFinal == ProfSpec => DeletedStaysDeleted
<1>1. ASSUME ProfTypeOK, [ProfNext]_profVars
      PROVE  \A i \in Ids : (i < next /\ ~Exists(i)) => ~Exists(i)'
  BY <1>1, TableStep DEF ProfTypeOK, FlagsStay, FlagsStayButNew, Marks, Exists
<1> QED
  BY <1>1, ProfilesTyped, PTL DEF ProfSpec, DeletedStaysDeleted

(***************************************************************************)
(* The mark and the helper.                                                *)

\* A marked profile runs unless no profile does, and one that runs is marked.
Agree ==
  \A i \in Ids : Exists(i) =>
    /\ rows[i].active => running \in {i, 0}
    /\ running = i => rows[i].active

\* Ids in use are older than next, so a new profile is never taken for the one
\* that runs.
Old(x) == x \in Ids => x < next

IdsAreOld ==
  /\ Old(running) /\ Old(previous) /\ Old(edit)
  /\ \A i \in Ids : Exists(i) => Old(i)
  /\ \A r \in Requests : pc[r] # "idle" => Old(local[r].id)

\* An activation that nothing is beside: between the helper's switch and the mark
\* the profile to be marked runs, or an edit made since.
AloneInv ==
  (alone # Nil /\ OnItsWay(alone)) =>
    /\ pc[alone] # "gone"
    /\ \A q \in Requests : OnItsWay(q) => q = alone
    /\ pc[alone] = "wait" => edit = Nil
    /\ pc[alone] = "flag" => /\ running \in {local[alone].id, 0}
                            /\ edit \in {Nil, 0, running}

\* As long as nothing parts them mark and helper agree, but before the mark, and
\* what is about to be installed changes nothing of that.
MatchInv ==
  ~parted =>
    /\ \A q \in Requests : OnItsWay(q) => q = alone
    /\ edit \in {Nil, 0, running}
    /\ (\A r \in Requests : pc[r] # "flag") => Agree

\* What an activation leaves behind is as old as what was there.
LEMMA ActivationOld ==
  ASSUME NEW id, Old(running), Old(previous), Old(id), UNCHANGED next,
         Switches(id) \/ Stays \/ FailsAfterRename(id)
  PROVE  Old(running)' /\ Old(previous)'
<1>1. ASSUME NEW c \in BOOLEAN, BackUp(c)
      PROVE  Old(previous)'
  BY <1>1 DEF BackUp, Old
<1>2. CASE Switches(id) \/ Stays
  BY <1>1, <1>2 DEF Switches, Stays, Old
<1>3. CASE FailsAfterRename(id)
  <2>1. PICK copied \in BOOLEAN, restored \in BOOLEAN :
          /\ BackUp(copied)
          /\ running' \in IF previous' = Nil THEN {id}
                          ELSE IF restored THEN {previous'} ELSE {id, 0}
    BY <1>3 DEF FailsAfterRename
  <2> QED
    BY <1>1, <2>1 DEF Old
<1> QED
  BY <1>2, <1>3

\* Ids only grow.
LEMMA IdsStayOld ==
  ASSUME ProfTypeOK, IdsAreOld, [ProfNext]_profVars
  PROVE  IdsAreOld'
<1> USE DEF IdsAreOld
<1>1. ASSUME NEW r \in Requests, Create(r)
      PROVE  IdsAreOld'
  <2>1. FlagsStayButNew /\ next \in Nat
    BY <1>1, CreateKeeps DEF ProfTypeOK
  <2>2. next' = next + 1 /\ UNCHANGED <<running, previous, edit, pc, local>>
    BY <1>1 DEF Create, helperVars
  <2>3. \A x : Old(x) => (x \in Ids => x < next')
    BY <2>1, <2>2 DEF Old
  <2>4. next < next'
    BY <2>1, <2>2
  <2> QED
    BY <2>1, <2>2, <2>3, <2>4 DEF FlagsStayButNew, Old
<1>2. ASSUME NEW r \in Requests, NEW i \in Ids,
             UpdateRead(r, i) \/ RefreshRead(r, i) \/ ActivateRead(r, i)
      PROVE  IdsAreOld'
  BY <1>2 DEF UpdateRead, RefreshRead, ActivateRead, Read, Goto, ProfTypeOK, Exists,
     Old, helperVars
<1>3. ASSUME UNCHANGED next, Old(running)', Old(previous)', Old(edit)',
             \A i \in Ids : Exists(i)' => Exists(i),
             \A r \in Requests :
               pc'[r] # "idle" => pc[r] # "idle" /\ local'[r] = local[r]
      PROVE  IdsAreOld'
  BY <1>3 DEF Old
<1>h. UNCHANGED <<next, helperVars>> => Old(running)' /\ Old(previous)' /\ Old(edit)'
  BY DEF helperVars, Old
<1>4. ASSUME NEW r \in Requests,
             UpdateWrite(r) \/ RefreshWrite(r) \/ Flag(r)
      PROVE  IdsAreOld'
  <2>1. \A i \in Ids : Exists(i)' => Exists(i)
    BY <1>4, HasRead DEF UpdateWrite, RefreshWrite, Flag, Goto, Save, Flagged,
       Exists, ProfTypeOK
  <2> QED
    BY <1>3, <1>h, <1>4, <2>1
       DEF UpdateWrite, RefreshWrite, Flag, Goto, Forget, ProfTypeOK
<1>5. ASSUME NEW r \in Requests, Send(r) \/ GivesUp(r)
      PROVE  IdsAreOld'
  BY <1>3, <1>h, <1>5 DEF Send, GivesUp, Goto, ProfTypeOK, Exists
<1>6. ASSUME NEW r \in Requests,
             HelperSwitches(r) \/ HelperRefuses(r) \/ HelperFails(r)
      PROVE  IdsAreOld'
  <2>1. UNCHANGED <<rows, next, edit>>
    BY <1>6 DEF HelperSwitches, HelperRefuses, HelperFails, Answer
  <2>2. Old(local[r].id)
    BY <1>6 DEF HelperSwitches, HelperRefuses, HelperFails, Answer, Goto
  <2>3. Old(running)' /\ Old(previous)'
    BY <1>6, <2>1, <2>2, ActivationOld DEF HelperSwitches, HelperRefuses, HelperFails
  <2>4. \A q \in Requests :
          pc'[q] # "idle" => pc[q] # "idle" /\ local'[q] = local[q]
    BY <1>6 DEF HelperSwitches, HelperRefuses, HelperFails, Answer, Goto, Forget,
       ProfTypeOK
  <2> QED
    BY <1>3, <2>1, <2>3, <2>4 DEF Exists, Old
<1>7. ASSUME NEW r \in Requests, NEW i \in Ids, Delete(r, i)
      PROVE  IdsAreOld'
  BY <1>3, <1>h, <1>7 DEF Delete, Exists, ProfTypeOK
<1>8. CASE Restart
  BY <1>3, <1>h, <1>8 DEF Restart, Exists, ProfTypeOK, AtHelper
<1>9. CASE EditBegins
  BY <1>3, <1>9 DEF EditBegins, Exists, Old
<1>10. CASE EditEnds
  <2>1. Old(running)' /\ Old(previous)'
    BY <1>10, ActivationOld DEF EditEnds
  <2> QED
    BY <1>3, <1>10, <2>1 DEF EditEnds, Exists, Old
<1>11. CASE UNCHANGED profVars
  BY <1>3, <1>h, <1>11 DEF profVars, Exists
<1> QED
  BY <1>1, <1>2, <1>4, <1>5, <1>6, <1>7, <1>8, <1>9, <1>10, <1>11 DEF ProfNext

\* A failed activation is undone, or parts mark and helper.
LEMMA FailedIsUndone ==
  ASSUME NEW id, FailsAfterRename(id), parted \in BOOLEAN
  PROVE  \/ parted' = TRUE /\ alone' = Nil
         \/ UNCHANGED <<running, history>>
<1>1. PICK copied \in BOOLEAN, restored \in BOOLEAN :
        /\ BackUp(copied)
        /\ running' \in IF previous' = Nil THEN {id}
                        ELSE IF restored THEN {previous'} ELSE {id, 0}
        /\ Parts(running = Nil \/ ~copied \/ ~restored)
  BY DEF FailsAfterRename
<1>2. CASE running = Nil \/ ~copied \/ ~restored
  BY <1>1, <1>2 DEF Parts
<1>3. CASE running # Nil /\ copied /\ restored
  <2>1. previous' = running
    BY <1>1, <1>3 DEF BackUp
  <2> QED
    BY <1>1, <1>3, <2>1 DEF Parts, history
<1> QED
  BY <1>2, <1>3

\* Steps that leave the helper alone, set no flag and send nothing to the helper
\* disturb nothing.
LEMMA TableKeepsMatch ==
  ASSUME ProfTypeOK, IdsAreOld, AloneInv, MatchInv, FlagsStay \/ FlagsStayButNew,
         UNCHANGED <<helperVars, history>>,
         \A r \in Requests :
           \/ pc'[r] = pc[r] /\ local'[r] = local[r]
           \/ pc[r] \notin {"wait", "gone", "flag"}
              /\ pc'[r] \in {"idle", "update", "refresh", "send"}
  PROVE  AloneInv' /\ MatchInv'
<1>0. UNCHANGED <<running, edit, parted, alone>>
  BY DEF helperVars, history
<1>1. Agree => Agree'
  BY <1>0 DEF Agree, FlagsStay, FlagsStayButNew, Exists, ProfTypeOK, IdsAreOld, Old
<1>2. \A r \in Requests :
        /\ OnItsWay(r)' <=> OnItsWay(r)
        /\ pc'[r] = "flag" <=> pc[r] = "flag"
        /\ OnItsWay(r) => pc'[r] = pc[r] /\ local'[r] = local[r]
  BY DEF OnItsWay, AtHelper
<1>3. alone \in Requests \cup {Nil}
  BY DEF ProfTypeOK
<1>4. AloneInv'
  BY <1>0, <1>2, <1>3 DEF AloneInv
<1>5. MatchInv'
  BY <1>0, <1>1, <1>2 DEF MatchInv
<1> QED
  BY <1>4, <1>5

\* What the helper answers.
LEMMA AnswerStep ==
  ASSUME ProfTypeOK, AloneInv, MatchInv, NEW r \in Requests,
         HelperSwitches(r) \/ HelperRefuses(r) \/ HelperFails(r)
  PROVE  AloneInv' /\ MatchInv'
<1>1. /\ AtHelper(r) /\ OnItsWay(r) /\ UNCHANGED <<rows, edit>>
      /\ \A q \in Requests \ {r} : pc'[q] = pc[q] /\ local'[q] = local[q]
      /\ alone \in Requests \cup {Nil} /\ parted \in BOOLEAN
  BY DEF HelperSwitches, HelperRefuses, HelperFails, Answer, Goto, Forget, OnItsWay,
     AtHelper, ProfTypeOK
<1>2. \A q \in Requests \ {r} : OnItsWay(q)' <=> OnItsWay(q)
  BY <1>1 DEF OnItsWay, AtHelper
<1>3. CASE HelperSwitches(r)
  <2>1. UNCHANGED <<parted, alone>> /\ running' = local[r].id
    BY <1>3 DEF HelperSwitches, Switches, history
  <2>2. ASSUME alone = r
        PROVE  /\ pc[r] = "wait" /\ edit = Nil /\ pc'[r] = "flag"
               /\ local'[r] = local[r] /\ \A q \in Requests : OnItsWay(q) => q = r
    <3>1. pc[r] # "gone" /\ \A q \in Requests : OnItsWay(q) => q = r
      BY <1>1, <2>2 DEF AloneInv
    <3>2. pc[r] = "wait"
      BY <1>1, <3>1 DEF AtHelper
    <3>3. edit = Nil
      BY <1>1, <2>2, <3>2 DEF AloneInv
    <3> QED
      BY <1>3, <3>1, <3>2, <3>3 DEF HelperSwitches, Answer, Goto, ProfTypeOK
  <2>3. AloneInv'
    <3> SUFFICES ASSUME alone # Nil, OnItsWay(alone)' PROVE AloneInv'
      BY <2>1 DEF AloneInv
    <3>1. alone = r
      <4>1. alone \in Requests /\ alone' = alone
        BY <1>1, <2>1
      <4>2. alone = r \/ OnItsWay(alone)
        BY <1>2, <4>1 DEF OnItsWay, AtHelper
      <4> QED
        BY <1>1, <4>2 DEF AloneInv
    <3>2. /\ edit' = Nil /\ pc'[r] = "flag" /\ alone' = r
          /\ running' = local'[r].id
      BY <1>1, <2>1, <2>2, <3>1
    <3>3. \A q \in Requests : OnItsWay(q)' => q = r
      BY <1>2, <2>2, <3>1
    <3> QED
      BY <3>2, <3>3 DEF AloneInv
  <2>4. MatchInv'
    <3> SUFFICES ASSUME ~parted PROVE MatchInv'
      BY <2>1 DEF MatchInv
    <3>1. alone = r
      BY <1>1 DEF MatchInv
    <3>2. edit' = Nil /\ pc'[r] = "flag" /\ alone' = r
      BY <1>1, <2>1, <2>2, <3>1
    <3>3. \A q \in Requests : OnItsWay(q)' => q = r
      BY <1>2, <2>2, <3>1
    <3> QED
      BY <3>2, <3>3 DEF MatchInv
  <2> QED
    BY <2>3, <2>4
<1>4. ASSUME UNCHANGED <<running, parted, alone>>, pc'[r] = "idle"
      PROVE  AloneInv' /\ MatchInv'
  <2>1. AloneInv'
    BY <1>1, <1>2, <1>4 DEF AloneInv, OnItsWay, AtHelper
  <2>2. MatchInv'
    <3> SUFFICES ASSUME ~parted PROVE MatchInv'
      BY <1>4 DEF MatchInv
    <3>1. alone = r /\ \A q \in Requests : OnItsWay(q) => q = r
      BY <1>1 DEF MatchInv
    <3>2. \A q \in Requests : pc[q] # "flag"
      BY <1>1, <3>1 DEF OnItsWay, AtHelper
    <3>3. Agree'
      BY <1>1, <1>4, <3>2 DEF MatchInv, Agree, Exists
    <3> QED
      BY <1>1, <1>2, <1>4, <3>1, <3>3 DEF MatchInv, OnItsWay, AtHelper
  <2> QED
    BY <2>1, <2>2
<1>5. CASE HelperRefuses(r) \/ HelperFails(r)
  <2>1. pc'[r] = "idle"
    BY <1>5 DEF HelperRefuses, HelperFails, Answer, Goto, ProfTypeOK
  <2>2. \/ parted' = TRUE /\ alone' = Nil
        \/ UNCHANGED <<running, parted, alone>>
    BY <1>1, <1>5, FailedIsUndone DEF HelperRefuses, HelperFails, Stays, history
  <2> QED
    BY <1>4, <2>1, <2>2 DEF AloneInv, MatchInv
<1> QED
  BY <1>3, <1>5

\* What another client does to the current configuration.
LEMMA EditStep ==
  ASSUME ProfTypeOK, AloneInv, MatchInv, EditBegins \/ EditEnds
  PROVE  AloneInv' /\ MatchInv'
<1>1. /\ UNCHANGED <<rows, pc, local>>
      /\ alone \in Requests \cup {Nil} /\ parted \in BOOLEAN
  BY DEF EditBegins, EditEnds, ProfTypeOK
<1>2. ASSUME parted' = TRUE, alone' = Nil
      PROVE  AloneInv' /\ MatchInv'
  BY <1>2 DEF AloneInv, MatchInv
<1>3. CASE EditBegins
  <2>1. CASE \E r \in Requests : AtHelper(r)
    BY <1>2, <1>3, <2>1 DEF EditBegins, Parts
  <2>2. CASE \A r \in Requests : ~AtHelper(r)
    <3>1. UNCHANGED <<running, parted, alone>> /\ edit' \in {0, running}
      BY <1>1, <1>3, <2>2 DEF EditBegins, Parts
    <3>2. AloneInv'
      BY <1>1, <2>2, <3>1 DEF AloneInv, OnItsWay, AtHelper
    <3>3. MatchInv'
      BY <1>1, <3>1 DEF MatchInv, OnItsWay, AtHelper, Agree, Exists
    <3> QED
      BY <3>2, <3>3
  <2> QED
    BY <2>1, <2>2
<1>4. CASE EditEnds
  <2>1. edit # Nil /\ edit' = Nil
    BY <1>4 DEF EditEnds
  <2>2. \/ parted' = TRUE /\ alone' = Nil
        \/ UNCHANGED <<parted, alone>> /\ running' \in {running, edit}
    BY <1>1, <1>4, FailedIsUndone DEF EditEnds, Switches, Stays, history
  <2>3. ASSUME UNCHANGED <<parted, alone>>, running' \in {running, edit}
        PROVE  AloneInv'
    BY <1>1, <2>1, <2>3 DEF AloneInv, OnItsWay, AtHelper
  <2>4. ASSUME UNCHANGED <<parted, alone>>, running' \in {running, edit}
        PROVE  MatchInv'
    <3> SUFFICES ASSUME ~parted PROVE MatchInv'
      BY <2>4 DEF MatchInv
    <3>1. running' \in {running, 0}
      BY <2>1, <2>4 DEF MatchInv
    <3>2. Agree => Agree'
      BY <1>1, <3>1 DEF Agree, Exists
    <3> QED
      BY <1>1, <2>1, <2>4, <3>2 DEF MatchInv, OnItsWay, AtHelper
  <2> QED
    BY <1>2, <2>2, <2>3, <2>4
<1> QED
  BY <1>3, <1>4

\* The mark and the helper agree again after every step, or are parted.
LEMMA MatchStep ==
  ASSUME ProfTypeOK, IdsAreOld, AloneInv, MatchInv, [ProfNext]_profVars
  PROVE  AloneInv' /\ MatchInv'
<1>1. ASSUME UNCHANGED rows
      PROVE  FlagsStay
  BY <1>1 DEF FlagsStay, Exists
<1>2. CASE UNCHANGED profVars
  BY <1>1, <1>2, TableKeepsMatch DEF profVars
<1>3. ASSUME NEW r \in Requests, Create(r)
      PROVE  AloneInv' /\ MatchInv'
  BY <1>3, CreateKeeps, TableKeepsMatch DEF Create
<1>4. ASSUME NEW r \in Requests, NEW i \in Ids, Delete(r, i)
      PROVE  AloneInv' /\ MatchInv'
  <2>1. FlagsStay
    BY <1>4 DEF Delete, FlagsStay, Exists, ProfTypeOK
  <2> QED
    BY <1>4, <2>1, TableKeepsMatch DEF Delete
<1>5. ASSUME NEW r \in Requests, NEW i \in Ids,
             UpdateRead(r, i) \/ RefreshRead(r, i) \/ ActivateRead(r, i)
      PROVE  AloneInv' /\ MatchInv'
  BY <1>1, <1>5, TableKeepsMatch
     DEF UpdateRead, RefreshRead, ActivateRead, Read, Goto, ProfTypeOK
<1>6. ASSUME NEW r \in Requests, UpdateWrite(r) \/ RefreshWrite(r)
      PROVE  AloneInv' /\ MatchInv'
  <2>1. local[r] \in Held /\ local[r].id \in Ids
    BY <1>6, HasRead DEF UpdateWrite, RefreshWrite, Goto
  <2>2. FlagsStay
    BY <1>1, <1>6, <2>1, SaveKeeps
       DEF UpdateWrite, RefreshWrite, Held, ProfTypeOK, Table
  <2> QED
    BY <1>6, <2>2, TableKeepsMatch
       DEF UpdateWrite, RefreshWrite, Goto, Forget, ProfTypeOK
<1>7. ASSUME NEW r \in Requests, Send(r)
      PROVE  AloneInv' /\ MatchInv'
  <2>1. CASE HelperBusy
    BY <1>7, <2>1 DEF Send, AloneInv, MatchInv
  <2>2. CASE ~HelperBusy
    <3>1. edit = Nil /\ \A q \in Requests : ~OnItsWay(q)
      BY <2>2 DEF HelperBusy
    <3>2. /\ \A q \in Requests : pc'[q] = IF q = r THEN "wait" ELSE pc[q]
          /\ UNCHANGED <<rows, running, edit>> /\ alone' = r /\ parted' = parted
      BY <1>7, <2>2 DEF Send, Goto, ProfTypeOK, helperVars
    <3>3. \A q \in Requests : OnItsWay(q)' <=> q = r
      BY <3>1, <3>2 DEF OnItsWay, AtHelper
    <3>4. ~parted => Agree'
      BY <3>1, <3>2 DEF MatchInv, Agree, Exists, OnItsWay
    <3> QED
      BY <3>1, <3>2, <3>3, <3>4 DEF AloneInv, MatchInv
  <2> QED
    BY <2>1, <2>2
<1>8. ASSUME NEW r \in Requests, Flag(r)
      PROVE  AloneInv' /\ MatchInv'
  <2>1. alone' = Nil /\ AloneInv'
    BY <1>8 DEF Flag, AloneInv
  <2>2. MatchInv'
    <3> SUFFICES ASSUME ~parted' PROVE MatchInv'
      BY DEF MatchInv
    <3>1. pc[r] = "flag" /\ OnItsWay(r) /\ local[r].id \in Ids
      BY <1>8, HasRead DEF Flag, Goto, OnItsWay
    <3>2. alone = r /\ rows' = Flagged(local[r].id) /\ UNCHANGED <<running, edit>>
      BY <1>8, <3>1 DEF Flag, MatchInv, helperVars
    <3>3. /\ running \in {local[r].id, 0} /\ edit \in {Nil, 0, running}
          /\ \A q \in Requests : OnItsWay(q) => q = r
      BY <3>1, <3>2 DEF AloneInv
    <3>4. Marks(local[r].id)
      BY <3>1, <3>2, FlaggedKeeps DEF ProfTypeOK, Table
    <3>5. Agree'
      BY <3>1, <3>2, <3>3, <3>4 DEF Agree, Marks, Exists
    <3>6. \A q \in Requests : pc'[q] = IF q = r THEN "idle" ELSE pc[q]
      BY <1>8 DEF Flag, Goto, ProfTypeOK
    <3> QED
      BY <3>2, <3>3, <3>5, <3>6 DEF MatchInv, OnItsWay, AtHelper
  <2> QED
    BY <2>1, <2>2
<1>9. ASSUME NEW r \in Requests, GivesUp(r)
      PROVE  AloneInv' /\ MatchInv'
  BY <1>9 DEF GivesUp, Parts, AloneInv, MatchInv
<1>10. CASE Restart
  <2>1. CASE \E r \in Requests : OnItsWay(r)
    BY <1>10, <2>1 DEF Restart, Parts, AloneInv, MatchInv
  <2>2. CASE \A r \in Requests : ~OnItsWay(r)
    <3>1. /\ UNCHANGED <<rows, running, edit>> /\ alone' = alone
          /\ parted' = parted /\ alone \in Requests \cup {Nil}
      BY <1>10, <2>2 DEF Restart, Parts, helperVars, ProfTypeOK
    <3>2. \A q \in Requests : pc'[q] = "idle"
      BY <1>10, <2>2 DEF Restart, OnItsWay
    <3>3. ~parted => Agree'
      BY <2>2, <3>1 DEF MatchInv, Agree, Exists, OnItsWay
    <3> QED
      BY <3>1, <3>2, <3>3 DEF AloneInv, MatchInv, OnItsWay, AtHelper
  <2> QED
    BY <2>1, <2>2
<1> QED
  BY <1>2, <1>3, <1>4, <1>5, <1>6, <1>7, <1>8, <1>9, <1>10, AnswerStep, EditStep
     DEF ProfNext

\* activateProfile's mark follows the helper, through refused and undone switches
\* and whatever others do to the table and to the current configuration, unless
\* requests overlap there, one is interrupted, not undone or gets no mark; and it
\* does so again once an activation has succeeded alone.
THEOREM MarkFollowsHelper == ProfSpec => []FlagMatchesHelper
<1>1. ProfInit => IdsAreOld /\ AloneInv /\ MatchInv
  BY DEF ProfInit, IdsAreOld, Old, AloneInv, MatchInv, Agree, OnItsWay, AtHelper,
     Exists
<1>2. IdsAreOld /\ MatchInv => FlagMatchesHelper
  BY DEF MatchInv, FlagMatchesHelper, Agree
<1> QED
  BY <1>1, <1>2, IdsStayOld, MatchStep, ProfilesTyped, PTL DEF ProfSpec
===============================================================================
