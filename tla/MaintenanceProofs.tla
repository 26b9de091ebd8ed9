--------------------------- MODULE MaintenanceProofs ---------------------------
(***************************************************************************)
(* Cores, selection and GeoData for every set of maintainers, tags,        *)
(* binaries, files and releases.  The lock is what makes mihomo.tmp belong *)
(* to one handler from its test to its rename; that updateGeoData stops    *)
(* the core after its last write is what makes everyone load the new files.*)
(* What a failed update or selection leaves in force is followed through   *)
(* its labels, and so is what the tests have seen against what active.yaml *)
(* holds, beside an activation at any step.                                *)
(***************************************************************************)
EXTENDS Maintenance, TLAPS

USE MaintenanceAssumption

(***************************************************************************)
(* Types.                                                                  *)

\* The core in force is one.
LEMMA CoreBinaryIsOne ==
  ASSUME FileTypes
  PROVE  CoreBinary \in Images \cup {Bundled} /\ SelectedId \in Ids
BY DEF FileTypes, CoreBinary, Available, Binary, SelectedId, Ids

LEMMA LaunchTypes ==
  ASSUME FileTypes, Launch \/ StartOK \/ StartError \/ Stop \/ UNCHANGED running
  PROVE  running' \in Started \cup {Nil}
BY CoreBinaryIsOne DEF Launch, StartOK, StartError, Stop, FileTypes, Started

\* A file takes a value or keeps its own.
LEMMA FileTyped ==
  ASSUME NEW file, NEW file1, NEW T, file \in [Tags -> T], NEW t, NEW data,
         data \in T \/ t \notin Tags,
         file1 = file \/ file1 = [file EXCEPT ![t] = data]
  PROVE  file1 \in [Tags -> T]
OBVIOUS

LEMMA UpdateFiles ==
  ASSUME MaintTypeOK, NEW m \in Maintainers, Update(m)
  PROVE  FileTypes'
<1> DEFINE t == job[m].id
           T == Images \cup {Nil}
<1> USE DEF MaintTypeOK, FileTypes
<1>1. pc[m] # "idle" => job[m] \in Job
  BY DEF JobTypes
<1>2. pc[m] # "idle" => job[m].new \in T
  BY <1>1 DEF Job, Images
<1>3. /\ tmp[t] \in T \/ t \notin Tags
      /\ installed[t] \in T \/ t \notin Tags
      /\ previous[t] \in T \/ t \notin Tags
  OBVIOUS
<1>4. UNCHANGED <<selected, geo, active, edit>>
  BY DEF Update, UpdateEnters, WriteTmp, TryBinary, TryActive, Discard, MoveAside,
     Publish, Tidy, UndoStop, Remove, UndoRename, LastStart, Answer, Enter, Step,
     Leave, disk, config
<1>5. running' \in Started \cup {Nil}
  BY LaunchTypes DEF Update, UpdateEnters, WriteTmp, TryBinary, TryActive, Discard,
     MoveAside, Publish, Tidy, UndoStop, Remove, UndoRename, LastStart, Answer, Enter
<1>6. tmp' \in [Tags -> T]
  <2>1. CASE WriteTmp(m)
    <3>1. \/ UNCHANGED tmp
          \/ File(tmp, t, Broken)
          \/ File(tmp, t, job[m].new) /\ pc[m] # "idle"
      BY <2>1 DEF WriteTmp, Step, File
    <3> QED
      BY <1>2, <3>1 DEF File, Images
  <2>2. CASE ~WriteTmp(m)
    <3>1. UNCHANGED tmp \/ File(tmp, t, Nil)
      BY <2>2 DEF Update, UpdateEnters, TryBinary, TryActive, Discard, MoveAside,
         Publish, Tidy, UndoStop, Remove, UndoRename, LastStart, Answer, Enter, disk,
         cores
    <3> QED
      BY <1>2, <3>1 DEF File
  <2> QED
    BY <2>1, <2>2
<1>7. previous' \in [Tags -> T]
  <2>1. \/ UNCHANGED previous
        \/ File(previous, t, Nil)
        \/ File(previous, t, installed[t])
    BY DEF Update, UpdateEnters, WriteTmp, TryBinary, TryActive, Discard, MoveAside,
       Publish, Tidy, UndoStop, Remove, UndoRename, PutBack, File, LastStart, Answer,
       Enter, disk, cores
  <2> QED
    BY <1>3, <2>1 DEF File
<1>8. installed' \in [Tags -> T]
  <2>1. \/ UNCHANGED installed
        \/ File(installed, t, Nil)
        \/ File(installed, t, tmp[t])
        \/ File(installed, t, previous[t])
    BY DEF Update, UpdateEnters, WriteTmp, TryBinary, TryActive, Discard, MoveAside,
       Publish, Tidy, UndoStop, Remove, UndoRename, PutBack, File, LastStart, Answer,
       Enter, disk, cores
  <2> QED
    BY <1>3, <2>1 DEF File
<1> QED
  BY <1>4, <1>5, <1>6, <1>7, <1>8

LEMMA SelectFiles ==
  ASSUME MaintTypeOK, NEW m \in Maintainers, Select(m)
  PROVE  FileTypes'
<1> USE DEF MaintTypeOK, FileTypes
<1>1. UNCHANGED <<cores, geo, active, edit>>
  BY DEF Select, SelectEnters, Choose, SelectStop, Record, SelectStart, Unrecord,
     StartBefore, SelectFails, SelectWorks, Enter, Step, Leave, disk, config
<1>2. running' \in Started \cup {Nil}
  BY LaunchTypes DEF Select, SelectEnters, Choose, SelectStop, Record, SelectStart,
     Unrecord, StartBefore, Enter
<1>3. pc[m] # "idle" => job[m].id \in Ids /\ job[m].before \in Ids
  BY DEF JobTypes, Job
<1>4. selected' \in Ids \cup {Nil}
  BY <1>3 DEF Select, SelectEnters, Choose, SelectStop, Record, SelectStart,
     Unrecord, StartBefore, Enter, Step, disk
<1> QED
  BY <1>1, <1>2, <1>4 DEF cores

LEMMA GeoFilesTyped ==
  ASSUME MaintTypeOK, NEW m \in Maintainers, Geo(m)
  PROVE  FileTypes'
<1> USE DEF MaintTypeOK, FileTypes
<1>1. UNCHANGED <<cores, selected, active, edit>>
  BY DEF Geo, GeoEnters, WriteGeo, GeoStop, Enter, Step, Leave, disk, config
<1>2. running' \in Started \cup {Nil}
  BY LaunchTypes DEF Geo, GeoEnters, WriteGeo, GeoStop, Enter
<1>3. pc[m] # "idle" => job[m].release \in Releases \cup {Nil}
  BY DEF JobTypes, Job
<1>4. geo' \in [GeoFiles -> Releases \cup {Nil}]
  BY <1>3 DEF Geo, GeoEnters, WriteGeo, GeoStop, Enter, Step, disk
<1> QED
  BY <1>1, <1>2, <1>4 DEF cores

\* What a handler holds, after any step of its own.
LEMMA JobsTyped ==
  ASSUME MaintTypeOK, NEW m \in Maintainers, Update(m) \/ Select(m) \/ Geo(m)
  PROVE  JobTypes'
<1> USE DEF MaintTypeOK, JobTypes
<1>1. ASSUME NEW label \in MaintLabels \ {"idle"}, NEW locals \in Job,
             Enter(m, label, locals)
      PROVE  JobTypes'
  BY <1>1 DEF Enter, Lock
<1>2. ASSUME NEW from, Leave(m, from)
      PROVE  JobTypes'
  BY <1>2 DEF Leave, MaintLabels
<1>3. ASSUME NEW from \in MaintLabels \ {"idle"}, NEW to \in MaintLabels \ {"idle"},
             Step(m, from, to),
             UNCHANGED job \/ \E x \in Job : job' = [job EXCEPT ![m] = x]
      PROVE  JobTypes'
  BY <1>3 DEF Step
<1>4. ASSUME pc[m] # "idle"
      PROVE  /\ [job[m] EXCEPT !.had = TRUE] \in Job
             /\ [job[m] EXCEPT !.spoiled = TRUE] \in Job
             /\ [job[m] EXCEPT !.before = SelectedId] \in Job
             /\ \A f : [job[m] EXCEPT !.files = @ \ {f}] \in Job
  BY <1>4, CoreBinaryIsOne DEF Job
<1>5. CoreBinary \in Images \cup {Bundled} /\ Bundled \in Ids
  BY CoreBinaryIsOne DEF Ids
<1>6. ASSUME Spoils(m) \/ Unspoiled, pc[m] # "idle"
      PROVE  UNCHANGED job \/ \E x \in Job : job' = [job EXCEPT ![m] = x]
  BY <1>4, <1>6 DEF Spoils, Unspoiled
<1>7. CASE UpdateEnters(m)
  <2> PICK t \in Tags, b \in Binaries, s \in BOOLEAN :
        Enter(m, "fetched",
              [kind |-> "update", id |-> t, new |-> b, select |-> s,
               had |-> FALSE, before |-> Bundled, files |-> {}, release |-> Nil,
               force |-> CoreBinary, spoiled |-> FALSE])
    BY <1>7 DEF UpdateEnters
  <2> QED
    BY <1>1, <1>5 DEF Job, Ids, MaintLabels
<1>8. CASE SelectEnters(m)
  <2> PICK i \in Ids :
        Enter(m, "choose",
              [kind |-> "select", id |-> i, new |-> Nil, select |-> TRUE,
               had |-> FALSE, before |-> Bundled, files |-> {}, release |-> Nil,
               force |-> CoreBinary, spoiled |-> FALSE])
    BY <1>8 DEF SelectEnters
  <2> QED
    BY <1>1, <1>5 DEF Job, MaintLabels
<1>9. CASE GeoEnters(m)
  <2> PICK release \in Releases, lacking \in SUBSET Optional :
        Enter(m, "geo",
              [kind |-> "geo", id |-> Bundled, new |-> Nil, select |-> FALSE,
               had |-> FALSE, before |-> Bundled, files |-> GeoFiles \ lacking,
               release |-> release, force |-> CoreBinary, spoiled |-> FALSE])
    BY <1>9 DEF GeoEnters
  <2> QED
    BY <1>1, <1>5 DEF Job, MaintLabels
<1>10. CASE MoveAside(m)
  BY <1>2, <1>3, <1>4, <1>10 DEF MoveAside, MaintLabels, Step
<1>11. CASE Remove(m) \/ UndoRename(m)
  BY <1>3, <1>6, <1>11 DEF Remove, UndoRename, MaintLabels, Step
<1>12. CASE \/ WriteTmp(m) \/ TryBinary(m) \/ TryActive(m) \/ Publish(m) \/ Tidy(m)
            \/ UndoStop(m) \/ LastStart(m) \/ Answer(m)
  BY <1>2, <1>3, <1>12 DEF WriteTmp, TryBinary, TryActive, Discard, Publish, Tidy,
     UndoStop, LastStart, Answer, MaintLabels
<1>13. ASSUME NEW from \in MaintLabels \ {"idle"},
              SelectFails(m, from) \/ SelectWorks(m, from)
       PROVE  JobTypes'
  BY <1>2, <1>3, <1>13 DEF SelectFails, SelectWorks, MaintLabels
<1>14. CASE Choose(m)
  BY <1>3, <1>4, <1>13, <1>14 DEF Choose, MaintLabels, Step
<1>15. CASE Unrecord(m)
  BY <1>3, <1>6, <1>15 DEF Unrecord, MaintLabels, Step
<1>16. CASE SelectStop(m) \/ Record(m) \/ SelectStart(m) \/ StartBefore(m)
  BY <1>3, <1>13, <1>16 DEF SelectStop, Record, SelectStart, StartBefore, MaintLabels
<1>17. CASE WriteGeo(m)
  BY <1>2, <1>3, <1>4, <1>17 DEF WriteGeo, MaintLabels, Step
<1>18. CASE GeoStop(m)
  BY <1>3, <1>18 DEF GeoStop, MaintLabels
<1> QED
  BY <1>7, <1>8, <1>9, <1>10, <1>11, <1>12, <1>14, <1>15, <1>16, <1>17, <1>18
     DEF Update, Select, Geo

\* The steps of the environment on active.yaml are those of Activation.
LEMMA EditSteps ==
  ASSUME EditAccepted \/ EditRenames \/ EditEnds \/ Ends
  PROVE  Changes!ActivationNext
BY DEF EditAccepted, EditRenames, EditEnds, Ends, Changes!ActivationNext

LEMMA EditTyped ==
  ASSUME FileTypes, Changes!ActivationNext
  PROVE  active' \in Configs \cup {Nil} /\ edit' \in Edit
<1> USE DEF FileTypes, Edit
<1>1. CASE Changes!Accept
  <2>1. PICK c \in Configs : edit' = Changes!Tested(c, active)
    BY <1>1 DEF Changes!Accept
  <2> QED
    BY <1>1, <2>1 DEF Changes!Accept, Changes!Tested
<1>2. CASE Changes!Replace
  BY <1>2 DEF Changes!Replace, Changes!Renamed
<1>3. CASE Changes!Finish
  BY <1>3 DEF Changes!Finish, Changes!NoEdit
<1>4. CASE Changes!Undo
  BY <1>4 DEF Changes!Undo, Changes!NoEdit
<1> QED
  BY <1>1, <1>2, <1>3, <1>4 DEF Changes!ActivationNext

LEMMA MaintTypeStep ==
  ASSUME MaintTypeOK, [MaintNext]_maintVars
  PROVE  MaintTypeOK'
<1>1. CASE UNCHANGED maintVars
  BY <1>1 DEF maintVars, disk, cores, config, MaintTypeOK, FileTypes, JobTypes
<1>2. CASE OthersStart \/ OthersStop \/ EditAccepted \/ EditRenames \/ EditEnds
         \/ Ends \/ Boot
  <2>1. running' \in Started \cup {Nil}
    BY <1>2, LaunchTypes DEF OthersStart, OthersStop, EditAccepted, EditRenames, EditEnds, Ends,
       Boot, MaintTypeOK
  <2>2. active' \in Configs \cup {Nil} /\ edit' \in Edit
    <3>1. CASE EditAccepted \/ EditRenames \/ EditEnds \/ Ends
      BY <3>1, EditSteps, EditTyped DEF MaintTypeOK
    <3>2. CASE OthersStart \/ OthersStop \/ Boot
      BY <3>2 DEF OthersStart, OthersStop, Boot, config, MaintTypeOK, FileTypes
    <3> QED
      BY <1>2, <3>1, <3>2
  <2>3. UNCHANGED disk
    BY <1>2 DEF OthersStart, OthersStop, EditAccepted, EditRenames, EditEnds, Ends, Boot
  <2>4. FileTypes'
    BY <2>1, <2>2, <2>3 DEF disk, cores, MaintTypeOK, FileTypes
  <2>5. JobTypes'
    BY <1>2 DEF OthersStart, OthersStop, EditAccepted, EditRenames, EditEnds, Ends, Boot,
       MaintTypeOK, JobTypes, MaintLabels
  <2> QED
    BY <2>4, <2>5 DEF MaintTypeOK
<1> QED
  BY <1>1, <1>2, UpdateFiles, SelectFiles, GeoFilesTyped, JobsTyped
     DEF MaintNext, MaintTypeOK

\* MaintTypeOK for every set of maintainers, tags, binaries and files.
THEOREM MaintenanceTyped == MaintSpec => []MaintTypeOK
<1>1. MaintInit => MaintTypeOK
  BY DEF MaintInit, Changes!ActivationInit, Changes!NoEdit, MaintTypeOK, FileTypes, Edit,
     JobTypes, MaintLabels
<1> QED
  BY <1>1, MaintTypeStep, PTL DEF MaintSpec

(***************************************************************************)
(* The lock, and what it protects.                                         *)

\* The functions are functions of their domains.
Shape ==
  /\ pc = [m \in Maintainers |-> pc[m]]
  /\ job = [m \in Maintainers |-> job[m]]
  /\ installed = [t \in Tags |-> installed[t]]
  /\ previous = [t \in Tags |-> previous[t]]

\* Who is at work holds the lock.
Exclusive == \A m \in Maintainers : pc[m] # "idle" => lock = m

Tested == {"tried", "accepted", "aside"}

\* What is installed, was installed or is about to be has run.
HasRun ==
  /\ \A t \in Tags : installed[t] = Nil \/ Runs(installed[t])
  /\ \A t \in Tags : previous[t] = Nil \/ Runs(previous[t])
  /\ \A m \in Maintainers : pc[m] \in Tested => Runs(tmp[job[m].id])

CoresInv == Shape /\ Exclusive /\ HasRun

\* What a step of m does to the handlers: it is m's own step, m has the lock
\* unless it is idle, and keeps it unless it ends.
Own(m) ==
  /\ pc' = [pc EXCEPT ![m] = pc'[m]]
  /\ job' = [job EXCEPT ![m] = job'[m]]
  /\ pc[m] = "idle" => lock = Nil
  /\ pc'[m] # "idle" => lock' = m

LEMMA StepIsOwn ==
  ASSUME CoresInv, NEW m \in Maintainers, Update(m) \/ Select(m) \/ Geo(m)
  PROVE  Own(m)
<1> USE DEF CoresInv, Shape, Exclusive
<1>1. ASSUME NEW label, NEW locals, Enter(m, label, locals)
      PROVE  Own(m)
  BY <1>1 DEF Enter, Lock, Own
<1>2. ASSUME NEW from, Leave(m, from), from # "idle"
      PROVE  Own(m)
  BY <1>2 DEF Leave, Own
<1>3. ASSUME NEW from, NEW to, Step(m, from, to), from # "idle",
             job' = [job EXCEPT ![m] = job'[m]]
      PROVE  Own(m)
  BY <1>3 DEF Step, Own
<1>4. UNCHANGED job => job' = [job EXCEPT ![m] = job'[m]]
  OBVIOUS
<1>5. Spoils(m) => job' = [job EXCEPT ![m] = job'[m]]
  BY DEF Spoils
<1>6. CASE Update(m)
  BY <1>1, <1>2, <1>3, <1>4, <1>5, <1>6
     DEF Update, UpdateEnters, WriteTmp, TryBinary, TryActive, Discard, MoveAside,
         Publish, Tidy, UndoStop, Remove, UndoRename, LastStart, Answer, Unspoiled
<1>7. CASE Select(m)
  BY <1>1, <1>2, <1>3, <1>4, <1>5, <1>7
     DEF Select, SelectEnters, Choose, SelectStop, Record, SelectStart, Unrecord,
         StartBefore, SelectFails, SelectWorks, Unspoiled
<1>8. CASE Geo(m)
  BY <1>1, <1>2, <1>3, <1>4, <1>8 DEF Geo, GeoEnters, WriteGeo, GeoStop
<1> QED
  BY <1>6, <1>7, <1>8

\* Nobody else is at work before or after it.
LEMMA OthersAreIdle ==
  ASSUME CoresInv, NEW m \in Maintainers, Own(m)
  PROVE  /\ \A q \in Maintainers \ {m} : pc[q] = "idle" /\ pc'[q] = "idle"
         /\ Exclusive'
         /\ pc' = [q \in Maintainers |-> pc'[q]]
         /\ job' = [q \in Maintainers |-> job'[q]]
BY DEF CoresInv, Shape, Exclusive, Own

\* It is enough to look at the files and at m.
LEMMA FilesSuffice ==
  ASSUME CoresInv, NEW m \in Maintainers, Own(m),
         installed' = [t \in Tags |-> installed'[t]],
         previous' = [t \in Tags |-> previous'[t]],
         \A t \in Tags : installed'[t] = Nil \/ Runs(installed'[t]),
         \A t \in Tags : previous'[t] = Nil \/ Runs(previous'[t]),
         pc'[m] \in Tested => Runs(tmp'[job'[m].id])
  PROVE  CoresInv'
<1>1. "idle" \notin Tested
  BY DEF Tested
<1>2. \A q \in Maintainers : pc'[q] \in Tested => q = m
  BY <1>1, OthersAreIdle
<1> QED
  BY <1>2, OthersAreIdle DEF CoresInv, Shape, HasRun, Runs

\* Steps of m that leave the cores and test nothing.
LEMMA CoresStay ==
  ASSUME CoresInv, NEW m \in Maintainers, Own(m),
         UNCHANGED <<installed, previous>>, pc'[m] \notin Tested
  PROVE  CoresInv'
BY FilesSuffice DEF CoresInv, Shape, HasRun

(***************************************************************************)
(* The steps, one by one.                                                  *)

LEMMA UpdateKeeps ==
  ASSUME CoresInv, MaintTypeOK, NEW m \in Maintainers, Update(m)
  PROVE  CoresInv'
<1> USE DEF CoresInv, Shape, HasRun
<1>1. Own(m)
  BY StepIsOwn
<1>2. CASE UpdateEnters(m)
  BY <1>1, <1>2, CoresStay DEF UpdateEnters, Enter, disk, cores, Tested
<1>3. CASE WriteTmp(m)
  BY <1>1, <1>3, CoresStay DEF WriteTmp, Step, Leave, Tested
<1>4. ASSUME NEW from, Discard(m, from)
      PROVE  CoresInv'
  BY <1>1, <1>4, CoresStay DEF Discard, Leave, Tested
<1>5. CASE TryBinary(m)
  <2>1. CASE Step(m, "written", "tried") /\ Runs(tmp[job[m].id])
               /\ UNCHANGED <<job, disk>>
    BY <1>1, <2>1, FilesSuffice DEF disk, cores
  <2> QED
    BY <1>4, <1>5, <2>1 DEF TryBinary
<1>6. CASE TryActive(m)
  <2>1. CASE Step(m, "tried", "accepted") /\ UNCHANGED <<job, disk>>
    BY <1>1, <2>1, FilesSuffice DEF disk, cores, Step, Tested
  <2> QED
    BY <1>4, <1>6, <2>1 DEF TryActive
<1>7. CASE MoveAside(m)
  <2> DEFINE t == job[m].id
  <2>1. pc[m] = "accepted" /\ Runs(tmp[t])
    BY <1>7 DEF MoveAside, Step, Leave, Tested
  <2>2. CASE Step(m, "accepted", "aside") /\ UNCHANGED <<job, disk>>
    BY <1>1, <2>1, <2>2, FilesSuffice DEF disk, cores
  <2>3. CASE /\ Step(m, "accepted", "aside")
             /\ File(previous, t, installed[t])
             /\ File(installed, t, Nil)
             /\ job' = [job EXCEPT ![m].had = TRUE]
             /\ UNCHANGED tmp
    <3>1. job'[m].id = t
      <4>1. job[m] \in Job
        BY <2>1 DEF MaintTypeOK, JobTypes
      <4> QED
        BY <2>3, <4>1 DEF Job
    <3>2. /\ \A u \in Tags : installed'[u] \in {Nil, installed[u]}
          /\ \A u \in Tags : previous'[u] \in {previous[u], installed[u]}
      BY <2>3 DEF File
    <3>3. /\ \A u \in Tags : installed'[u] = Nil \/ Runs(installed'[u])
          /\ \A u \in Tags : previous'[u] = Nil \/ Runs(previous'[u])
      BY <3>2
    <3>4. /\ installed' = [u \in Tags |-> installed'[u]]
          /\ previous' = [u \in Tags |-> previous'[u]]
      BY <2>3 DEF File
    <3>5. Runs(tmp'[job'[m].id])
      BY <2>1, <2>3, <3>1
    <3> HIDE DEF t
    <3> QED
      BY <1>1, <3>3, <3>4, <3>5, FilesSuffice
  <2>4. CASE /\ Leave(m, "accepted")
             /\ previous' \in {previous, [previous EXCEPT ![t] = Nil]}
             /\ UNCHANGED installed
    BY <1>1, <2>4, FilesSuffice DEF Leave, Tested
  <2> QED
    BY <1>7, <2>2, <2>3, <2>4 DEF MoveAside
<1>8. CASE Publish(m)
  <2> DEFINE t == job[m].id
  <2>1. Runs(tmp[t])
    BY <1>8 DEF Publish, Tested
  <2>2. pc'[m] \notin Tested
    BY <1>8 DEF Publish, Step, Leave, Tested
  <2>3. UNCHANGED installed \/ File(installed, t, tmp[t])
    BY <1>8 DEF Publish
  <2>4. UNCHANGED previous
    BY <1>8 DEF Publish
  <2> QED
    BY <1>1, <2>1, <2>2, <2>3, <2>4, FilesSuffice DEF File
<1>9. CASE UndoRename(m)
  <2>1. pc'[m] \notin Tested
    BY <1>9 DEF UndoRename, Step, Tested
  <2>2. UNCHANGED <<installed, previous>> \/ PutBack(job[m].id)
    BY <1>9 DEF UndoRename
  <2> QED
    BY <1>1, <2>1, <2>2, FilesSuffice DEF PutBack, File
<1>10. CASE Tidy(m)
  BY <1>1, <1>10, FilesSuffice DEF Tidy, Leave, Tested
<1>11. CASE Remove(m)
  <2>1. pc'[m] \notin Tested
    BY <1>11 DEF Remove, Step, Tested
  <2>2. UNCHANGED installed \/ File(installed, job[m].id, Nil)
    BY <1>11 DEF Remove
  <2> QED
    BY <1>1, <1>11, <2>1, <2>2, FilesSuffice DEF File, Remove
<1>12. CASE UndoStop(m) \/ LastStart(m) \/ Answer(m)
  BY <1>1, <1>12, CoresStay
     DEF UndoStop, LastStart, Answer, Step, Leave, disk, cores, Tested
<1> QED
  BY <1>2, <1>3, <1>5, <1>6, <1>7, <1>8, <1>9, <1>10, <1>11, <1>12 DEF Update

LEMMA SelectKeeps ==
  ASSUME CoresInv, NEW m \in Maintainers, Select(m)
  PROVE  CoresInv'
<1>1. Own(m)
  BY StepIsOwn
<1>2. UNCHANGED <<installed, previous>>
  BY DEF Select, SelectEnters, Enter, Choose, SelectStop, Record, SelectStart,
     Unrecord, StartBefore, disk, cores
<1>3. pc'[m] \notin Tested
  <2>1. ASSUME NEW from, SelectFails(m, from) \/ SelectWorks(m, from)
        PROVE  pc'[m] \notin Tested
    BY <2>1 DEF SelectFails, SelectWorks, Step, Leave, Tested, CoresInv, Shape
  <2> QED
    BY <2>1 DEF Select, SelectEnters, Enter, Choose, SelectStop, Record,
       SelectStart, Unrecord, StartBefore, Step, Tested, CoresInv, Shape
<1> QED
  BY <1>1, <1>2, <1>3, CoresStay

LEMMA GeoKeeps ==
  ASSUME CoresInv, NEW m \in Maintainers, Geo(m)
  PROVE  CoresInv'
<1>1. Own(m)
  BY StepIsOwn
<1>2. UNCHANGED <<installed, previous>>
  BY DEF Geo, GeoEnters, Enter, WriteGeo, GeoStop, disk, cores
<1>3. pc'[m] \notin Tested
  BY DEF Geo, GeoEnters, Enter, WriteGeo, GeoStop, Step, Leave, Tested, CoresInv,
     Shape
<1> QED
  BY <1>1, <1>2, <1>3, CoresStay

\* Steps of others, and the end of the helper.
LEMMA OthersKeep ==
  ASSUME CoresInv, UNCHANGED cores,
         \/ UNCHANGED <<pc, job, lock>>
         \/ pc' = [m \in Maintainers |-> "idle"]
            /\ job' = [m \in Maintainers |-> Nil]
  PROVE  CoresInv'
BY DEF CoresInv, Shape, Exclusive, HasRun, Runs, Tested, cores

LEMMA CoresStep ==
  ASSUME CoresInv, MaintTypeOK, [MaintNext]_maintVars
  PROVE  CoresInv'
<1>1. CASE UNCHANGED maintVars
  BY <1>1, OthersKeep DEF maintVars, disk
<1>2. CASE OthersStart \/ OthersStop \/ EditAccepted \/ EditRenames \/ EditEnds
         \/ Ends \/ Boot
  BY <1>2, OthersKeep
     DEF OthersStart, OthersStop, EditAccepted, EditRenames, EditEnds, Ends, Boot, disk
<1> QED
  BY <1>1, <1>2, UpdateKeeps, SelectKeeps, GeoKeeps DEF MaintNext

\* However many updates are asked for, whatever fails and whenever the helper
\* ends, what lies under an installed core's name has run: updateCore renames
\* only what it has tried, under the lock.
THEOREM InstalledCoresHaveRun == MaintSpec => []InstalledHasRun
<1>1. MaintInit => CoresInv
  BY DEF MaintInit, CoresInv, Shape, Exclusive, HasRun, Tested
<1>2. CoresInv => InstalledHasRun
  BY DEF CoresInv, HasRun, InstalledHasRun
<1> QED
  BY <1>1, <1>2, CoresStep, MaintenanceTyped, PTL DEF MaintSpec

(***************************************************************************)
(* GeoData.                                                                *)

Mandatory  == GeoFiles \ Optional
OneRelease == \A f, g \in Mandatory : geo[f] = geo[g]
Loaded     == running # Nil => running.geo = geo

\* Half way through an update the files written are of its release; at any other
\* time they are of one release and loaded, or a failure is on record.
GeoInv ==
  /\ \A m \in Maintainers : pc[m] = "geo" =>
       \A f \in Mandatory \ job[m].files : geo[f] = job[m].release
  /\ ("geo" \notin trouble /\ \A m \in Maintainers : pc[m] # "geo") =>
       OneRelease /\ Loaded

\* A core that is started loads the files there are.
LEMMA StartLoads ==
  ASSUME Loaded, UNCHANGED geo,
         Launch \/ StartOK \/ StartError \/ Stop \/ UNCHANGED running
  PROVE  Loaded'
BY DEF Loaded, Launch, StartOK, StartError, Stop

\* Steps that write no GeoData and forget no failure.
LEMMA GeoStays ==
  ASSUME GeoInv, UNCHANGED geo, "geo" \in trouble => "geo" \in trouble',
         Launch \/ StartOK \/ StartError \/ Stop \/ UNCHANGED running,
         \/ \A m \in Maintainers : /\ pc'[m] = "geo" <=> pc[m] = "geo"
                                   /\ pc[m] = "geo" => job'[m] = job[m]
         \/ "geo" \in trouble' /\ \A m \in Maintainers : pc'[m] # "geo"
  PROVE  GeoInv'
BY StartLoads DEF GeoInv, OneRelease

LEMMA NoGeoStep ==
  ASSUME GeoInv, MaintTypeOK, CoresInv, NEW m \in Maintainers,
         Update(m) \/ Select(m)
  PROVE  GeoInv'
<1>1. UNCHANGED geo /\ ("geo" \in trouble => "geo" \in trouble')
  BY DEF Update, UpdateEnters, WriteTmp, TryBinary, TryActive, Discard, MoveAside,
     Publish, Tidy, UndoStop, Remove, UndoRename, LastStart, Answer, Unspoiled,
     Spoils, Select, SelectEnters, Choose, SelectStop, Record, SelectStart, Unrecord,
     StartBefore, Enter, disk
<1>2. Launch \/ StartOK \/ StartError \/ Stop \/ UNCHANGED running
  BY DEF Update, UpdateEnters, WriteTmp, TryBinary, TryActive, Discard, MoveAside,
     Publish, Tidy, UndoStop, Remove, UndoRename, LastStart, Answer, Select,
     SelectEnters, Choose, SelectStop, Record, SelectStart, Unrecord, StartBefore,
     Enter
<1>3. Own(m)
  BY StepIsOwn
<1>4. pc[m] # "geo" /\ pc'[m] # "geo"
  <2> USE DEF MaintTypeOK, JobTypes
  <2>1. ASSUME NEW label, NEW locals, Enter(m, label, locals), label # "geo"
        PROVE  pc[m] # "geo" /\ pc'[m] # "geo"
    BY <2>1 DEF Enter
  <2>2. ASSUME NEW from, Leave(m, from), from # "geo"
        PROVE  pc[m] # "geo" /\ pc'[m] # "geo"
    BY <2>2 DEF Leave
  <2>3. ASSUME NEW from, NEW to, Step(m, from, to), from # "geo", to # "geo"
        PROVE  pc[m] # "geo" /\ pc'[m] # "geo"
    BY <2>3 DEF Step
  <2>4. ASSUME NEW from, SelectFails(m, from) \/ SelectWorks(m, from), from # "geo"
        PROVE  pc[m] # "geo" /\ pc'[m] # "geo"
    BY <2>2, <2>3, <2>4 DEF SelectFails, SelectWorks
  <2>5. CASE Update(m)
    BY <2>1, <2>2, <2>3, <2>5 DEF Update, UpdateEnters, WriteTmp, TryBinary,
       TryActive, Discard, MoveAside, Publish, Tidy, UndoStop, Remove, UndoRename,
       LastStart, Answer
  <2>6. CASE Select(m)
    BY <2>1, <2>3, <2>4, <2>6 DEF Select, SelectEnters, Choose, SelectStop, Record,
       SelectStart, Unrecord, StartBefore
  <2> QED
    BY <2>5, <2>6
<1> QED
  BY <1>1, <1>2, <1>3, <1>4, GeoStays DEF Own, MaintTypeOK, JobTypes

\* While m is at the files nobody else is.
LEMMA GeoStep ==
  ASSUME GeoInv, MaintTypeOK, CoresInv, NEW m \in Maintainers, Geo(m)
  PROVE  GeoInv'
<1>1. Own(m)
  BY StepIsOwn
<1>2. \A q \in Maintainers \ {m} : pc[q] # "geo" /\ pc'[q] # "geo"
  BY <1>1, OthersAreIdle
<1>3. CASE GeoEnters(m)
  <2> PICK release \in Releases, lacking \in SUBSET Optional :
        Enter(m, "geo",
              [kind |-> "geo", id |-> Bundled, new |-> Nil, select |-> FALSE,
               had |-> FALSE, before |-> Bundled, files |-> GeoFiles \ lacking,
               release |-> release, force |-> CoreBinary, spoiled |-> FALSE])
    BY <1>3 DEF GeoEnters
  <2>1. pc'[m] = "geo" /\ job'[m].files = GeoFiles \ lacking
    BY DEF Enter, MaintTypeOK, JobTypes
  <2>2. Mandatory \ job'[m].files = {}
    BY <2>1 DEF Mandatory
  <2> QED
    BY <1>2, <2>1, <2>2 DEF GeoInv
<1>4. CASE WriteGeo(m)
  <2>1. pc[m] = "geo" /\ job[m] \in Job
    BY <1>4 DEF WriteGeo, Step, Leave, MaintTypeOK, JobTypes
  <2>2. CASE Leave(m, "geo") /\ trouble' = trouble \cup {"geo"}
    BY <1>2, <2>2 DEF Leave, GeoInv, MaintTypeOK, JobTypes
  <2>3. ASSUME Step(m, "geo", "geo"), NEW f \in job[m].files,
               geo' = [geo EXCEPT ![f] = job[m].release],
               job' = [job EXCEPT ![m].files = @ \ {f}]
        PROVE  GeoInv'
    <3>1. /\ job'[m].files = job[m].files \ {f}
          /\ job'[m].release = job[m].release
      BY <2>1, <2>3 DEF MaintTypeOK, JobTypes, Job
    <3>2. f \in GeoFiles
      BY <2>1 DEF Job
    <3>3. \A g \in Mandatory \ job'[m].files : geo'[g] = job'[m].release
      BY <2>1, <2>3, <3>1, <3>2 DEF GeoInv, Mandatory, MaintTypeOK, FileTypes
    <3>4. pc'[m] = "geo"
      BY <2>3 DEF Step, MaintTypeOK, JobTypes
    <3> QED
      BY <1>2, <3>3, <3>4 DEF GeoInv
  <2> QED
    BY <1>4, <2>2, <2>3 DEF WriteGeo
<1>5. CASE GeoStop(m)
  <2>1. pc[m] = "geo" /\ job[m].files = {} /\ running' = Nil /\ UNCHANGED geo
    BY <1>5 DEF GeoStop, Step, Stop, disk
  <2>2. OneRelease' /\ Loaded'
    BY <2>1 DEF GeoInv, OneRelease, Loaded
  <2>3. pc'[m] # "geo"
    BY <1>5 DEF GeoStop, Step, MaintTypeOK, JobTypes
  <2> QED
    BY <1>2, <2>2, <2>3 DEF GeoInv
<1> QED
  BY <1>3, <1>4, <1>5 DEF Geo

LEMMA GeoInvStep ==
  ASSUME GeoInv, MaintTypeOK, CoresInv, [MaintNext]_maintVars
  PROVE  GeoInv'
<1>1. CASE UNCHANGED maintVars
  BY <1>1, GeoStays DEF maintVars, disk
<1>2. CASE OthersStart \/ OthersStop \/ EditRenames \/ EditEnds \/ Boot
  BY <1>2, GeoStays DEF OthersStart, OthersStop, EditRenames, EditEnds, Boot, disk
<1>3. CASE EditAccepted
  BY <1>3, GeoStays DEF EditAccepted, disk
<1>4. CASE Ends /\ lock = Nil
  <2>1. \A m \in Maintainers : pc[m] = "idle"
    BY <1>4 DEF CoresInv, Exclusive
  <2> QED
    BY <1>4, <2>1, GeoStays DEF Ends, disk, MaintTypeOK, JobTypes
<1>5. CASE Ends /\ lock # Nil
  BY <1>5, GeoStays DEF Ends, disk
<1> QED
  BY <1>1, <1>2, <1>3, <1>4, <1>5, NoGeoStep, GeoStep DEF MaintNext

\* Whoever starts the core while updateGeoData is at work, when it is done the
\* files are of one release and the core that runs has them: it stops the core
\* after the last file is written, and whatever starts later finds them all.
THEOREM GeoDataIsLoaded == MaintSpec => []GeoIsLoaded
<1>1. MaintInit => GeoInv
  BY DEF MaintInit, GeoInv, OneRelease, Loaded, Mandatory
<1>2. MaintInit => CoresInv
  BY DEF MaintInit, CoresInv, Shape, Exclusive, HasRun, Tested
<1>3. CoresInv /\ MaintTypeOK /\ GeoInv => GeoIsLoaded
  BY DEF CoresInv, Exclusive, MaintTypeOK, JobTypes, GeoInv, GeoIsLoaded, OneRelease,
     Loaded, Mandatory
<1> QED
  BY <1>1, <1>2, <1>3, CoresStep, GeoInvStep, MaintenanceTyped, PTL DEF MaintSpec

(***************************************************************************)
(* What runs after a selection.                                            *)

\* Where a handler's steps bring it.
LEMMA Goes ==
  ASSUME MaintTypeOK, NEW m \in Maintainers
  PROVE  /\ \A label, locals : Enter(m, label, locals) =>
              pc[m] = "idle" /\ pc'[m] = label /\ job'[m] = locals
         /\ \A from, to : Step(m, from, to) => pc[m] = from /\ pc'[m] = to
         /\ \A from : Leave(m, from) =>
              pc[m] = from /\ pc'[m] = "idle" /\ lock' = Nil
BY DEF MaintTypeOK, JobTypes, Enter, Step, Leave

\* The core in force is a matter of the files alone.
LEMMA CoreStays ==
  ASSUME UNCHANGED <<installed, selected>>
  PROVE  /\ UNCHANGED <<CoreBinary, SelectedId>>
         /\ \A id : Binary(id)' = Binary(id) /\ Available(id)' = Available(id)
BY DEF CoreBinary, Available, Binary, SelectedId

\* Between the stop and the record nothing runs, and after it only the core in
\* force, unless a start came between and is on record.
RunInv ==
  /\ up \/ \A m \in Maintainers : pc[m] = "idle"
  /\ \A m \in Maintainers : "start" \notin trouble =>
       /\ pc[m] = "record" => running = Nil
       /\ pc[m] = "starting" => running = Nil \/ running.binary = CoreBinary

LEMMA RunUpdate ==
  ASSUME RunInv, MaintTypeOK, CoresInv, NEW m \in Maintainers, Update(m) \/ Geo(m)
  PROVE  RunInv'
<1>1. Own(m)
  BY StepIsOwn
<1>2. up'
  BY DEF RunInv, Update, UpdateEnters, WriteTmp, TryBinary, TryActive, Discard,
     MoveAside, Publish, Tidy, UndoStop, Remove, UndoRename, LastStart, Answer,
     Geo, GeoEnters, WriteGeo, GeoStop, Enter, Step, Leave
<1>3. pc'[m] \notin {"record", "starting"}
  BY DEF Update, UpdateEnters, WriteTmp, TryBinary, TryActive, Discard, MoveAside,
     Publish, Tidy, UndoStop, Remove, UndoRename, LastStart, Answer, Geo, GeoEnters,
     WriteGeo, GeoStop, Enter, Step, Leave, MaintTypeOK, JobTypes
<1> QED
  BY <1>1, <1>2, <1>3, OthersAreIdle DEF RunInv

LEMMA RunSelect ==
  ASSUME RunInv, MaintTypeOK, CoresInv, NEW m \in Maintainers, Select(m)
  PROVE  RunInv'
<1>1. Own(m)
  BY StepIsOwn
<1>2. up'
  BY DEF RunInv, Select, SelectEnters, Choose, SelectStop, Record, SelectStart,
     Unrecord, StartBefore, SelectFails, SelectWorks, Enter, Step, Leave
<1>3. SUFFICES ASSUME "start" \notin trouble'
               PROVE  /\ pc'[m] = "record" => running' = Nil
                      /\ pc'[m] = "starting" => running' = Nil
  BY <1>1, <1>2, OthersAreIdle DEF RunInv
<1>4. CASE SelectStop(m)
  BY <1>4, Goes DEF SelectStop, Stop
<1>5. CASE Record(m)
  BY <1>3, <1>5, Goes DEF Record, RunInv
<1>6. ASSUME NEW from, SelectFails(m, from) \/ SelectWorks(m, from)
      PROVE  pc'[m] \notin {"record", "starting"}
  BY <1>6, Goes DEF SelectFails, SelectWorks
<1>7. CASE SelectEnters(m) \/ Choose(m) \/ SelectStart(m) \/ Unrecord(m)
        \/ StartBefore(m)
  BY <1>6, <1>7 DEF SelectEnters, Choose, SelectStart, Unrecord, StartBefore,
     Enter, Step, MaintTypeOK, JobTypes
<1> QED
  BY <1>4, <1>5, <1>7 DEF Select

LEMMA RunStep ==
  ASSUME RunInv, MaintTypeOK, CoresInv, [MaintNext]_maintVars
  PROVE  RunInv'
<1>1. CASE UNCHANGED maintVars
  BY <1>1, CoreStays DEF maintVars, disk, cores, RunInv
<1>2. CASE OthersStart
  BY <1>2, CoreStays DEF OthersStart, Launch, disk, cores, RunInv
<1>3. CASE OthersStop
  BY <1>3, CoreStays DEF OthersStop, Stop, disk, cores, RunInv
<1>4. CASE EditAccepted \/ EditRenames \/ EditEnds
  <2>1. UNCHANGED <<up, pc, running, installed, selected>>
    BY <1>4 DEF EditAccepted, EditRenames, EditEnds, disk, cores
  <2>2. "start" \in trouble => "start" \in trouble'
    BY <1>4 DEF EditAccepted, EditRenames, EditEnds
  <2> QED
    BY <2>1, <2>2, CoreStays DEF RunInv
<1>5. CASE Ends
  BY <1>5 DEF Ends, RunInv
<1>6. CASE Boot
  BY <1>6 DEF Boot, RunInv
<1> QED
  BY <1>1, <1>2, <1>3, <1>4, <1>5, <1>6, RunUpdate, RunSelect DEF MaintNext

\* A handler that is at work is the only one that takes a step of its own.
LEMMA OwnStep ==
  ASSUME MaintTypeOK, CoresInv, [MaintNext]_maintVars, NEW m \in Maintainers,
         pc'[m] # pc[m], pc[m] # "idle", up'
  PROVE  Update(m) \/ Select(m) \/ Geo(m)
<1>1. ASSUME NEW q \in Maintainers, Update(q) \/ Select(q) \/ Geo(q)
      PROVE  q = m
  BY <1>1, StepIsOwn, OthersAreIdle
<1>2. CASE UNCHANGED maintVars
  BY <1>2 DEF maintVars
<1>3. CASE OthersStart \/ OthersStop \/ EditAccepted \/ EditRenames \/ EditEnds
         \/ Ends \/ Boot
  BY <1>3 DEF OthersStart, OthersStop, EditAccepted, EditRenames, EditEnds, Ends, Boot
<1> QED
  BY <1>1, <1>2, <1>3 DEF MaintNext

\* Whatever starts, stops and restarts come beside a selection, when it succeeds
\* the core that runs is the selected one: selectCore stops the core before it
\* records the choice, so that only a start in that gap finds the choice before,
\* and the invariant above keeps account of it.
THEOREM SelectedCoreRuns == MaintSpec => SwitchedIsRunning
<1> DEFINE Answers(m) ==
             /\ pc[m] = "starting" /\ pc'[m] \in {"idle", "tidy"}
             /\ up' /\ "start" \notin trouble
<1>1. MaintInit => RunInv /\ CoresInv
  BY DEF MaintInit, RunInv, CoresInv, Shape, Exclusive, HasRun, Tested
<1>2. ASSUME RunInv, MaintTypeOK, CoresInv, [MaintNext]_maintVars,
             NEW m \in Maintainers, Answers(m)
      PROVE  running'.binary = CoreBinary'
  <2>1. Update(m) \/ Select(m) \/ Geo(m)
    BY <1>2, OwnStep
  <2>2. SelectStart(m)
    <3>1. ~Update(m) /\ ~Geo(m)
      BY <1>2 DEF Update, UpdateEnters, WriteTmp, TryBinary, TryActive, Discard,
         MoveAside, Publish, Tidy, UndoStop, Remove, UndoRename, LastStart, Answer,
         Geo, GeoEnters, WriteGeo, GeoStop, Enter, Step, Leave
    <3> QED
      BY <1>2, <2>1, <3>1, Goes DEF Select, SelectEnters, Choose, SelectStop, Record,
         Unrecord, StartBefore, SelectFails
  <2>3. StartOK /\ UNCHANGED disk
    BY <1>2, <2>2, Goes DEF SelectStart
  <2> QED
    BY <1>2, <2>3, CoreStays DEF StartOK, Launch, RunInv, disk, cores
<1>3. RunInv /\ MaintTypeOK /\ CoresInv /\ [MaintNext]_maintVars =>
        [\A m \in Maintainers :
           (pc[m] = "starting" /\ pc'[m] \in {"idle", "tidy"} /\ up' /\ "start" \notin trouble)
             => running'.binary = CoreBinary']_maintVars
  BY <1>2
<1> QED
  BY <1>1, <1>3, RunStep, CoresStep, MaintenanceTyped, PTL
     DEF MaintSpec, SwitchedIsRunning

(***************************************************************************)
(* The way back of an update or a selection that fails.                    *)

\* coreBinary, were these cores installed and this one chosen.
CoreOf(files, choice) ==
  IF choice \in {Nil, Bundled} \/ files[choice] = Nil THEN Bundled ELSE files[choice]

LEMMA CoreInForce ==
  ASSUME FileTypes
  PROVE  /\ CoreBinary = CoreOf(installed, selected)
         /\ \A files : CoreOf(files, SelectedId) = CoreOf(files, selected)
BY DEF FileTypes, CoreBinary, CoreOf, Available, Binary, SelectedId, Ids

\* The labels at which an update may have set an installed core aside, and those
\* at which the choice before is to be written back.
Aside  == {"aside", "revert", "choose", "stopping", "record", "starting",
           "unrecord", "unchanged", "undo", "remove", "back"}
Chosen == {"starting", "unrecord"}

\* The installed cores and the choice that m would go back to.
FilesBefore(m) ==
  IF pc[m] \in Aside /\ job[m].kind = "update"
    THEN [installed EXCEPT ![job[m].id] =
            IF job[m].had THEN previous[job[m].id] ELSE Nil]
    ELSE installed

ChoiceBefore(m) == IF pc[m] \in Chosen THEN job[m].before ELSE selected

\* What the locals of m say at its labels.
Locals(m) ==
  LET t == job[m].id IN
  /\ pc[m] \in {"fetched", "written", "tried", "accepted", "aside", "revert", "undo",
                "remove", "back"} => job[m].kind = "update"
  /\ pc[m] # "idle" /\ job[m].kind = "update" => t \in Tags
  /\ pc[m] \in {"fetched", "written", "tried", "accepted"} => ~job[m].had
  /\ pc[m] = "aside" => installed[t] = Nil
  /\ pc[m] \in {"revert", "back"} => job[m].had
  /\ pc[m] \in {"stopping", "record"} => job[m].before = SelectedId
  /\ pc[m] = "starting" => selected = t

\* Going back brings back the core that was in force when the handler came.
Returns(m) ==
  pc[m] \notin {"idle", "tidy"} /\ ~job[m].spoiled
    => CoreOf(FilesBefore(m), ChoiceBefore(m)) = job[m].force

WayBack == \A m \in Maintainers : Locals(m) /\ Returns(m)

\* It is enough to look at m.
LEMMA WayBackSuffices ==
  ASSUME CoresInv, NEW m \in Maintainers, Own(m), Locals(m)', Returns(m)'
  PROVE  WayBack'
<1>1. \A q \in Maintainers \ {m} : pc'[q] = "idle"
  BY OthersAreIdle
<1>2. ASSUME NEW q \in Maintainers \ {m}
      PROVE  Locals(q)' /\ Returns(q)'
  BY <1>1, <1>2 DEF Locals, Returns
<1> QED
  BY <1>2 DEF WayBack

\* Who comes finds the core in force, and has touched nothing.
LEMMA WayBackEnters ==
  ASSUME MaintTypeOK, CoresInv, NEW m \in Maintainers,
         UpdateEnters(m) \/ SelectEnters(m) \/ GeoEnters(m)
  PROVE  Locals(m)' /\ Returns(m)'
<1>1. ASSUME NEW label \in {"fetched", "choose", "geo"}, NEW locals,
             Enter(m, label, locals),
             locals.force = CoreBinary, locals.had = FALSE,
             locals.kind = "update" => label = "fetched" /\ locals.id \in Tags,
             label = "fetched" => locals.kind = "update"
      PROVE  Locals(m)' /\ Returns(m)'
  <2>1. pc'[m] = label /\ job'[m] = locals /\ UNCHANGED <<installed, selected>>
    BY <1>1 DEF Enter, MaintTypeOK, JobTypes, disk, cores
  <2>2. FilesBefore(m)' = installed /\ ChoiceBefore(m)' = selected
    BY <1>1, <2>1 DEF FilesBefore, ChoiceBefore, Aside, Chosen
  <2>3. CoreBinary = CoreOf(installed, selected)
    BY CoreInForce DEF MaintTypeOK
  <2>4. Returns(m)'
    BY <1>1, <2>1, <2>2, <2>3 DEF Returns, CoreOf
  <2>5. Locals(m)'
    BY <1>1, <2>1 DEF Locals
  <2> QED
    BY <2>4, <2>5
<1>2. CASE UpdateEnters(m)
  BY <1>1, <1>2 DEF UpdateEnters
<1>3. CASE SelectEnters(m)
  BY <1>1, <1>3 DEF SelectEnters
<1>4. CASE GeoEnters(m)
  BY <1>1, <1>4 DEF GeoEnters
<1> QED
  BY <1>2, <1>3, <1>4

\* Who leaves has nothing to go back to.
LEMMA WayBackLeaves ==
  ASSUME MaintTypeOK, NEW m \in Maintainers, NEW from, Leave(m, from)
  PROVE  Locals(m)' /\ Returns(m)'
<1>1. pc'[m] = "idle"
  BY DEF Leave, MaintTypeOK, JobTypes
<1> QED
  BY <1>1 DEF Locals, Returns

\* A step that leaves the cores, the choice and the locals alone, between labels
\* that go back the same way.
LEMMA ReturnsStay ==
  ASSUME MaintTypeOK, WayBack, NEW m \in Maintainers, NEW from, NEW to,
         Step(m, from, to), UNCHANGED <<job, installed, previous, selected>>,
         from \notin {"idle", "tidy"},
         from \in Aside <=> to \in Aside, from \in Chosen <=> to \in Chosen
  PROVE  Returns(m)'
<1>1. pc[m] = from /\ pc'[m] = to
  BY DEF Step, MaintTypeOK, JobTypes
<1>2. FilesBefore(m)' = FilesBefore(m) /\ ChoiceBefore(m)' = ChoiceBefore(m)
  BY <1>1 DEF FilesBefore, ChoiceBefore
<1> QED
  BY <1>1, <1>2 DEF WayBack, Returns, CoreOf

\* updateCore up to its rename.
LEMMA WayBackInstall ==
  ASSUME MaintTypeOK, CoresInv, WayBack, NEW m \in Maintainers,
         WriteTmp(m) \/ TryBinary(m) \/ TryActive(m) \/ MoveAside(m) \/ Publish(m)
  PROVE  Locals(m)' /\ Returns(m)'
<1> DEFINE t == job[m].id
<1> USE DEF MaintTypeOK, JobTypes, FileTypes
<1>1. Locals(m) /\ Returns(m)
  BY DEF WayBack
<1>2. job[m] \in Job
  BY DEF WriteTmp, TryBinary, TryActive, Discard, MoveAside, Publish, Step, Leave
<1>3. ASSUME NEW from \in {"fetched", "written", "tried"},
             NEW to \in {"written", "tried", "accepted"},
             Step(m, from, to), UNCHANGED <<job, installed, previous, selected>>
      PROVE  Locals(m)' /\ Returns(m)'
  BY <1>1, <1>3, ReturnsStay DEF Locals, Aside, Chosen, Step
<1>4. CASE WriteTmp(m) \/ TryBinary(m) \/ TryActive(m)
  BY <1>3, <1>4, WayBackLeaves DEF WriteTmp, TryBinary, TryActive, Discard, disk, cores
<1>5. CASE MoveAside(m) /\ pc'[m] = "aside"
  <2>1. pc[m] = "accepted" /\ UNCHANGED selected
    BY <1>5 DEF MoveAside, Step, Leave, disk, cores
  <2>2. t \in Tags /\ ~job[m].had /\ job[m].kind = "update"
    BY <1>1, <1>2, <2>1 DEF Locals
  <2>3. /\ installed'[t] = Nil
        /\ job'[m].id = t /\ job'[m].kind = "update"
        /\ UNCHANGED <<job[m].force, job[m].spoiled>>
        /\ FilesBefore(m)' = installed
    <3>1. CASE installed[t] = Nil /\ UNCHANGED <<job, disk>>
      BY <1>5, <2>2, <3>1 DEF FilesBefore, Aside, disk, cores
    <3>2. CASE /\ File(previous, t, installed[t]) /\ File(installed, t, Nil)
               /\ job' = [job EXCEPT ![m].had = TRUE]
      <4>1. job'[m] = [job[m] EXCEPT !.had = TRUE]
        BY <3>2
      <4>2. /\ job'[m].had /\ job'[m].id = t /\ job'[m].kind = "update"
            /\ UNCHANGED <<job[m].force, job[m].spoiled>>
        BY <1>2, <2>2, <4>1 DEF Job
      <4>3. installed'[t] = Nil /\ previous'[t] = installed[t]
        BY <2>2, <3>2 DEF File
      <4>4. [installed' EXCEPT ![t] = previous'[t]] = installed
        BY <2>2, <3>2, <4>3 DEF File
      <4> QED
        BY <1>5, <4>2, <4>3, <4>4 DEF FilesBefore, Aside
    <3> QED
      BY <1>5, <2>1, <3>1, <3>2 DEF MoveAside, Leave
  <2>4. FilesBefore(m) = installed /\ ChoiceBefore(m) = selected /\ ChoiceBefore(m)' = selected
    BY <1>5, <2>1 DEF FilesBefore, ChoiceBefore, Aside, Chosen
  <2>5. Returns(m)'
    BY <1>1, <2>1, <2>3, <2>4 DEF Returns, CoreOf
  <2>6. Locals(m)'
    BY <1>5, <2>2, <2>3 DEF Locals
  <2> QED
    BY <2>5, <2>6
<1>6. CASE MoveAside(m) /\ pc'[m] # "aside"
  BY <1>6, WayBackLeaves DEF MoveAside, Step
<1>7. CASE Publish(m)
  <2>1. pc[m] = "aside" /\ UNCHANGED <<previous, selected>>
    BY <1>7 DEF Publish
  <2>2. t \in Tags /\ job[m].kind = "update" /\ installed[t] = Nil
    BY <1>1, <2>1 DEF Locals
  <2>3. CASE Step(m, "aside", "choose") /\ File(installed, t, tmp[t]) /\ UNCHANGED job
    <3>1. FilesBefore(m)' = FilesBefore(m)
      BY <2>1, <2>2, <2>3 DEF FilesBefore, Aside, Step, File
    <3>2. ChoiceBefore(m)' = ChoiceBefore(m)
      BY <2>1, <2>3 DEF ChoiceBefore, Chosen, Step
    <3> QED
      BY <1>1, <2>1, <2>2, <2>3, <3>1, <3>2 DEF Returns, Locals, CoreOf, Step
  <2>4. CASE Step(m, "aside", "tidy") /\ UNCHANGED job
    BY <1>1, <2>2, <2>4 DEF Returns, Locals, Step
  <2>5. CASE Step(m, "aside", "revert") /\ UNCHANGED <<job, installed>> /\ job[m].had
    BY <1>1, <2>1, <2>2, <2>5, ReturnsStay DEF Locals, Aside, Chosen, Step
  <2> QED
    BY <1>7, <2>1, <2>3, <2>4, <2>5, WayBackLeaves DEF Publish
<1> QED
  BY <1>4, <1>5, <1>6, <1>7

\* updateCore on its way back, and at its end.
LEMMA WayBackUndo ==
  ASSUME MaintTypeOK, CoresInv, WayBack, NEW m \in Maintainers,
         \/ UndoStop(m) \/ Remove(m) \/ UndoRename(m)
         \/ LastStart(m) \/ Answer(m) \/ Tidy(m)
  PROVE  Locals(m)' /\ Returns(m)'
<1> DEFINE t == job[m].id
<1> USE DEF MaintTypeOK, JobTypes, FileTypes
<1>1. Locals(m) /\ Returns(m)
  BY DEF WayBack
<1>2. job[m] \in Job
  BY DEF UndoStop, Remove, UndoRename, LastStart, Answer, Tidy, Step, Leave
<1>3. Spoils(m) => /\ job'[m].spoiled
                   /\ job'[m].id = t /\ job'[m].kind = job[m].kind
                   /\ job'[m].had = job[m].had
  BY <1>2 DEF Spoils, Job
<1>4. CASE UndoStop(m)
  <2>1. Step(m, "undo", "remove") /\ UNCHANGED <<job, installed, previous, selected>>
    BY <1>4 DEF UndoStop, disk, cores
  <2>2. Locals(m)'
    BY <1>1, <2>1 DEF Locals, Step
  <2> QED
    BY <2>1, <2>2, ReturnsStay DEF Aside, Chosen
<1>5. CASE Remove(m)
  <2>1. /\ pc[m] = "remove" /\ pc'[m] = IF job[m].had THEN "back" ELSE "restart"
        /\ UNCHANGED <<previous, selected>>
    BY <1>5 DEF Remove, Step
  <2>2. t \in Tags /\ job[m].kind = "update"
    BY <1>1, <2>1 DEF Locals
  <2>3. CASE UNCHANGED installed /\ Spoils(m)
    BY <1>3, <2>1, <2>2, <2>3 DEF Locals, Returns
  <2>4. CASE File(installed, t, Nil) /\ Unspoiled
    <3>1. FilesBefore(m)' = FilesBefore(m)
      BY <2>1, <2>2, <2>4 DEF FilesBefore, Aside, File, Unspoiled
    <3>2. ChoiceBefore(m)' = ChoiceBefore(m)
      BY <2>1, <2>4 DEF ChoiceBefore, Chosen, Unspoiled
    <3> QED
      BY <1>1, <2>1, <2>2, <2>4, <3>1, <3>2 DEF Locals, Returns, CoreOf, Unspoiled
  <2> QED
    BY <1>5, <2>3, <2>4 DEF Remove
<1>6. CASE UndoRename(m)
  <2>1. /\ pc[m] \in {"revert", "back"} /\ pc'[m] \in {"answer", "restart"}
        /\ UNCHANGED selected
    BY <1>6 DEF UndoRename, Step
  <2>2. t \in Tags /\ job[m].kind = "update" /\ job[m].had
    BY <1>1, <2>1 DEF Locals
  <2>3. CASE UNCHANGED <<installed, previous>> /\ Spoils(m)
    BY <1>3, <2>1, <2>2, <2>3 DEF Locals, Returns
  <2>4. CASE PutBack(t) /\ Unspoiled
    <3>1. FilesBefore(m)' = FilesBefore(m)
      BY <2>1, <2>2, <2>4 DEF FilesBefore, Aside, File, PutBack, Unspoiled
    <3>2. ChoiceBefore(m)' = ChoiceBefore(m)
      BY <2>1, <2>4 DEF ChoiceBefore, Chosen, Unspoiled
    <3> QED
      BY <1>1, <2>1, <2>2, <2>4, <3>1, <3>2 DEF Locals, Returns, CoreOf, Unspoiled
  <2> QED
    BY <1>6, <2>3, <2>4 DEF UndoRename
<1>7. CASE LastStart(m) \/ Answer(m) \/ Tidy(m)
  BY <1>7, WayBackLeaves DEF LastStart, Answer, Tidy
<1> QED
  BY <1>4, <1>5, <1>6, <1>7

\* selectCore gives up, or is done.
LEMMA WayBackAnswers ==
  ASSUME MaintTypeOK, WayBack, NEW m \in Maintainers,
         NEW from \in {"choose", "unchanged", "starting"},
         \/ from # "starting" /\ SelectFails(m, from)
         \/ from = "starting" /\ SelectWorks(m, from),
         UNCHANGED <<installed, previous, selected>>
  PROVE  Locals(m)' /\ Returns(m)'
<1>1. Locals(m) /\ Returns(m)
  BY DEF WayBack
<1>2. CASE Step(m, from, "undo") /\ UNCHANGED job /\ from # "starting"
           /\ job[m].kind = "update"
  <2>1. Locals(m)'
    BY <1>1, <1>2 DEF Locals, Step, MaintTypeOK, JobTypes
  <2> QED
    BY <1>2, <2>1, ReturnsStay DEF Aside, Chosen
<1>3. CASE Step(m, from, "tidy") /\ UNCHANGED job
  BY <1>1, <1>3 DEF Locals, Returns, Step, MaintTypeOK, JobTypes
<1> QED
  BY <1>2, <1>3, WayBackLeaves DEF SelectFails, SelectWorks

LEMMA WayBackSelect ==
  ASSUME MaintTypeOK, CoresInv, WayBack, NEW m \in Maintainers,
         \/ Choose(m) \/ SelectStop(m) \/ Record(m)
         \/ SelectStart(m) \/ Unrecord(m) \/ StartBefore(m)
  PROVE  Locals(m)' /\ Returns(m)'
<1> DEFINE t == job[m].id
<1> USE DEF MaintTypeOK, JobTypes
<1>1. Locals(m) /\ Returns(m)
  BY DEF WayBack
<1>2. job[m] \in Job
  BY DEF Choose, SelectStop, Record, SelectStart, Unrecord, StartBefore, SelectFails,
     SelectWorks, Step, Leave
<1>3. \A files : CoreOf(files, SelectedId) = CoreOf(files, selected)
  BY CoreInForce
<1>4. CASE Choose(m)
  <2>1. CASE Step(m, "choose", "stopping") /\ UNCHANGED disk
             /\ job' = [job EXCEPT ![m].before = SelectedId]
    <3>1. /\ job'[m].id = t /\ job'[m].kind = job[m].kind
          /\ UNCHANGED <<job[m].had, job[m].force, job[m].spoiled>>
          /\ job'[m].before = SelectedId
      BY <1>2, <2>1 DEF Job
    <3>2. UNCHANGED <<SelectedId, selected, installed, previous>>
      BY <2>1, CoreStays DEF disk, cores
    <3>3. FilesBefore(m)' = FilesBefore(m) /\ ChoiceBefore(m)' = ChoiceBefore(m)
      BY <2>1, <3>1, <3>2 DEF FilesBefore, ChoiceBefore, Aside, Chosen, Step
    <3>4. Returns(m)'
      BY <1>1, <2>1, <3>1, <3>3 DEF Returns, CoreOf, Step
    <3>5. Locals(m)'
      BY <1>1, <2>1, <3>1, <3>2 DEF Locals, Step
    <3> QED
      BY <3>4, <3>5
  <2>2. CASE SelectFails(m, "choose") /\ UNCHANGED disk
    BY <2>2, WayBackAnswers DEF disk, cores
  <2> QED
    BY <1>4, <2>1, <2>2 DEF Choose
<1>5. CASE SelectStop(m)
  <2>1. /\ Step(m, "stopping", "record")
        /\ UNCHANGED <<job, installed, previous, selected>>
    BY <1>5 DEF SelectStop, disk, cores
  <2>2. Locals(m)'
    BY <1>1, <2>1, CoreStays DEF Locals, Step
  <2> QED
    BY <2>1, <2>2, ReturnsStay DEF Aside, Chosen
<1>6. CASE Record(m)
  <2>1. pc[m] = "record" /\ UNCHANGED <<job, installed, previous>>
    BY <1>6 DEF Record, Step, cores
  <2>2. CASE Step(m, "record", "starting") /\ selected' = t
    <3>1. FilesBefore(m)' = FilesBefore(m)
      BY <2>1, <2>2 DEF FilesBefore, Aside, Step
    <3>2. ChoiceBefore(m) = selected /\ ChoiceBefore(m)' = SelectedId
      BY <1>1, <2>1, <2>2 DEF ChoiceBefore, Chosen, Locals, Step
    <3>3. Returns(m)'
      BY <1>1, <1>3, <2>1, <2>2, <3>1, <3>2 DEF Returns, CoreOf, Step
    <3>4. Locals(m)'
      BY <1>1, <2>1, <2>2 DEF Locals, Step
    <3> QED
      BY <3>3, <3>4
  <2>3. CASE Step(m, "record", "unchanged") /\ UNCHANGED selected
    <3>1. Locals(m)'
      BY <1>1, <2>1, <2>3 DEF Locals, Step
    <3> QED
      BY <2>1, <2>3, <3>1, ReturnsStay DEF Aside, Chosen
  <2> QED
    BY <1>6, <2>2, <2>3 DEF Record
<1>7. CASE SelectStart(m)
  <2>1. UNCHANGED <<installed, previous, selected>>
    BY <1>7 DEF SelectStart, disk, cores
  <2>2. CASE Step(m, "starting", "unrecord") /\ UNCHANGED job
    <3>1. Locals(m)'
      BY <1>1, <2>1, <2>2 DEF Locals, Step
    <3> QED
      BY <2>1, <2>2, <3>1, ReturnsStay DEF Aside, Chosen
  <2> QED
    BY <1>7, <2>1, <2>2, WayBackAnswers DEF SelectStart
<1>8. CASE Unrecord(m)
  <2>1. /\ pc[m] = "unrecord" /\ pc'[m] = "unchanged"
        /\ UNCHANGED <<installed, previous>>
    BY <1>8 DEF Unrecord, Step, cores
  <2>2. CASE UNCHANGED selected /\ Spoils(m)
    <3>1. /\ job'[m].spoiled
          /\ job'[m].id = t /\ job'[m].kind = job[m].kind
      BY <1>2, <2>2 DEF Spoils, Job
    <3> QED
      BY <1>1, <2>1, <3>1 DEF Locals, Returns
  <2>3. CASE selected' = job[m].before /\ UNCHANGED job
    <3>1. FilesBefore(m)' = FilesBefore(m) /\ ChoiceBefore(m)' = ChoiceBefore(m)
      BY <2>1, <2>3 DEF FilesBefore, ChoiceBefore, Aside, Chosen
    <3> QED
      BY <1>1, <2>1, <2>3, <3>1 DEF Locals, Returns, CoreOf
  <2> QED
    BY <1>8, <2>2, <2>3 DEF Unrecord, Unspoiled
<1>9. CASE StartBefore(m)
  BY <1>9, WayBackAnswers DEF StartBefore, disk, cores
<1> QED
  BY <1>4, <1>5, <1>6, <1>7, <1>8, <1>9

LEMMA WayBackGeo ==
  ASSUME MaintTypeOK, CoresInv, WayBack, NEW m \in Maintainers,
         WriteGeo(m) \/ GeoStop(m)
  PROVE  Locals(m)' /\ Returns(m)'
<1> USE DEF MaintTypeOK, JobTypes
<1>1. Locals(m) /\ Returns(m)
  BY DEF WayBack
<1>2. pc[m] = "geo" /\ job[m] \in Job /\ UNCHANGED <<installed, previous, selected>>
  BY DEF WriteGeo, GeoStop, Step, Leave, disk, cores
<1>3. CASE GeoStop(m)
  <2>1. Step(m, "geo", "restart") /\ UNCHANGED job
    BY <1>3 DEF GeoStop
  <2>2. Locals(m)'
    BY <1>1, <2>1 DEF Locals, Step
  <2> QED
    BY <1>2, <2>1, <2>2, ReturnsStay DEF Aside, Chosen
<1>4. ASSUME NEW f, job' = [job EXCEPT ![m].files = @ \ {f}], Step(m, "geo", "geo")
      PROVE  Locals(m)' /\ Returns(m)'
  <2>1. /\ job'[m].id = job[m].id /\ job'[m].kind = job[m].kind
        /\ UNCHANGED <<job[m].force, job[m].spoiled>>
    BY <1>2, <1>4 DEF Job
  <2>2. pc'[m] = "geo"
    BY <1>4 DEF Step
  <2>3. FilesBefore(m)' = FilesBefore(m) /\ ChoiceBefore(m)' = ChoiceBefore(m)
    BY <1>2, <2>2 DEF FilesBefore, ChoiceBefore, Aside, Chosen
  <2> QED
    BY <1>1, <1>2, <2>1, <2>2, <2>3 DEF Locals, Returns, CoreOf
<1> QED
  BY <1>3, <1>4, WayBackLeaves DEF WriteGeo

LEMMA WayBackStep ==
  ASSUME MaintTypeOK, CoresInv, WayBack, [MaintNext]_maintVars
  PROVE  WayBack'
<1>1. ASSUME NEW m \in Maintainers, Update(m) \/ Select(m) \/ Geo(m)
      PROVE  WayBack'
  <2>1. Locals(m)' /\ Returns(m)'
    BY <1>1, WayBackEnters, WayBackInstall, WayBackUndo, WayBackSelect, WayBackGeo
       DEF Update, Select, Geo
  <2> QED
    BY <1>1, <2>1, StepIsOwn, WayBackSuffices
<1>2. CASE UNCHANGED <<pc, job, disk>>
  BY <1>2, CoreStays DEF WayBack, Locals, Returns, FilesBefore, ChoiceBefore, CoreOf,
     disk, cores
<1>3. CASE Ends
  BY <1>3 DEF Ends, WayBack, Locals, Returns
<1> QED
  BY <1>1, <1>2, <1>3 DEF MaintNext, maintVars, OthersStart, OthersStop, EditAccepted,
     EditRenames, EditEnds, Boot

\* A handler that answers leaves the files as they are, at a label where nothing is
\* set aside or chosen: they are the files it would go back to.
LEMMA ErrorLeaves ==
  ASSUME MaintTypeOK, WayBack, NEW m \in Maintainers,
         Update(m) \/ Select(m) \/ Geo(m),
         pc[m] \notin {"idle", "tidy", "starting"}, pc'[m] = "idle"
  PROVE  /\ UNCHANGED <<installed, selected>>
         /\ FilesBefore(m) = installed /\ ChoiceBefore(m) = selected
<1> USE DEF MaintTypeOK, JobTypes, FileTypes
<1>1. Locals(m)
  BY DEF WayBack
<1>2. CASE Geo(m)
  BY <1>2 DEF Geo, GeoEnters, WriteGeo, GeoStop, Enter, Step, Leave, FilesBefore,
     ChoiceBefore, Aside, Chosen, cores
<1>3. CASE Select(m)
  <2>1. /\ pc[m] \in {"choose", "unchanged"} /\ job[m].kind # "update"
        /\ UNCHANGED <<installed, selected>>
    BY <1>3 DEF Select, SelectEnters, Choose, SelectStop, Record, SelectStart,
       Unrecord, StartBefore, SelectFails, SelectWorks, Enter, Step, Leave, disk, cores
  <2> QED
    BY <2>1 DEF FilesBefore, ChoiceBefore, Chosen
<1>4. CASE Update(m)
  <2>1. /\ \/ pc[m] \in {"fetched", "written", "tried", "accepted", "answer", "restart"}
           \/ pc[m] = "aside" /\ ~job[m].had
        /\ UNCHANGED <<installed, selected>>
    BY <1>4 DEF Update, UpdateEnters, WriteTmp, TryBinary, TryActive, Discard, MoveAside,
       Publish, Tidy, UndoStop, Remove, UndoRename, LastStart, Answer, Enter, Step,
       Leave, disk, cores
  <2>2. pc[m] = "aside" => job[m].id \in Tags /\ installed[job[m].id] = Nil
    BY <1>1 DEF Locals
  <2> QED
    BY <2>1, <2>2 DEF FilesBefore, ChoiceBefore, Aside, Chosen
<1> QED
  BY <1>2, <1>3, <1>4

LEMMA ErrorReturns ==
  ASSUME MaintTypeOK, WayBack, NEW m \in Maintainers,
         Update(m) \/ Select(m) \/ Geo(m),
         pc[m] \notin {"idle", "tidy", "starting"}, pc'[m] = "idle", ~job[m].spoiled
  PROVE  CoreBinary' = job[m].force
BY ErrorLeaves, CoreInForce, CoreStays DEF WayBack, Returns, MaintTypeOK

LEMMA WayBackHolds == MaintSpec => [](WayBack /\ CoresInv /\ MaintTypeOK)
<1>1. MaintInit => WayBack /\ CoresInv
  BY DEF MaintInit, WayBack, Locals, Returns, CoresInv, Shape, Exclusive, HasRun, Tested
<1> QED
  BY <1>1, WayBackStep, CoresStep, MaintenanceTyped, PTL DEF MaintSpec

\* An update or a selection that fails wherever it may leaves the core that was
\* in force when it came, unless an error on the way back was ignored: what was
\* set aside and the choice before are enough to go back to it at every label.
THEOREM FailedMaintenanceKeepsCore == MaintSpec => FailureKeepsCore
<1>1. ASSUME WayBack, CoresInv, MaintTypeOK, [MaintNext]_maintVars,
             NEW m \in Maintainers, AnswersError(m), ~job[m].spoiled
      PROVE  CoreBinary' = job[m].force
  BY <1>1, OwnStep, ErrorReturns DEF AnswersError
<1>2. WayBack /\ CoresInv /\ MaintTypeOK /\ [MaintNext]_maintVars =>
        [\A m \in Maintainers :
           (AnswersError(m) /\ ~job[m].spoiled)
             => CoreBinary' = job[m].force]_maintVars
  BY <1>1
<1> QED
  BY <1>2, WayBackHolds, PTL DEF MaintSpec, FailureKeepsCore

(***************************************************************************)
(* The core in force and the active configuration.                         *)

Fits(binary) == active # Nil => Takes(binary, active)

\* No activation is half way, none overlapped with a handler, and no error that
\* was ignored is outstanding.
Calm == edit = Changes!NoEdit /\ {"overlap", "core"} \cap trouble = {}

\* While an activation is half way: either a handler overlaps with it, or the
\* core in force takes what it accepted, and what it may bring back unless that
\* did not fit before.
EditInv ==
  edit # Changes!NoEdit =>
    /\ edit.stage = "renamed" \/ (edit.stage = "tested" /\ active = edit.old)
    /\ lock = Nil \/ "overlap" \in trouble
    /\ (lock = Nil /\ "overlap" \notin trouble) =>
         /\ Takes(CoreBinary, IF edit.stage = "tested" THEN edit.new ELSE active)
         /\ ("core" \notin trouble /\ edit.old # Nil) => Takes(CoreBinary, edit.old)

IdleFits == (lock = Nil /\ Calm) => Fits(CoreBinary)

\* What a handler has tried and may put in force, and what it found there.
WorkFits(m) ==
  /\ (pc[m] # "idle" /\ job[m].spoiled) => "core" \in trouble
  /\ (pc[m] # "idle" /\ Calm) =>
       /\ Fits(job[m].force)
       /\ pc[m] \in {"accepted", "aside"} => Fits(tmp[job[m].id])
       /\ pc[m] \in {"stopping", "record", "starting"} =>
            Available(job[m].id) /\ Fits(Binary(job[m].id))
       /\ pc[m] = "tidy" => Fits(CoreBinary)

FitsInv == EditInv /\ IdleFits /\ \A m \in Maintainers : WorkFits(m)

\* A handler's steps leave the configuration to its activation, and forget
\* neither an overlap nor an ignored error.
LEMMA HandlerForgetsNothing ==
  ASSUME NEW m \in Maintainers, Update(m) \/ Select(m) \/ Geo(m)
  PROVE  /\ UNCHANGED <<up, active, edit>>
         /\ \A x \in {"overlap", "core"} : x \in trouble => x \in trouble'
         /\ pc[m] = "idle" => lock' = m /\ (edit # Changes!NoEdit => "overlap" \in trouble')
<1>1. CASE Update(m)
  BY <1>1 DEF Update, UpdateEnters, WriteTmp, TryBinary, TryActive, Discard, MoveAside,
     Publish, Tidy, UndoStop, Remove, UndoRename, LastStart, Answer, Enter, Lock, Step,
     Leave, Spoils, Unspoiled, config
<1>2. CASE Select(m)
  BY <1>2 DEF Select, SelectEnters, Choose, SelectStop, Record, SelectStart, Unrecord,
     StartBefore, SelectFails, SelectWorks, Enter, Lock, Step, Leave, Spoils, Unspoiled,
     config
<1>3. CASE Geo(m)
  BY <1>3 DEF Geo, GeoEnters, WriteGeo, GeoStop, Enter, Lock, Step, Leave, config
<1> QED
  BY <1>1, <1>2, <1>3

\* Then it is enough to look at m.
LEMMA FitsSuffices ==
  ASSUME FitsInv, CoresInv, MaintTypeOK, NEW m \in Maintainers,
         Update(m) \/ Select(m) \/ Geo(m),
         (pc'[m] # "idle" /\ job'[m].spoiled) => "core" \in trouble',
         (Calm /\ Calm') => WorkFits(m)',
         (Calm /\ Calm' /\ pc'[m] = "idle") => Fits(CoreBinary)'
  PROVE  FitsInv'
<1>1. Own(m)
  BY StepIsOwn
<1>2. \A q \in Maintainers \ {m} : pc'[q] = "idle"
  BY <1>1, OthersAreIdle
<1>3. Calm' => Calm
  BY HandlerForgetsNothing DEF Calm
<1>4. pc[m] # "idle" => lock = m
  BY DEF CoresInv, Exclusive
<1>5. lock' = Nil => pc'[m] = "idle"
  BY <1>1 DEF Own
<1>6. edit # Changes!NoEdit => "overlap" \in trouble'
  BY <1>4, HandlerForgetsNothing DEF FitsInv, EditInv
<1>7. EditInv'
  BY <1>6, HandlerForgetsNothing DEF FitsInv, EditInv
<1>8. WorkFits(m)'
  BY <1>3 DEF WorkFits
<1>9. ASSUME NEW q \in Maintainers \ {m}
      PROVE  WorkFits(q)'
  BY <1>2, <1>9 DEF WorkFits
<1> QED
  BY <1>3, <1>5, <1>7, <1>8, <1>9 DEF FitsInv, IdleFits

\* While a handler goes on its job stays what it was, but for what it remembers
\* on its way.
LEMMA JobStays ==
  ASSUME MaintTypeOK, NEW m \in Maintainers, Update(m) \/ Select(m) \/ Geo(m),
         pc[m] # "idle", pc'[m] # "idle"
  PROVE  /\ job'[m].id = job[m].id
         /\ job'[m].force = job[m].force
         /\ Spoils(m) \/ job'[m].spoiled = job[m].spoiled
<1> USE DEF MaintTypeOK, JobTypes
<1> DEFINE Same == /\ job'[m].id = job[m].id
                   /\ job'[m].force = job[m].force
                   /\ Spoils(m) \/ job'[m].spoiled = job[m].spoiled
<1>1. job[m] \in Job
  OBVIOUS
<1>2. \/ UNCHANGED job
      \/ Spoils(m)
      \/ job' = [job EXCEPT ![m].had = TRUE]
      \/ job' = [job EXCEPT ![m].before = SelectedId]
      \/ \E f : job' = [job EXCEPT ![m].files = @ \ {f}]
  <2>1. CASE Update(m)
    BY <2>1 DEF Update, UpdateEnters, WriteTmp, TryBinary, TryActive, Discard,
       MoveAside, Publish, Tidy, UndoStop, Remove, UndoRename, LastStart, Answer,
       Enter, Step, Leave, Unspoiled
  <2>2. CASE Select(m)
    BY <2>2 DEF Select, SelectEnters, Choose, SelectStop, Record, SelectStart,
       Unrecord, StartBefore, SelectFails, SelectWorks, Enter, Step, Leave, Unspoiled
  <2>3. CASE Geo(m)
    BY <2>3 DEF Geo, GeoEnters, WriteGeo, GeoStop, Enter, Step, Leave
  <2> QED
    BY <2>1, <2>2, <2>3
<1>3. CASE job' = [job EXCEPT ![m].had = TRUE]
  BY <1>1, <1>3 DEF Job
<1>4. CASE job' = [job EXCEPT ![m].before = SelectedId]
  BY <1>1, <1>4 DEF Job
<1>5. ASSUME NEW f, job' = [job EXCEPT ![m].files = @ \ {f}]
      PROVE  Same
  BY <1>1, <1>5 DEF Job
<1>6. CASE Spoils(m)
  BY <1>1, <1>6 DEF Spoils, Job
<1> QED
  BY <1>2, <1>3, <1>4, <1>5, <1>6

LEMMA SpoiledIsOnRecord ==
  ASSUME FitsInv, MaintTypeOK, NEW m \in Maintainers, Update(m) \/ Select(m) \/ Geo(m),
         pc'[m] # "idle", job'[m].spoiled
  PROVE  "core" \in trouble'
<1>1. pc[m] = "idle" => ~job'[m].spoiled
  BY DEF Update, UpdateEnters, WriteTmp, TryBinary, TryActive, Discard, MoveAside,
     Publish, Tidy, UndoStop, Remove, UndoRename, LastStart, Answer, Select,
     SelectEnters, Choose, SelectStop, Record, SelectStart, Unrecord, StartBefore,
     SelectFails, SelectWorks, Geo, GeoEnters, WriteGeo, GeoStop, Enter, Step, Leave,
     MaintTypeOK, JobTypes
<1> QED
  BY <1>1, JobStays, HandlerForgetsNothing DEF FitsInv, WorkFits, Spoils

\* A chosen core that is there is in force.
LEMMA SelectedIsTaken ==
  ASSUME selected \in Ids, Available(selected)
  PROVE  CoreBinary = Binary(selected)
BY DEF CoreBinary, SelectedId

\* Who comes finds a core in force that fits.
LEMMA FitsEnters ==
  ASSUME FitsInv, CoresInv, MaintTypeOK, NEW m \in Maintainers,
         UpdateEnters(m) \/ SelectEnters(m) \/ GeoEnters(m), Calm
  PROVE  WorkFits(m)' /\ pc'[m] # "idle"
<1>1. ASSUME NEW label \in {"fetched", "choose", "geo"}, NEW locals,
             Enter(m, label, locals), locals.force = CoreBinary, ~locals.spoiled
      PROVE  WorkFits(m)' /\ pc'[m] # "idle"
  <2>1. /\ pc'[m] = label /\ job'[m] = locals /\ UNCHANGED active
        /\ lock = Nil
    BY <1>1 DEF Enter, Lock, config, MaintTypeOK, JobTypes
  <2>2. Fits(CoreBinary)
    BY <2>1 DEF FitsInv, IdleFits
  <2> QED
    BY <1>1, <2>1, <2>2 DEF WorkFits, Fits
<1>2. CASE UpdateEnters(m)
  BY <1>1, <1>2 DEF UpdateEnters
<1>3. CASE SelectEnters(m)
  BY <1>1, <1>3 DEF SelectEnters
<1>4. CASE GeoEnters(m)
  BY <1>1, <1>4 DEF GeoEnters
<1> QED
  BY <1>2, <1>3, <1>4

\* A handler that goes on carries what it has tried with it.
LEMMA FitsGoesOn ==
  ASSUME FitsInv, WayBack, CoresInv, MaintTypeOK, Calm, Calm', NEW m \in Maintainers,
         Update(m) \/ Select(m) \/ Geo(m), pc[m] # "idle", pc'[m] # "idle"
  PROVE  WorkFits(m)'
<1> DEFINE t == job[m].id
<1> USE DEF MaintTypeOK, JobTypes
<1>1. /\ Fits(job[m].force) /\ UNCHANGED active
      /\ job'[m].id = t /\ job'[m].force = job[m].force
      /\ job'[m].spoiled => "core" \in trouble'
  BY JobStays, HandlerForgetsNothing, SpoiledIsOnRecord DEF FitsInv, WorkFits
<1>2. ~job[m].spoiled
  BY DEF FitsInv, WorkFits, Calm
<1>3. ASSUME pc'[m] \in {"accepted", "aside"}
      PROVE  Fits(tmp[t])'
  <2>1. TryActive(m) \/ MoveAside(m)
    BY <1>3 DEF Update, UpdateEnters, WriteTmp, TryBinary, Discard, Publish, Tidy,
       UndoStop, Remove, UndoRename, LastStart, Answer, Select, SelectEnters, Choose,
       SelectStop, Record, SelectStart, Unrecord, StartBefore, SelectFails, SelectWorks,
       Geo, GeoEnters, WriteGeo, GeoStop, Enter, Step, Leave
  <2>2. UNCHANGED tmp[t] /\ Fits(tmp[t])
    BY <1>1, <1>3, <2>1 DEF TryActive, Discard, MoveAside, Step, Leave, FitsInv, WorkFits,
       Fits, disk, cores
  <2> QED
    BY <1>1, <2>2 DEF Fits
<1>4. ASSUME pc'[m] \in {"stopping", "record", "starting"}
      PROVE  Available(t)' /\ Fits(Binary(t))'
  <2>1. Choose(m) \/ SelectStop(m) \/ Record(m)
    BY <1>4 DEF Update, UpdateEnters, WriteTmp, TryBinary, TryActive, MoveAside, Discard,
       Publish, Tidy, UndoStop, Remove, UndoRename, LastStart, Answer, Select,
       SelectEnters, SelectStart, Unrecord, StartBefore, SelectFails, SelectWorks,
       Geo, GeoEnters, WriteGeo, GeoStop, Enter, Step, Leave
  <2>2. Available(t) /\ Fits(Binary(t)) /\ UNCHANGED installed
    BY <1>4, <2>1 DEF Choose, SelectStop, Record, SelectFails, Step, Leave, FitsInv,
       WorkFits, Fits, disk, cores
  <2> QED
    BY <1>1, <2>2 DEF Fits, Available, Binary
<1>5. ASSUME pc'[m] = "tidy"
      PROVE  Fits(CoreBinary)'
  <2>1. Publish(m) \/ SelectStart(m)
    BY <1>5 DEF Update, UpdateEnters, WriteTmp, TryBinary, TryActive, MoveAside, Discard,
       Tidy, UndoStop, Remove, UndoRename, LastStart, Answer, Select, SelectEnters,
       Choose, SelectStop, Record, Unrecord, StartBefore, SelectFails, SelectWorks,
       Geo, GeoEnters, WriteGeo, GeoStop, Enter, Step, Leave
  <2>2. CASE SelectStart(m)
    <3>1. selected = t /\ Available(t) /\ Fits(Binary(t)) /\ UNCHANGED disk
      BY <1>5, <2>2 DEF SelectStart, SelectWorks, Step, WayBack, Locals, FitsInv, WorkFits
    <3>2. CoreBinary = Binary(t)
      BY <3>1, SelectedIsTaken DEF Job
    <3> QED
      BY <1>1, <3>1, <3>2, CoreStays DEF Fits, disk, cores
  <2>3. CASE Publish(m)
    <3>1. /\ pc[m] = "aside" /\ Fits(tmp[t]) /\ Runs(tmp[t])
          /\ t \in Tags /\ job[m].kind = "update"
      BY <2>3 DEF Publish, FitsInv, WorkFits, WayBack, Locals, CoresInv, HasRun, Tested
    <3>2. installed' = [installed EXCEPT ![t] = tmp[t]] /\ UNCHANGED selected
      BY <1>5, <2>3 DEF Publish, Step, Leave, File
    <3>3. /\ installed'[t] = tmp[t]
          /\ \A u \in Tags \ {t} : installed'[u] = FilesBefore(m)[u]
          /\ ChoiceBefore(m) = selected
      BY <3>1, <3>2 DEF FilesBefore, ChoiceBefore, Aside, Chosen, FileTypes
    <3>4. CASE selected = t
      BY <1>1, <3>1, <3>2, <3>3, <3>4 DEF CoreBinary, Available, Binary, SelectedId,
         Runs, Fits, Ids
    <3>5. CASE selected # t
      <4>1. CoreBinary' = CoreOf(installed', selected)
        BY <3>2 DEF CoreBinary, CoreOf, Available, Binary, SelectedId, FileTypes, Ids
      <4>2. @ = CoreOf(FilesBefore(m), selected)
        BY <3>3, <3>5 DEF CoreOf, FileTypes, Ids
      <4>3. @ = job[m].force
        BY <1>2, <3>1, <3>3 DEF WayBack, Returns
      <4> QED
        BY <1>1, <4>1, <4>2, <4>3 DEF Fits
    <3> QED
      BY <3>4, <3>5
  <2> QED
    BY <2>1, <2>2, <2>3
<1> QED
  BY <1>1, <1>3, <1>4, <1>5 DEF WorkFits, Fits

\* A handler that leaves has put in force what it tried, or what it found.
LEMMA FitsLeaves ==
  ASSUME FitsInv, WayBack, CoresInv, MaintTypeOK, Calm, NEW m \in Maintainers,
         Update(m) \/ Select(m) \/ Geo(m), pc[m] # "idle", pc'[m] = "idle"
  PROVE  Fits(CoreBinary)'
<1> DEFINE t == job[m].id
<1> USE DEF MaintTypeOK, JobTypes
<1>1. Fits(job[m].force) /\ UNCHANGED active /\ ~job[m].spoiled
  BY HandlerForgetsNothing DEF FitsInv, WorkFits, Calm
<1>2. CASE pc[m] = "tidy"
  <2>1. Tidy(m)
    BY <1>2 DEF Update, UpdateEnters, WriteTmp, TryBinary, TryActive, MoveAside, Discard,
       Publish, UndoStop, Remove, UndoRename, LastStart, Answer, Select, SelectEnters,
       Choose, SelectStop, Record, SelectStart, Unrecord, StartBefore, SelectFails,
       SelectWorks, Geo, GeoEnters, WriteGeo, GeoStop, Enter, Step, Leave
  <2>2. Fits(CoreBinary) /\ UNCHANGED CoreBinary
    BY <1>2, <2>1, CoreStays DEF Tidy, FitsInv, WorkFits
  <2> QED
    BY <1>1, <2>2 DEF Fits
<1>3. CASE pc[m] = "starting"
  <2>1. SelectStart(m)
    BY <1>3 DEF Update, UpdateEnters, WriteTmp, TryBinary, TryActive, MoveAside, Discard,
       Publish, Tidy, UndoStop, Remove, UndoRename, LastStart, Answer, Select,
       SelectEnters, Choose, SelectStop, Record, Unrecord, StartBefore, SelectFails,
       SelectWorks, Geo, GeoEnters, WriteGeo, GeoStop, Enter, Step, Leave
  <2>2. selected = t /\ Available(t) /\ Fits(Binary(t)) /\ UNCHANGED disk
    BY <1>3, <2>1 DEF SelectStart, WayBack, Locals, FitsInv, WorkFits
  <2>3. CoreBinary = Binary(t)
    BY <2>2, SelectedIsTaken DEF Job
  <2> QED
    BY <1>1, <2>2, <2>3, CoreStays DEF Fits, disk, cores
<1>4. CASE pc[m] \notin {"tidy", "starting"}
  BY <1>1, <1>4, ErrorReturns DEF Fits
<1> QED
  BY <1>2, <1>3, <1>4

LEMMA FitsHandlers ==
  ASSUME FitsInv, WayBack, CoresInv, MaintTypeOK, NEW m \in Maintainers,
         Update(m) \/ Select(m) \/ Geo(m)
  PROVE  FitsInv'
<1>1. ASSUME Calm, Calm'
      PROVE  WorkFits(m)' /\ (pc'[m] = "idle" => Fits(CoreBinary)')
  <2>1. CASE pc[m] = "idle"
    <3>1. UpdateEnters(m) \/ SelectEnters(m) \/ GeoEnters(m)
      BY <2>1 DEF Update, WriteTmp, TryBinary, TryActive, MoveAside, Discard,
         Publish, Tidy, UndoStop, Remove, UndoRename, LastStart, Answer, Select,
         Choose, SelectStop, Record, SelectStart, Unrecord, StartBefore, SelectFails,
         SelectWorks, Geo, WriteGeo, GeoStop, Step, Leave
    <3> QED
      BY <1>1, <3>1, FitsEnters
  <2>2. CASE pc[m] # "idle" /\ pc'[m] # "idle"
    BY <1>1, <2>2, FitsGoesOn
  <2>3. CASE pc[m] # "idle" /\ pc'[m] = "idle"
    BY <1>1, <2>3, FitsLeaves DEF WorkFits
  <2> QED
    BY <2>1, <2>2, <2>3
<1>2. (pc'[m] # "idle" /\ job'[m].spoiled) => "core" \in trouble'
  BY SpoiledIsOnRecord
<1> QED
  BY <1>1, <1>2, FitsSuffices

\* The steps of an activation, beside a handler or not.
LEMMA FitsEdits ==
  ASSUME FitsInv, CoresInv, MaintTypeOK, EditAccepted \/ EditRenames \/ EditEnds
  PROVE  FitsInv'
<1> USE DEF MaintTypeOK, FileTypes, JobTypes
<1>1. /\ UNCHANGED <<lock, pc, job, installed, selected>>
      /\ UNCHANGED <<CoreBinary, SelectedId>>
  BY CoreStays DEF EditAccepted, EditRenames, EditEnds, disk, cores
<1>2. \A m \in Maintainers : pc[m] # "idle" => lock = m /\ lock # Nil
  BY DEF CoresInv, Exclusive
<1>3. CASE EditAccepted
  <2>1. PICK c \in Configs : Takes(CoreBinary, c) /\ edit' = Changes!Tested(c, active)
    BY <1>3 DEF EditAccepted, Changes!Accept
  <2>2. /\ edit = Changes!NoEdit /\ edit' # Changes!NoEdit /\ UNCHANGED active
        /\ edit'.stage = "tested" /\ edit'.new = c /\ edit'.old = active
    BY <1>3, <2>1 DEF EditAccepted, Changes!Accept, Changes!Tested, Changes!NoEdit
  <2>3. /\ lock # Nil => "overlap" \in trouble'
        /\ "core" \in trouble => "core" \in trouble'
        /\ lock = Nil /\ "overlap" \in trouble => "core" \in trouble'
    BY <1>3 DEF EditAccepted
  <2>4. (lock = Nil /\ "core" \notin trouble') => Fits(CoreBinary)
    BY <2>2, <2>3 DEF FitsInv, IdleFits, Calm
  <2>5. EditInv'
    BY <1>1, <2>1, <2>2, <2>3, <2>4 DEF EditInv, Takes, Fits
  <2>6. ~Calm'
    BY <2>2 DEF Calm
  <2> QED
    BY <1>1, <2>3, <2>5, <2>6 DEF FitsInv, IdleFits, WorkFits
<1>4. CASE EditRenames
  <2>1. /\ edit # Changes!NoEdit /\ edit' # Changes!NoEdit
        /\ edit.stage = "tested" /\ edit'.stage = "renamed" /\ edit'.old = edit.old
        /\ active' = edit.new /\ UNCHANGED trouble
    BY <1>4 DEF EditRenames, Changes!Replace, Changes!Renamed, Changes!NoEdit
  <2>2. EditInv' /\ ~Calm'
    BY <1>1, <2>1 DEF FitsInv, EditInv, Takes, Calm
  <2> QED
    BY <1>1, <2>1, <2>2 DEF FitsInv, IdleFits, WorkFits
<1>5. CASE EditEnds
  <2>1. /\ edit # Changes!NoEdit /\ edit' = Changes!NoEdit
        /\ "overlap" \in trouble <=> "overlap" \in trouble'
        /\ "overlap" \in trouble => ("core" \in trouble <=> "core" \in trouble')
        /\ \/ UNCHANGED active
           \/ /\ active' = edit.old /\ edit.old # Nil
              /\ "core" \in trouble => "core" \in trouble'
    BY <1>5 DEF EditEnds, Changes!Finish, Changes!Undo
  <2>2. edit.stage # "renamed" => ("core" \in trouble => "core" \in trouble')
    BY <1>5 DEF EditEnds, Changes!Undo
  <2>3. IdleFits'
    BY <1>1, <2>1, <2>2 DEF FitsInv, EditInv, IdleFits, Fits, Takes, Calm
  <2>4. \A m \in Maintainers : WorkFits(m)'
    BY <1>1, <1>2, <2>1 DEF FitsInv, EditInv, WorkFits, Calm
  <2> QED
    BY <2>1, <2>3, <2>4 DEF FitsInv, EditInv
<1> QED
  BY <1>3, <1>4, <1>5

LEMMA FitsStep ==
  ASSUME FitsInv, WayBack, CoresInv, MaintTypeOK, [MaintNext]_maintVars
  PROVE  FitsInv'
<1>1. CASE /\ UNCHANGED <<lock, pc, job, disk, config>>
           /\ \A x \in {"overlap", "core"} : x \in trouble <=> x \in trouble'
  <2>1. UNCHANGED <<CoreBinary, SelectedId>>
    BY <1>1, CoreStays DEF disk, cores
  <2>2. EditInv' /\ IdleFits'
    BY <1>1, <2>1 DEF FitsInv, EditInv, IdleFits, Calm, Fits, Takes, config
  <2>3. \A m \in Maintainers : WorkFits(m)'
    BY <1>1, <2>1 DEF FitsInv, WorkFits, Calm, Fits, Takes, Available, Binary, config,
       disk, cores
  <2> QED
    BY <2>2, <2>3 DEF FitsInv
<1>2. CASE Ends
  <2>1. /\ lock' = Nil /\ edit' = Changes!NoEdit /\ \A m \in Maintainers : pc'[m] = "idle"
        /\ UNCHANGED <<CoreBinary, active>>
    BY <1>2, CoreStays DEF Ends, Changes!Finish, disk, cores
  <2>2. Calm' => Calm /\ lock = Nil
    BY <1>2 DEF Ends, Calm
  <2> QED
    BY <2>1, <2>2 DEF FitsInv, EditInv, IdleFits, WorkFits, Fits
<1>3. UNCHANGED maintVars \/ OthersStart \/ OthersStop \/ Boot
        => /\ UNCHANGED <<lock, pc, job, disk, config>>
           /\ \A x \in {"overlap", "core"} : x \in trouble <=> x \in trouble'
  BY DEF maintVars, OthersStart, OthersStop, Boot
<1> QED
  BY <1>1, <1>2, <1>3, FitsHandlers, FitsEdits DEF MaintNext

\* Whenever no handler is at work, and none overlapped with an activation and no
\* error was ignored since the last one that ended well, the core in force takes
\* the active configuration: what an update or a selection puts in force it has
\* tried with it, and what a failed one goes back to had taken it before.
THEOREM ActiveIsTaken == MaintSpec => []CoreTakesActive
<1>1. MaintInit => FitsInv
  BY DEF MaintInit, Changes!ActivationInit, FitsInv, EditInv, IdleFits, WorkFits, Fits
<1>2. FitsInv /\ MaintTypeOK => CoreTakesActive
  <2>1. ASSUME FitsInv, MaintTypeOK, lock = Nil, trouble \subseteq {"geo"}, active # Nil
        PROVE  Takes(CoreBinary, active)
    BY <2>1 DEF FitsInv, EditInv, IdleFits, Fits, Calm
  <2> QED
    BY <2>1 DEF CoreTakesActive
<1> QED
  BY <1>1, <1>2, FitsStep, WayBackHolds, PTL DEF MaintSpec

===============================================================================
