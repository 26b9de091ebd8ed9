------------------------------ MODULE Maintenance ------------------------------
(***************************************************************************)
(* Updates of the helper (internal/helper/maintenance.go): installing a    *)
(* released core, selecting a core and replacing the GeoData files.        *)
(* maintenanceMu lets one of them run at a time; delayed restarts, core    *)
(* actions and changes of the configuration do not ask for it.             *)
(*                                                                         *)
(* The manager is what CoreService promises: start() and the effect of     *)
(* stop() on m.cmd are single steps.  Every file operation and every run   *)
(* of a core for a test is a step; atomicWrite is one, because nobody else *)
(* writes the file.  What happens to active.yaml beside them is Activation, *)
(* one at a time, which ConfigSwitch implements; it may give up at any     *)
(* step.  Requests that change nothing (a download that fails, a checksum  *)
(* that does not match) are left out.                                      *)
(***************************************************************************)
EXTENDS Naturals

CONSTANTS
  Maintainers,  \* goroutines of the three handlers
  Tags,         \* releases of mihomo, which are the ids of installed cores
  Bundled,      \* the id of the core that comes with the package, and its binary
  Binaries,     \* what a released archive may contain
  Bad,          \* those that do not even print their version
  Configs,      \* what active.yaml may hold
  Refuses,      \* pairs of a binary and a configuration it refuses
  GeoFiles, Optional,  \* GeoData files; those a release may lack
  Releases,     \* releases of GeoData
  Broken,       \* a half-written file
  Nil

Ids    == Tags \cup {Bundled}
Images == Binaries \cup {Broken}

\* What a handler remembers.
Job == [kind : {"update", "select", "geo"},
        id : Ids, new : Binaries \cup {Nil}, select : BOOLEAN, had : BOOLEAN,
        before : Ids,               \* previous, in selectCore
        files : SUBSET GeoFiles, release : Releases \cup {Nil},
        force : Images \cup {Bundled},   \* CoreBinary when it came (history)
        spoiled : BOOLEAN]          \* an error was ignored (history)

\* An activation under way, as Activation has it.
Edit == [stage : {"none", "tested", "renamed"},
         new : Configs \cup {Nil}, old : Configs \cup {Nil}]

\* What a core was started from.
Started == [binary : Images \cup {Bundled}, geo : [GeoFiles -> Releases \cup {Nil}]]

ASSUME MaintenanceAssumption ==
  /\ Bad \subseteq Binaries
  /\ Optional \subseteq GeoFiles
  /\ Bundled \notin Tags \cup Images
  /\ Broken \notin Binaries
  /\ Nil \notin Maintainers \cup Ids \cup Images \cup Configs \cup Releases
  /\ Nil \notin Job \cup Started

VARIABLES
  up,         \* the helper runs
  lock,       \* who holds maintenanceMu, or Nil
  pc, job,    \* what a handler does next, and its locals
  installed, previous, tmp,  \* mihomo, mihomo.previous and mihomo.tmp of a tag
  selected,   \* selected-core, or Nil
  geo,        \* the release each GeoData file is of, or Nil
  running,    \* what the tracked core was started from, or Nil
  active,     \* active.yaml, or Nil
  edit,       \* the activation under way
  trouble     \* what may have parted core, GeoData and configuration (history)

cores     == <<installed, previous, tmp>>
disk      == <<cores, selected, geo>>
config    == <<active, edit>>
maintVars == <<up, lock, pc, job, disk, running, config, trouble>>

Runs(binary)           == binary \notin Bad \cup {Broken, Nil}
Takes(binary, content) == <<binary, content>> \notin Refuses

\* selectedCoreID.
SelectedId == IF selected = Nil THEN Bundled ELSE selected

Binary(id) == IF id = Bundled THEN Bundled ELSE installed[id]

\* availableCores lists it.
Available(id) == Binary(id) # Nil

\* Mutant of CoreBinary: a selected core that is gone is taken all the same.
SelectedBinary == Binary(SelectedId)

\* coreBinary: a selected core that is gone is replaced by the bundled one.
CoreBinary == IF Available(SelectedId) THEN Binary(SelectedId) ELSE Bundled

\* The changes of the configuration, tested with the core in force.
Changes == INSTANCE Activation
             WITH accepted <- {c \in Configs : Takes(CoreBinary, c)}

MaintInit ==
  /\ up = TRUE
  /\ lock = Nil
  /\ pc = [m \in Maintainers |-> "idle"]
  /\ job = [m \in Maintainers |-> Nil]
  /\ installed = [t \in Tags |-> Nil]
  /\ previous = [t \in Tags |-> Nil]
  /\ tmp = [t \in Tags |-> Nil]
  /\ selected = Nil
  /\ geo = [f \in GeoFiles |-> Nil]
  /\ running = Nil
  /\ Changes!ActivationInit
  /\ trouble = {}

-------------------------------------------------------------------------------
(* start() and stop(), by whomever.                                        *)

Launch ==
  /\ running = Nil
  /\ active # Nil
  /\ running' = [binary |-> CoreBinary, geo |-> geo]

\* start() finds a core that runs, or launches one.
StartOK == (running # Nil /\ UNCHANGED running) \/ Launch

\* There is no configuration, or exec fails.
StartError == running = Nil /\ UNCHANGED running

Stop == running' = Nil

\* A delayed restart, a core action or the end of an activation.  One that comes
\* between the stop and the record of a selection starts the core before.
OthersStart ==
  /\ up
  /\ Launch
  /\ trouble' = IF \E m \in Maintainers : pc[m] = "record"
                  THEN trouble \cup {"start"} ELSE trouble
  /\ UNCHANGED <<up, lock, pc, job, disk, config>>

\* The core exits, or a core action or an activation stops it.
OthersStop ==
  /\ Stop
  /\ UNCHANGED <<up, lock, pc, job, disk, config, trouble>>

\* An activation: the core in force accepts the candidate, ...
EditAccepted ==
  /\ up
  /\ Changes!Accept
  /\ trouble' = {"edit"} \cup
       CASE lock # Nil                            -> trouble \cup {"overlap"}
         [] lock = Nil /\ "overlap" \in trouble   -> (trouble \ {"overlap"}) \cup {"core"}
         [] OTHER                                 -> trouble
  /\ UNCHANGED <<up, lock, pc, job, disk, running>>

\* ... the candidate is renamed, ...
EditRenames ==
  /\ Changes!Replace
  /\ UNCHANGED <<up, lock, pc, job, disk, running, trouble>>

\* ... and it stays, or a core that cannot be started brings the backup back;
\* an activation whose rename fails has given up before.
EditEnds ==
  /\ edit # Changes!NoEdit
  /\ \/ /\ Changes!Finish
        /\ trouble' = trouble \
             (IF edit.stage = "renamed" /\ "overlap" \notin trouble
                THEN {"edit", "core"} ELSE {"edit"})
     \/ /\ Changes!Undo
        /\ trouble' = trouble \ {"edit"}
  /\ UNCHANGED <<up, lock, pc, job, disk, running>>

-------------------------------------------------------------------------------
(* A handler comes, goes on and leaves.                                    *)

\* Mutant of Lock: there is no maintenanceMu.
NoLock(m) == lock' = m

Lock(m) == lock = Nil /\ lock' = m

Enter(m, label, locals) ==
  /\ up
  /\ pc[m] = "idle"
  /\ Lock(m)
  /\ pc' = [pc EXCEPT ![m] = label]
  /\ job' = [job EXCEPT ![m] = locals]
  /\ trouble' = IF edit = Changes!NoEdit THEN trouble ELSE trouble \cup {"overlap"}
  /\ UNCHANGED <<up, disk, running, config>>

\* Steps between; the rest of the state is for the caller to say.
Step(m, from, to) ==
  /\ pc[m] = from
  /\ pc' = [pc EXCEPT ![m] = to]
  /\ UNCHANGED <<up, lock, config>>

Leave(m, from) ==
  /\ pc[m] = from
  /\ pc' = [pc EXCEPT ![m] = "idle"]
  /\ job' = [job EXCEPT ![m] = Nil]
  /\ lock' = Nil
  /\ UNCHANGED <<up, config>>

\* An error the code does not look at.
Spoils(m) ==
  /\ job' = [job EXCEPT ![m].spoiled = TRUE]
  /\ trouble' = trouble \cup {"core"}

Unspoiled == UNCHANGED <<job, trouble>>

File(file, tag, data) == file' = [file EXCEPT ![tag] = data]

-------------------------------------------------------------------------------
(* updateCore.                                                             *)

\* The archive has been downloaded, and its checksum is right.
UpdateEnters(m) ==
  \E t \in Tags, b \in Binaries, s \in BOOLEAN :
    Enter(m, "fetched",
          [kind |-> "update", id |-> t, new |-> b, select |-> s, had |-> FALSE,
           before |-> Bundled, files |-> {}, release |-> Nil,
           force |-> CoreBinary, spoiled |-> FALSE])

WriteTmp(m) ==
  /\ \/ Step(m, "fetched", "written")
        /\ File(tmp, job[m].id, job[m].new)
        /\ UNCHANGED job
     \/ /\ Leave(m, "fetched")
        /\ tmp' \in {tmp, [tmp EXCEPT ![job[m].id] = Broken]}
  /\ UNCHANGED <<installed, previous, selected, geo, running, trouble>>

\* A refused download is removed.
Discard(m, from) ==
  /\ Leave(m, from)
  /\ File(tmp, job[m].id, Nil)
  /\ UNCHANGED <<installed, previous, selected, geo, running, trouble>>

\* The new binary has to print its version ...
TryBinary(m) ==
  \/ /\ Step(m, "written", "tried")
     /\ Runs(tmp[job[m].id])
     /\ UNCHANGED <<job, disk, running, trouble>>
  \/ Discard(m, "written")

\* Mutant of TryActive: the configuration is tried with the core in force.
TryActiveAsBefore(m) ==
  \/ /\ Step(m, "tried", "accepted")
     /\ active # Nil => Takes(CoreBinary, active)
     /\ UNCHANGED <<job, disk, running, trouble>>
  \/ Discard(m, "tried")

\* ... and to accept the active configuration, if there is one.
TryActive(m) ==
  \/ /\ Step(m, "tried", "accepted")
     /\ active # Nil => Takes(tmp[job[m].id], active)
     /\ UNCHANGED <<job, disk, running, trouble>>
  \/ Discard(m, "tried")

\* Mutant of MoveAside: that there was one is not remembered.
MoveAndForget(m) ==
  LET t == job[m].id IN
  /\ Step(m, "accepted", "aside")
  /\ File(previous, t, installed[t])
  /\ File(installed, t, Nil)
  /\ UNCHANGED <<job, tmp, selected, geo, running, trouble>>

\* An installed core of that tag becomes mihomo.previous.
MoveAside(m) ==
  LET t == job[m].id IN
  \/ /\ Step(m, "accepted", "aside")
     /\ installed[t] = Nil
     /\ UNCHANGED <<job, disk, running, trouble>>
  \/ /\ Step(m, "accepted", "aside")
     /\ installed[t] # Nil
     /\ File(previous, t, installed[t])
     /\ File(installed, t, Nil)
     /\ job' = [job EXCEPT ![m].had = TRUE]
     /\ UNCHANGED <<tmp, selected, geo, running, trouble>>
  \/ /\ Leave(m, "accepted")
     /\ installed[t] # Nil
     /\ previous' \in {previous, [previous EXCEPT ![t] = Nil]}
     /\ File(tmp, t, Nil)
     /\ UNCHANGED <<installed, selected, geo, running, trouble>>

PutBack(t) == File(installed, t, previous[t]) /\ File(previous, t, Nil)

Publish(m) ==
  LET t == job[m].id IN
  /\ pc[m] = "aside"
  /\ \/ /\ Step(m, "aside", IF job[m].select THEN "choose" ELSE "tidy")
        /\ File(installed, t, tmp[t])
        /\ UNCHANGED job
     \/ /\ IF job[m].had THEN Step(m, "aside", "revert") /\ UNCHANGED job
                         ELSE Leave(m, "aside")
        /\ UNCHANGED installed
  /\ File(tmp, t, Nil)
  /\ UNCHANGED <<previous, selected, geo, running, trouble>>

\* mihomo.previous is renamed back, an error ignored.
UndoRename(m) ==
  /\ \/ Step(m, "revert", "answer") \/ Step(m, "back", "restart")
  /\ \/ PutBack(job[m].id) /\ Unspoiled
     \/ UNCHANGED <<installed, previous>> /\ Spoils(m)
  /\ UNCHANGED <<tmp, selected, geo, running>>

Answer(m) ==
  /\ Leave(m, "answer")
  /\ UNCHANGED <<disk, running, trouble>>

Tidy(m) ==
  /\ Leave(m, "tidy")
  /\ previous' \in {previous, [previous EXCEPT ![job[m].id] = Nil]}
  /\ UNCHANGED <<installed, tmp, selected, geo, running, trouble>>

\* The new core could not be selected: stop, remove, put back, start.
UndoStop(m) ==
  /\ Step(m, "undo", "remove")
  /\ Stop
  /\ UNCHANGED <<job, disk, trouble>>

Remove(m) ==
  /\ Step(m, "remove", IF job[m].had THEN "back" ELSE "restart")
  /\ \/ File(installed, job[m].id, Nil) /\ Unspoiled
     \/ UNCHANGED installed /\ Spoils(m)
  /\ UNCHANGED <<previous, tmp, selected, geo, running>>

\* _ = m.start() and the error is answered.
LastStart(m) ==
  /\ Leave(m, "restart")
  /\ StartOK \/ StartError
  /\ UNCHANGED <<disk, trouble>>

-------------------------------------------------------------------------------
(* selectCore, alone or at the end of an update.                           *)

SelectEnters(m) ==
  \E i \in Ids :
    Enter(m, "choose",
          [kind |-> "select", id |-> i, new |-> Nil, select |-> TRUE,
           had |-> FALSE, before |-> Bundled, files |-> {}, release |-> Nil,
           force |-> CoreBinary, spoiled |-> FALSE])

\* selectCore returns an error.
SelectFails(m, from) ==
  /\ pc[m] = from
  /\ IF job[m].kind = "update" THEN Step(m, from, "undo") /\ UNCHANGED job
                               ELSE Leave(m, from)

\* selectCore returns nil.
SelectWorks(m, from) ==
  /\ pc[m] = from
  /\ IF job[m].kind = "update" THEN Step(m, from, "tidy") /\ UNCHANGED job
                               ELSE Leave(m, from)

\* The chosen core has to accept the active configuration, which has to exist.
Choose(m) ==
  /\ \/ /\ Step(m, "choose", "stopping")
        /\ Available(job[m].id)
        /\ active # Nil /\ Takes(Binary(job[m].id), active)
        /\ job' = [job EXCEPT ![m].before = SelectedId]
     \/ SelectFails(m, "choose")
  /\ UNCHANGED <<disk, running, trouble>>

\* Mutant of SelectStop: the core that runs is left alone.
SelectNoStop(m) ==
  /\ Step(m, "stopping", "record")
  /\ UNCHANGED <<job, disk, running, trouble>>

SelectStop(m) ==
  /\ Step(m, "stopping", "record")
  /\ Stop
  /\ UNCHANGED <<job, disk, trouble>>

Record(m) ==
  /\ \/ Step(m, "record", "starting") /\ selected' = job[m].id
     \/ Step(m, "record", "unchanged") /\ UNCHANGED selected
  /\ UNCHANGED <<job, cores, geo, running, trouble>>

SelectStart(m) ==
  /\ \/ StartOK /\ SelectWorks(m, "starting")
     \/ StartError /\ Step(m, "starting", "unrecord") /\ UNCHANGED job
  /\ trouble' = trouble \ {"start"}
  /\ UNCHANGED disk

\* The previous core is written back, errors ignored, and started.
Unrecord(m) ==
  /\ Step(m, "unrecord", "unchanged")
  /\ \/ selected' = job[m].before /\ Unspoiled
     \/ UNCHANGED selected /\ Spoils(m)
  /\ UNCHANGED <<cores, geo, running>>

StartBefore(m) ==
  /\ StartOK \/ StartError
  /\ SelectFails(m, "unchanged")
  /\ trouble' = trouble \ {"start"}
  /\ UNCHANGED disk

-------------------------------------------------------------------------------
(* updateGeoData.                                                          *)

GeoEnters(m) ==
  \E release \in Releases, lacking \in SUBSET Optional :
    Enter(m, "geo",
          [kind |-> "geo", id |-> Bundled, new |-> Nil, select |-> FALSE,
           had |-> FALSE, before |-> Bundled, files |-> GeoFiles \ lacking,
           release |-> release, force |-> CoreBinary, spoiled |-> FALSE])

\* One file after the other; the order does not matter.
WriteGeo(m) ==
  /\ \/ /\ Step(m, "geo", "geo")
        /\ \E f \in job[m].files :
             /\ geo' = [geo EXCEPT ![f] = job[m].release]
             /\ job' = [job EXCEPT ![m].files = @ \ {f}]
        /\ UNCHANGED trouble
     \/ /\ Leave(m, "geo")
        /\ job[m].files # {}
        /\ trouble' = trouble \cup {"geo"}
        /\ UNCHANGED geo
  /\ UNCHANGED <<cores, selected, running>>

\* Mutant of GeoStop: the core that runs is left alone.
GeoNoStop(m) ==
  /\ Step(m, "geo", "restart")
  /\ job[m].files = {}
  /\ trouble' = trouble \ {"geo"}
  /\ UNCHANGED <<job, disk, running>>

GeoStop(m) ==
  /\ Step(m, "geo", "restart")
  /\ job[m].files = {}
  /\ Stop
  /\ trouble' = trouble \ {"geo"}
  /\ UNCHANGED <<job, disk>>

-------------------------------------------------------------------------------
(* The helper ends and starts again.                                       *)

Ends ==
  /\ up
  /\ up' = FALSE
  /\ lock' = Nil
  /\ pc' = [m \in Maintainers |-> "idle"]
  /\ job' = [m \in Maintainers |-> Nil]
  /\ Changes!Finish
  /\ Stop
  /\ trouble' = (trouble \ {"start"}) \cup
       (IF edit = Changes!NoEdit /\ lock = Nil THEN {} ELSE {"core", "geo"})
  /\ UNCHANGED disk

\* Run starts the core if there is an active configuration.
Boot ==
  /\ ~up
  /\ up' = TRUE
  /\ Launch \/ StartError
  /\ UNCHANGED <<lock, pc, job, disk, config, trouble>>

Update(m) ==
  \/ UpdateEnters(m) \/ WriteTmp(m) \/ TryBinary(m) \/ TryActive(m)
  \/ MoveAside(m) \/ Publish(m) \/ Tidy(m)
  \/ UndoStop(m) \/ Remove(m) \/ UndoRename(m) \/ LastStart(m) \/ Answer(m)

Select(m) ==
  \/ SelectEnters(m) \/ Choose(m) \/ SelectStop(m) \/ Record(m)
  \/ SelectStart(m) \/ Unrecord(m) \/ StartBefore(m)

Geo(m) == GeoEnters(m) \/ WriteGeo(m) \/ GeoStop(m)

MaintNext ==
  \/ \E m \in Maintainers : Update(m) \/ Select(m) \/ Geo(m)
  \/ OthersStart \/ OthersStop \/ EditAccepted \/ EditRenames \/ EditEnds
  \/ Ends \/ Boot

MaintSpec == MaintInit /\ [][MaintNext]_maintVars

-------------------------------------------------------------------------------
(* Properties.                                                             *)

MaintLabels ==
  {"idle", "fetched", "written", "tried", "accepted", "aside", "choose", "tidy",
   "revert", "answer", "undo", "remove", "back", "restart", "stopping",
   "record", "starting", "unrecord", "unchanged", "geo"}

FileTypes ==
  /\ installed \in [Tags -> Images \cup {Nil}]
  /\ previous \in [Tags -> Images \cup {Nil}]
  /\ tmp \in [Tags -> Images \cup {Nil}]
  /\ selected \in Ids \cup {Nil}
  /\ geo \in [GeoFiles -> Releases \cup {Nil}]
  /\ running \in Started \cup {Nil}
  /\ active \in Configs \cup {Nil}
  /\ edit \in Edit

JobTypes ==
  /\ up \in BOOLEAN
  /\ lock \in Maintainers \cup {Nil}
  /\ pc \in [Maintainers -> MaintLabels]
  /\ job \in [Maintainers -> Job \cup {Nil}]
  /\ \A m \in Maintainers : job[m] = Nil <=> pc[m] = "idle"

\* Types of the files, of what runs, and of the locals of a handler, which has
\* some exactly while it is at work.
MaintTypeOK == FileTypes /\ JobTypes

\* Whatever fails or ends in the middle, and however many updates are asked for
\* at once, what lies under an installed core's name is whole and has run.
InstalledHasRun ==
  \A t \in Tags : installed[t] # Nil => Runs(installed[t])

\* An update or a selection that answers with an error leaves the core in force
\* that it found, even when the new one was in place already, and unless an
\* error on the way back was ignored (App.tsx:326: what fails does not replace
\* the running core).
AnswersError(m) ==
  pc[m] \notin {"idle", "tidy", "starting"} /\ pc'[m] = "idle" /\ up'

FailureKeepsCore ==
  [][\A m \in Maintainers :
       (AnswersError(m) /\ ~job[m].spoiled)
         => CoreBinary' = job[m].force]_maintVars

\* Updates and selections see to it that the core in force accepts the active
\* configuration, as changes of the configuration do: it does when none of the
\* two overlapped and no error was ignored.
CoreTakesActive ==
  (lock = Nil /\ trouble \subseteq {"geo"} /\ active # Nil)
    => Takes(CoreBinary, active)

\* When the files are replaced the core that runs uses them all, whoever started
\* it in between, and those that every release has are of one release; unless a
\* write failed or the helper ended half way, until the next update is done.
GeoIsLoaded ==
  (lock = Nil /\ "geo" \notin trouble) =>
    /\ running # Nil => running.geo = geo
    /\ \A f, g \in GeoFiles \ Optional : geo[f] = geo[g]

\* "mihomo 内核已切换" (App.tsx:251): when a selection has succeeded the selected
\* core is the one that runs, whatever starts and restarts came beside it, but
\* for a start between the stop and the record: that one started the core
\* before, and the start() of the selection leaves it alone.
SwitchedIsRunning ==
  [][\A m \in Maintainers :
       (pc[m] = "starting" /\ pc'[m] \in {"idle", "tidy"} /\ up' /\ "start" \notin trouble)
         => running'.binary = CoreBinary']_maintVars
===============================================================================
