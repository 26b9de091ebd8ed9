----------------------------- MODULE ConfigSwitch -----------------------------
(***************************************************************************)
(* How the helper changes the running configuration                        *)
(* (internal/helper/helper.go): activate, updateCurrentConfig, patchConfig *)
(* and the activatePrepared they share, on top of the manager's start()    *)
(* and stop() of Supervisor.  The goroutines that serve these requests are *)
(* the Others of Supervisor, called Editors here.  No lock covers them:    *)
(* every file operation is a step of its own, and os.WriteFile is two,     *)
(* because it truncates the file before it writes.                         *)
(*                                                                         *)
(* A configuration is a document and the values of the settings the        *)
(* overrides file can hold; Torn is a file that was truncated and not      *)
(* written, which the core refuses.  Requests that are refused before they *)
(* touch a file (a body too large, YAML or a provider path that prepare    *)
(* rejects) change nothing and are left out.                               *)
(***************************************************************************)
EXTENDS Supervisor

CONSTANTS
  Docs, BadDocs,  \* documents a client may send; those the core refuses
  Keys, Vals,     \* settings, and the values a patch may give them
  Uploads,        \* what clients upload
  Unset,          \* a setting a document or the overrides do not mention
  Torn,           \* the contents of a half-written file
  EmptyDoc,       \* the document that says nothing
  DiskMayFail,    \* whether a write may fail, leaving the file truncated
  MayCrash        \* whether the helper may end while an editor is at work

Editors  == Others
Options  == [Keys -> Vals \cup {Unset}]
Contents == [doc : Docs, opts : Options]

\* new: what to write next.  save: the merged overrides of a patch, Nil for an
\* upload.  prior (history): what was active when the request came.
Job == [new : Configs \cup {Nil}, save : Options \cup {Nil},
        prior : Configs \cup {Nil}]

ASSUME ContentsAssumption ==
  /\ BadDocs \subseteq Docs
  /\ EmptyDoc \in Docs
  /\ Unset \notin Vals
  /\ Torn \notin Contents \cup {Nil}
  /\ Nil \notin Options \cup Job
  /\ Configs = Contents \cup {Torn}
  /\ Uploads \subseteq Contents
  /\ DiskMayFail \in BOOLEAN
  /\ MayCrash \in BOOLEAN

VARIABLES
  candidate, backup,  \* candidate.yaml, active.previous.yaml, or Nil
  overrides,          \* overrides.yaml, or Nil
  tmp,                \* overrides.yaml.tmp, or Nil
  loaded,             \* what the tracked core has read from active.yaml, or Nil
  job,                \* the locals of an editor, or Nil
  fd,                 \* the file an editor has open for writing
  trouble             \* (history) what went wrong and was not made good since

files    == <<candidate, backup, overrides, tmp>>
confVars == <<supVars, files, loaded, job, fd, trouble>>

\* fd follows the open file, not its name: a rename moves it, a file that is
\* removed or renamed over is written to no effect.
Handles == {"none", "candidate", "backup", "active", "lost"}

\* backup: the last backup failed.  restore: one was cut short, or had no good
\* backup.  unsaved: settings took force and were not saved.  late: a core was
\* started between a failed start and the restore.
Troubles == {"backup", "restore", "unsaved", "late"}

ConfInit ==
  /\ SupInit
  /\ active = Nil
  /\ candidate = Nil /\ backup = Nil /\ overrides = Nil /\ tmp = Nil
  /\ loaded = Nil
  /\ job = [e \in Editors |-> Nil]
  /\ fd = [e \in Editors |-> "none"]
  /\ trouble = {}

Accepts(content) == content # Torn /\ content.doc \notin BadDocs

\* Mutant of Merge: the target's other keys are dropped.
MergeDrops(target, patch) ==
  [k \in {k \in Keys : patch[k] # Unset} |-> patch[k]]

\* mergeMaps: what the patch sets wins, what it does not mention stays.
Merge(target, patch) ==
  [k \in Keys |-> IF patch[k] = Unset THEN target[k] ELSE patch[k]]

NoOptions == [k \in Keys |-> Unset]

\* A configuration file that is absent sets nothing.
SavedOptions == IF overrides = Nil THEN NoOptions ELSE overrides

-------------------------------------------------------------------------------
(* What an editor does between its steps.                                  *)

\* The core reads active.yaml only after it is started; stop() and the exit of
\* the process leave nothing loaded.
KeepLoaded == loaded' = IF cmd' = cmd THEN loaded ELSE Nil

Notes(kinds)   == trouble' = trouble \cup kinds
Settles(kinds) == trouble' = trouble \ kinds

\* A core that is late is so until it goes.
LateOver   == IF cmd' = cmd THEN {} ELSE {"late"}
NoteLoaded == Settles(LateOver)

\* Leave step "from" for step "to".
Step(e, from, to) ==
  /\ pc[e] = from
  /\ Goto(e, to)
  /\ UNCHANGED <<helper, ctxDone, timer>>

\* A step on files only, and one that goes well.
DiskStep(e, from, to) ==
  Step(e, from, to) /\ UNCHANGED <<core, held, loaded>>

FileStep(e, from, to) ==
  DiskStep(e, from, to) /\ UNCHANGED trouble

Open(e, file)  == fd' = [fd EXCEPT ![e] = file]
Close(e)       == fd' = [fd EXCEPT ![e] = "none"]
Local(e, data) == job' = [job EXCEPT ![e] = data]
Forget(e)      == Local(e, Nil)

-------------------------------------------------------------------------------
(* The handlers up to activatePrepared.                                    *)

\* Mutant of Prepare: the saved overrides are not merged into the document.
PrepareAsIs(content) == content

\* prepare(): the saved overrides are merged into the uploaded document.
Prepare(content) ==
  [content EXCEPT !.opts = Merge(content.opts, SavedOptions)]

\* activate and updateCurrentConfig: POST validate-activate, PUT current.
Upload(e) ==
  /\ Accepting
  /\ FileStep(e, "idle", "open")
  /\ \E content \in Uploads :
       Local(e, [new |-> Prepare(content), save |-> Nil, prior |-> active])
  /\ UNCHANGED <<active, files, fd>>

\* patchConfig merges the patch into the saved overrides ...
Patch(e) ==
  /\ Accepting
  /\ FileStep(e, "idle", "merge")
  /\ \E patch \in Options \ {NoOptions} :
       Local(e, [new |-> Nil, save |-> Merge(SavedOptions, patch),
                 prior |-> active])
  /\ UNCHANGED <<active, files, fd>>

\* readYAMLMap: an empty file is an empty map.
Found(content) ==
  IF content = Torn THEN [doc |-> EmptyDoc, opts |-> NoOptions] ELSE content

\* ... and those into the active configuration; without one it gives up, and may do
\* so on half of one.
MergeActive(e) ==
  /\ \/ /\ active # Nil
        /\ FileStep(e, "merge", "open")
        /\ Local(e, [job[e] EXCEPT !.new =
             [Found(active) EXCEPT !.opts = Merge(Found(active).opts, job[e].save)]])
     \/ /\ active \notin Contents
        /\ FileStep(e, "merge", "idle")
        /\ Forget(e)
  /\ UNCHANGED <<active, files, fd>>

-------------------------------------------------------------------------------
(* activatePrepared.                                                       *)

OpenCandidate(e) ==
  /\ FileStep(e, "open", "write")
  /\ candidate' = Torn
  /\ Open(e, "candidate")
  /\ UNCHANGED <<active, backup, overrides, tmp, job>>

\* The second half of os.WriteFile puts data into the file e has open.
Put(e, data) ==
  /\ candidate' = IF fd[e] = "candidate" THEN data ELSE candidate
  /\ backup' = IF fd[e] = "backup" THEN data ELSE backup
  /\ active' = IF fd[e] = "active" THEN data ELSE active
  /\ UNCHANGED <<overrides, tmp>>
  /\ Close(e)

PutFails(e) == DiskMayFail /\ UNCHANGED <<active, files>> /\ Close(e)

WriteCandidate(e) ==
  \/ /\ FileStep(e, "write", "validate")
     /\ Put(e, job[e].new)
     /\ UNCHANGED job
  \/ /\ FileStep(e, "write", "idle")
     /\ PutFails(e)
     /\ Forget(e)

\* Mutant of Valid: what the core says of the candidate is ignored.
AnyFile == candidate # Nil

\* mihomo -t accepts the file it finds under the candidate's name.
Valid == candidate # Nil /\ Accepts(candidate)

\* Validation may also fail for other reasons (its 90 seconds run out); the
\* candidate is then removed, under whatever hands still write to it.
Validate(e) ==
  /\ \/ /\ Valid
        /\ FileStep(e, "validate", "backup")
        /\ UNCHANGED <<candidate, job, fd>>
     \/ /\ FileStep(e, "validate", "idle")
        /\ candidate' = Nil
        /\ fd' = [u \in Editors |->
                    IF fd[u] = "candidate" THEN "lost" ELSE fd[u]]
        /\ Forget(e)
  /\ UNCHANGED <<active, backup, overrides, tmp>>

\* Mutant of OpenBackup: a backup that is there is kept.
OpenBackupOnce(e) ==
  /\ \/ /\ active = Nil \/ backup # Nil
        /\ FileStep(e, "backup", "rename")
        /\ UNCHANGED <<backup, job, fd>>
     \/ /\ active # Nil /\ backup = Nil
        /\ FileStep(e, "backup", "copy")
        /\ backup' = Torn
        /\ Open(e, "backup")
        /\ Local(e, [job[e] EXCEPT !.new = active])
  /\ UNCHANGED <<active, candidate, overrides, tmp>>

\* copyFile(active, backup), its error ignored; skipped when there is no active.
OpenBackup(e) ==
  /\ \/ /\ active = Nil
        /\ FileStep(e, "backup", "rename")
        /\ UNCHANGED <<backup, job, fd>>
     \/ /\ active # Nil
        /\ FileStep(e, "backup", "copy")
        /\ backup' = Torn
        /\ Open(e, "backup")
        /\ Local(e, [job[e] EXCEPT !.new = active])
     \/ /\ active # Nil /\ DiskMayFail
        /\ DiskStep(e, "backup", "rename")
        /\ Notes({"backup"})
        /\ UNCHANGED <<backup, job, fd>>
  /\ UNCHANGED <<active, candidate, overrides, tmp>>

WriteBackup(e) ==
  /\ DiskStep(e, "copy", "rename")
  /\ \/ Put(e, job[e].new) /\ Settles({"backup"})
     \/ PutFails(e) /\ Notes({"backup"})
  /\ UNCHANGED job

RenameCandidate(e) ==
  \/ /\ candidate # Nil
     /\ FileStep(e, "rename", "stopping")
     /\ active' = candidate
     /\ candidate' = Nil
     /\ fd' = [u \in Editors |-> CASE fd[u] = "candidate" -> "active"
                                   [] fd[u] = "active"    -> "lost"
                                   [] OTHER               -> fd[u]]
     /\ UNCHANGED <<backup, overrides, tmp, job>>
  \/ /\ candidate = Nil \/ DiskMayFail
     /\ FileStep(e, "rename", "idle")
     /\ Forget(e)
     /\ UNCHANGED <<active, files, fd>>

\* Mutant of StopCore: the new configuration is not followed by a stop().
NoStop(e) ==
  /\ FileStep(e, "stopping", "starting")
  /\ UNCHANGED <<active, files, job, fd>>

StopCore(e) ==
  /\ \/ StopGoesOn(e) /\ Step(e, "stopping", "stopping")
     \/ StopReturns(e) /\ Step(e, "stopping", "starting")
  /\ KeepLoaded /\ NoteLoaded
  /\ UNCHANGED <<active, files, job, fd>>

\* What an activation that has worked makes good: whatever it was prepared from,
\* the overrides are merged into it.
Settled == {"restore", "unsaved"}

\* A restore whose backup has failed.
WithoutBackup == IF "backup" \in trouble THEN {"restore"} ELSE {}

StartCore(e) ==
  /\ pc[e] = "starting"
  /\ \/ /\ StartOK(timer)
        /\ \/ /\ job[e].save # Nil
              /\ Step(e, "starting", "save")
              /\ NoteLoaded
              /\ UNCHANGED job
           \/ /\ job[e].save = Nil
              /\ Step(e, "starting", "idle")
              /\ Settles(Settled \cup LateOver)
              /\ Forget(e)
     \/ /\ StartError
        /\ \/ /\ backup # Nil
              /\ Step(e, "starting", "restore")
              /\ NoteLoaded
              /\ UNCHANGED job
           \/ /\ backup = Nil
              /\ Step(e, "starting", "idle")
              /\ trouble' = (trouble \ LateOver) \cup WithoutBackup
              /\ Forget(e)
  /\ KeepLoaded
  /\ UNCHANGED <<active, files, held, fd>>

\* copyFile(backup, active), its error ignored.
OpenActive(e) ==
  /\ DiskStep(e, "restore", "restoring")
  /\ Local(e, [job[e] EXCEPT !.new = backup])
  /\ active' = Torn
  /\ Open(e, "active")
  /\ Notes(IF cmd = Nil THEN {} ELSE {"late"})
  /\ UNCHANGED files

OpenActiveFails(e) ==
  /\ DiskMayFail
  /\ DiskStep(e, "restore", "again")
  /\ Notes({"restore"})
  /\ UNCHANGED <<active, files, job, fd>>

WriteActive(e) ==
  /\ DiskStep(e, "restoring", "again")
  /\ \/ /\ Put(e, job[e].new)
        /\ Notes(WithoutBackup)
     \/ /\ PutFails(e)
        /\ Notes({"restore"})
  /\ UNCHANGED job

StartAgain(e) ==
  /\ StartOK(timer) \/ StartError
  /\ Step(e, "again", "idle")
  /\ Forget(e)
  /\ KeepLoaded /\ NoteLoaded
  /\ UNCHANGED <<active, files, held, fd>>

-------------------------------------------------------------------------------
(* The end of patchConfig: atomicWrite of the merged overrides.            *)

WriteTmp(e) ==
  /\ \/ /\ FileStep(e, "save", "publish")
        /\ tmp' = job[e].save
        /\ UNCHANGED job
     \/ /\ DiskMayFail
        /\ DiskStep(e, "save", "idle")
        /\ Notes({"unsaved"})
        /\ Forget(e)
        /\ UNCHANGED tmp
  /\ UNCHANGED <<active, candidate, backup, overrides, fd>>

\* Another request may have renamed the file already; this one then answers an
\* error.
RenameTmp(e) ==
  /\ DiskStep(e, "publish", "idle")
  /\ \/ /\ tmp # Nil
        /\ overrides' = tmp /\ tmp' = Nil
        /\ Settles(Settled)
     \/ /\ tmp = Nil \/ DiskMayFail
        /\ Notes({"unsaved"})
        /\ UNCHANGED <<overrides, tmp>>
  /\ Forget(e)
  /\ UNCHANGED <<active, candidate, backup, fd>>

-------------------------------------------------------------------------------
(* The rest of the helper.                                                 *)

\* The core reads the configuration it was started with; one it refuses makes
\* it exit, which CoreExits allows at any time.
CoreLoads ==
  /\ cmd # Nil
  /\ proc[cmd] = "alive"
  /\ loaded = Nil
  /\ active # Nil /\ Accepts(active)
  /\ loaded' = active
  /\ UNCHANGED <<supVars, files, job, fd, trouble>>

Busy(e) == pc[e] # "idle"

\* Steps of Supervisor that no editor takes.
Manager ==
  /\ \/ \E p \in Procs :
          CoreExits(p) \/ Wait(p) \/ RestartFires(p) \/ RestartCancelled(p)
     \/ \E c \in Calls : Request(c) \/ ActionStart(c) \/ ActionStop(c)
     \/ Boot \/ Restore \/ Cancel \/ CloseListener \/ Drain \/ ShutdownStop
  /\ KeepLoaded /\ NoteLoaded
  /\ UNCHANGED <<files, job, fd>>

\* What the end of the helper leaves undone.
HalfDone ==
  {t \in {"restore", "unsaved"} : \E e \in Editors :
     \/ t = "restore" /\ pc[e] \in {"restore", "restoring"}
     \/ t = "unsaved" /\ Busy(e) /\ job[e].save # Nil
                     /\ pc[e] \in {"stopping", "starting", "save", "publish"}}

\* The helper ends: what an editor was doing stays half done.
Ends ==
  /\ MayCrash \/ \A e \in Editors : ~Busy(e)
  /\ HelperExits \/ HelperCrashes
  /\ loaded' = Nil
  /\ job' = [e \in Editors |-> Nil]
  /\ fd' = [e \in Editors |-> "none"]
  /\ trouble' = (trouble \ {"late"}) \cup HalfDone
  /\ UNCHANGED files

Activation(e) ==
  \/ OpenCandidate(e) \/ WriteCandidate(e) \/ Validate(e)
  \/ OpenBackup(e) \/ WriteBackup(e) \/ RenameCandidate(e)
  \/ StopCore(e) \/ StartCore(e)
  \/ OpenActive(e) \/ OpenActiveFails(e) \/ WriteActive(e) \/ StartAgain(e)

Handler(e) == MergeActive(e) \/ Activation(e) \/ WriteTmp(e) \/ RenameTmp(e)

ConfNext ==
  \/ Manager \/ Ends \/ CoreLoads
  \/ \E e \in Editors : Upload(e) \/ Patch(e) \/ Handler(e)

ConfSpec == ConfInit /\ [][ConfNext]_confVars

\* Go runs every goroutine that can run, the core's validation is killed after
\* 90 seconds, SIGKILL ends a process.  Nothing is assumed of clients, of the
\* core, or of the helper's end.
ConfFairness ==
  /\ \A e \in Editors : WF_confVars(Handler(e))
  /\ \A p \in Procs :
       /\ WF_confVars(Wait(p) /\ Manager)
       /\ WF_confVars((RestartFires(p) \/ RestartCancelled(p)) /\ Manager)
       /\ WF_confVars(sig[p] = "KILL" /\ CoreExits(p) /\ Manager)

ConfFairSpec == ConfSpec /\ ConfFairness

-------------------------------------------------------------------------------
(* Properties.                                                             *)

ConfLabels == SupLabels \cup
  {"merge", "open", "write", "validate", "backup", "copy", "rename", "stopping",
   "starting", "restore", "restoring", "again", "save", "publish"}

\* Types of the files and of an editor's locals.
ConfTypeOK ==
  /\ CoreTypeOK
  /\ pc \in [Threads -> ConfLabels]
  /\ {active, candidate, backup} \subseteq Configs \cup {Nil}
  /\ {overrides, tmp} \subseteq Options \cup {Nil}
  /\ loaded \in Contents \cup {Nil}
  /\ fd \in [Editors -> Handles]
  /\ trouble \subseteq Troubles
  /\ job \in [Editors -> Job \cup {Nil}]

\* active.yaml is never a file the core has refused or that was half written,
\* but while a restore rewrites it: the candidate is validated under its own
\* name and reaches active.yaml by rename only.
ActiveIsAccepted ==
  \/ active = Nil
  \/ Accepts(active)
  \/ \E e \in Editors : pc[e] = "restoring"
  \/ "restore" \in trouble

\* A core that runs another configuration than active.yaml is about to be
\* stopped by the editor that changed it.  So when no editor is at work, what
\* runs is what the panel shows as the current configuration, whatever timer,
\* start or restart came in between.
StaleCoreIsReplaced ==
  loaded \notin {Nil, active} =>
    \/ \E e \in Editors : pc[e] = "stopping" /\ held[e] = Nil
    \/ "late" \in trouble

\* Once a patch has been answered its settings are in the overrides file and in
\* active.yaml, and no later upload, patch or failed activation takes them out
\* of force (README.md:132).
OverridesInForce ==
  (overrides # Nil /\ (\A e \in Editors : ~Busy(e)) /\ trouble \cap Settled = {}) =>
    /\ active \in Contents
    /\ Merge(active.opts, overrides) = active.opts

\* The handler returns an error from activatePrepared; start() has failed when
\* it leaves no process behind.
FailsActivation(e) ==
  /\ \/ pc[e] \in {"write", "validate", "rename", "again"}
     \/ pc[e] = "starting" /\ cmd' = Nil
  /\ pc'[e] = "idle" /\ helper' # "down"

\* Whatever makes an activation fail, the configuration that was active when
\* the request came is active again when it is answered (App.tsx:333), if there
\* was one.
FailureKeepsPrior ==
  [][\A e \in Editors :
       (FailsActivation(e) /\ job[e].prior # Nil)
         => active' = job[e].prior \/ "restore" \in trouble']_confVars

\* Every request is answered: the handlers wait for nothing without a limit.
RequestsEnd == \A e \in Editors : Busy(e) ~> ~Busy(e)

\* From the rename until an editor has done its work or undone it, what is in
\* force is what was before.
Undecided(e) ==
  pc[e] \in {"stopping", "starting", "restore", "restoring", "again", "save", "publish"}

InForce ==
  IF \E e \in Editors : Undecided(e)
    THEN job[CHOOSE e \in Editors : Undecided(e)].prior
    ELSE active

\* For one editor whose writes work, a change of configuration is one atomic
\* step, whatever starts, exits and restarts of the core come in between.
Promise == INSTANCE ConfigService WITH current <- InForce, saved <- SavedOptions
ImplementsConfigService == Promise!ConfigServiceSpec

\* How far the activation of an editor has come, for whoever reads active.yaml;
\* while a restore writes the file, what it writes counts.
EditUnderWay ==
  LET At(labels)  == \E e \in Editors : pc[e] \in labels
      JobAt(labels) == job[CHOOSE e \in Editors : pc[e] \in labels]
      tested  == {"backup", "copy", "rename"}
      renamed == {"stopping", "starting", "restore"}
      Record(stage, new, old) == [stage |-> stage, new |-> new, old |-> old]
  IN  CASE At(tested)  -> Record("tested", candidate, JobAt(tested).prior)
        [] At(renamed) -> Record("renamed", Nil, JobAt(renamed).prior)
        [] OTHER       -> Record("none", Nil, Nil)

ActiveForReaders ==
  IF \E e \in Editors : pc[e] = "restoring"
    THEN job[CHOOSE e \in Editors : pc[e] = "restoring"].new
    ELSE active

\* To the rest of the helper an activation is a test, a rename, and no more than
\* a way back to what was active: what Maintenance takes it for.
Steps == INSTANCE Activation WITH
  active   <- ActiveForReaders,
  edit     <- EditUnderWay,
  accepted <- {content \in Contents : Accepts(content)}
ImplementsActivation == Steps!ActivationSpec
===============================================================================
