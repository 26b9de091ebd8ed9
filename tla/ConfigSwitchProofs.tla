-------------------------- MODULE ConfigSwitchProofs --------------------------
(***************************************************************************)
(* Configuration changes for all documents, settings, editors and          *)
(* processes.  The manager's invariant of SupervisorProofs holds beside    *)
(* the editors too.  What is active is then followed through the labels    *)
(* of one editor: two of them share the candidate's name, and the run      *)
(* switch_race shows what comes of it.                                     *)
(***************************************************************************)
EXTENDS ConfigSwitch, SupervisorProofs

USE ThreadsAssumption, ContentsAssumption DEF Threads, Editors, core, files

-------------------------------------------------------------------------------
(* Types, and the manager beside editors.                                  *)

LEMMA MergeTyped ==
  ASSUME NEW a \in Options, NEW b \in Options
  PROVE  Merge(a, b) \in Options
BY DEF Merge, Options

LEMMA SavedTyped ==
  ASSUME overrides \in Options \cup {Nil}
  PROVE  SavedOptions \in Options
BY DEF SavedOptions, NoOptions, Options

LEMMA WithOpts ==
  ASSUME NEW c \in Contents, NEW o \in Options
  PROVE  /\ [c EXCEPT !.opts = o] \in Contents
         /\ [c EXCEPT !.opts = o].opts = o
BY DEF Contents

\* A file the core accepts is a whole one.
LEMMA AcceptedIsContent ==
  ASSUME NEW x \in Configs \cup {Nil}, x # Nil, Accepts(x)
  PROVE  x \in Contents
BY DEF Accepts

\* Editors at work have their locals.
Working ==
  \A e \in Editors :
    /\ Busy(e) => job[e] \in Job
    /\ pc[e] = "merge" => job[e].save \in Options

BaseInv == ConfTypeOK /\ ManagerInv /\ Working

\* Labels of pc after a step of one editor.
LEMMA GotoTyped ==
  ASSUME pc \in [Threads -> ConfLabels], NEW e \in Editors, NEW l \in ConfLabels,
         Goto(e, l)
  PROVE  /\ pc' \in [Threads -> ConfLabels] /\ pc'[e] = l
         /\ \A t \in Threads \ {e} : pc'[t] = pc[t]
BY DEF Goto

\* A step that leaves an editor's locals of the right kind.
LEMMA LocalTyped ==
  ASSUME job \in [Editors -> Job \cup {Nil}], NEW e \in Editors,
         NEW x \in Job \cup {Nil}, Local(e, x)
  PROVE  /\ job' \in [Editors -> Job \cup {Nil}] /\ job'[e] = x
         /\ \A f \in Editors \ {e} : job'[f] = job[f]
BY DEF Local

\* New contents among the locals.
LEMMA NewTyped ==
  ASSUME NEW j \in Job, NEW x \in Configs \cup {Nil}
  PROVE  /\ [j EXCEPT !.new = x] \in Job
         /\ [j EXCEPT !.new = x].new = x
         /\ [j EXCEPT !.new = x].save = j.save
         /\ [j EXCEPT !.new = x].prior = j.prior
BY DEF Job

\* What a patch reads as the active configuration.
LEMMA FoundTyped ==
  ASSUME NEW x \in Configs
  PROVE  Found(x) \in Contents /\ (x \in Contents => Found(x) = x)
BY DEF Found, Contents, Options, NoOptions

\* The steps of an editor: those that touch files only, and the rest.
OnDisk(e) ==
  \/ Upload(e) \/ Patch(e) \/ MergeActive(e)
  \/ OpenCandidate(e) \/ WriteCandidate(e) \/ Validate(e)
  \/ OpenBackup(e) \/ WriteBackup(e) \/ RenameCandidate(e)
  \/ OpenActive(e) \/ OpenActiveFails(e) \/ WriteActive(e)
  \/ WriteTmp(e) \/ RenameTmp(e)

Edits(e) == Upload(e) \/ Patch(e) \/ Handler(e)

LEMMA EditCases ==
  ASSUME NEW e \in Editors, Edits(e)
  PROVE  OnDisk(e) \/ StopCore(e) \/ StartCore(e) \/ StartAgain(e)
BY DEF Edits, Handler, Activation, OnDisk

\* An editor moves from one label to another, and touches the manager only
\* through stop() and start().
LEMMA EditMoves ==
  ASSUME NEW e \in Editors, Edits(e)
  PROVE  /\ \E from, to \in ConfLabels : Step(e, from, to)
         /\ pc[e] = "idle" => Accepting
         /\ OnDisk(e) => UNCHANGED <<core, held, loaded>>
<1>1. CASE Upload(e) \/ Patch(e) \/ MergeActive(e)
  BY <1>1 DEF Upload, Patch, MergeActive, FileStep, DiskStep, Step, ConfLabels,
       SupLabels
<1>2. CASE OpenCandidate(e) \/ WriteCandidate(e) \/ Validate(e)
  BY <1>2 DEF OpenCandidate, WriteCandidate, Validate, FileStep, DiskStep, Step,
       ConfLabels, SupLabels
<1>3. CASE OpenBackup(e) \/ WriteBackup(e) \/ RenameCandidate(e)
  BY <1>3 DEF OpenBackup, WriteBackup, RenameCandidate, FileStep, DiskStep, Step,
       ConfLabels, SupLabels
<1>4. CASE OpenActive(e) \/ OpenActiveFails(e) \/ WriteActive(e)
  BY <1>4 DEF OpenActive, OpenActiveFails, WriteActive, FileStep, DiskStep, Step,
       ConfLabels, SupLabels
<1>5. CASE WriteTmp(e) \/ RenameTmp(e)
  BY <1>5 DEF WriteTmp, RenameTmp, FileStep, DiskStep, Step, ConfLabels, SupLabels
<1>6. CASE StopCore(e) \/ StartCore(e) \/ StartAgain(e)
  <2>1. ~OnDisk(e)
    BY <1>6 DEF OnDisk, StopCore, StartCore, StartAgain, Upload, Patch, MergeActive,
         OpenCandidate, WriteCandidate, Validate, OpenBackup, WriteBackup,
         RenameCandidate, OpenActive, OpenActiveFails, WriteActive, WriteTmp,
         RenameTmp, FileStep, DiskStep, Step
  <2> QED
    BY <1>6, <2>1 DEF StopCore, StartCore, StartAgain, Step, ConfLabels, SupLabels
<1> QED
  BY <1>1, <1>2, <1>3, <1>4, <1>5, <1>6, EditCases DEF OnDisk

\* Beside its editors the manager keeps its invariant.
LEMMA EditKeepsManager ==
  ASSUME BaseInv, NEW e \in Editors, Edits(e)
  PROVE  ManagerInv' /\ helper # "down" /\ UNCHANGED <<helper, ctxDone, timer>>
<1> USE DEF BaseInv, ManagerInv
<1>1. helper # "down" /\ UNCHANGED <<helper, ctxDone, timer>>
  BY EditMoves DEF Step, Accepting, DownIsEmpty
<1>2. CASE OnDisk(e)
  BY <1>1, <1>2, EditMoves, OthersKeep DEF DownIsEmpty
<1>3. CASE StopCore(e)
  <2>1. StopGoesOn(e) \/ StopReturns(e)
    BY <1>3 DEF StopCore
  <2> QED
    BY <1>1, <2>1, StopKeeps DEF DownIsEmpty
<1>4. CASE StartCore(e) \/ StartAgain(e)
  <2>1. (StartOK(timer') \/ StartError) /\ UNCHANGED held
    BY <1>1, <1>4 DEF StartCore, StartAgain
  <2> QED
    BY <1>1, <2>1, StartKeeps DEF DownIsEmpty
<1> QED
  BY <1>1, <1>2, <1>3, <1>4, EditCases

\* An editor that begins has its locals.
LEMMA BeginTyped ==
  ASSUME BaseInv, NEW e \in Editors, Upload(e) \/ Patch(e)
  PROVE  job'[e] \in Job /\ job' \in [Editors -> Job \cup {Nil}]
         /\ (pc'[e] = "merge" => job'[e].save \in Options)
<1> USE DEF BaseInv, ConfTypeOK
<1>1. ASSUME NEW content \in Uploads,
             Local(e, [new |-> Prepare(content), save |-> Nil, prior |-> active]),
             Goto(e, "open")
      PROVE  job'[e] \in Job /\ job' \in [Editors -> Job \cup {Nil}] /\ pc'[e] = "open"
  <2>1. Prepare(content) \in Contents
    BY SavedTyped, MergeTyped, WithOpts DEF Prepare, Contents
  <2>2. [new |-> Prepare(content), save |-> Nil, prior |-> active] \in Job
    BY <2>1 DEF Job
  <2> QED
    BY <1>1, <2>2, LocalTyped, GotoTyped DEF ConfLabels
<1>2. ASSUME NEW patch \in Options,
             Local(e, [new |-> Nil, save |-> Merge(SavedOptions, patch),
                       prior |-> active])
      PROVE  job'[e] \in Job /\ job' \in [Editors -> Job \cup {Nil}]
             /\ job'[e].save \in Options
  <2>1. Merge(SavedOptions, patch) \in Options
    BY SavedTyped, MergeTyped
  <2>2. [new |-> Nil, save |-> Merge(SavedOptions, patch), prior |-> active] \in Job
    BY <2>1 DEF Job
  <2> QED
    BY <1>2, <2>1, <2>2, LocalTyped
<1>3. CASE Upload(e)
  BY <1>1, <1>3 DEF Upload, FileStep, DiskStep, Step
<1>4. CASE Patch(e)
  BY <1>2, <1>4 DEF Patch
<1> QED
  BY <1>3, <1>4

\* What goes on keeps them, or is over.
LEMMA GoesOnTyped ==
  ASSUME BaseInv, NEW e \in Editors, Handler(e)
  PROVE  /\ job' \in [Editors -> Job \cup {Nil}]
         /\ \/ /\ job'[e] \in Job
               /\ job'[e].save = job[e].save /\ job'[e].prior = job[e].prior
            \/ pc'[e] = "idle"
         /\ pc'[e] # "merge"
         /\ \A f \in Editors \ {e} : job'[f] = job[f]
<1> USE DEF BaseInv, ConfTypeOK
<1>a. pc[e] # "idle" => job[e] \in Job
  BY DEF Working, Busy
<1>b. ASSUME pc[e] # "idle", NEW x \in Configs \cup {Nil}, NEW l \in ConfLabels \ {"merge"},
             Goto(e, l), Local(e, [job[e] EXCEPT !.new = x])
      PROVE  /\ job' \in [Editors -> Job \cup {Nil}] /\ job'[e] \in Job
             /\ job'[e].save = job[e].save /\ job'[e].prior = job[e].prior
             /\ pc'[e] # "merge"
             /\ \A f \in Editors \ {e} : job'[f] = job[f]
  <2> DEFINE j == [job[e] EXCEPT !.new = x]
  <2>1. j \in Job /\ j.save = job[e].save /\ j.prior = job[e].prior
    BY <1>a, <1>b, NewTyped
  <2>2. job'[e] = j /\ job' \in [Editors -> Job \cup {Nil}]
          /\ \A f \in Editors \ {e} : job'[f] = job[f]
    BY <1>b, <2>1, LocalTyped
  <2> QED
    BY <1>b, <2>1, <2>2, GotoTyped
<1>1. CASE MergeActive(e)
  <2>1. CASE Goto(e, "open") /\ active # Nil /\ pc[e] = "merge"
             /\ Local(e, [job[e] EXCEPT !.new =
                  [Found(active) EXCEPT !.opts = Merge(Found(active).opts, job[e].save)]])
    <3>0. Found(active) \in Contents
      BY <2>1, FoundTyped DEF BaseInv, ConfTypeOK
    <3>1. [Found(active) EXCEPT !.opts = Merge(Found(active).opts, job[e].save)] \in Configs
      BY <2>1, <3>0, MergeTyped, WithOpts DEF Contents, Working
    <3> QED
      BY <1>b, <2>1, <3>1 DEF ConfLabels
  <2>2. CASE Goto(e, "idle") /\ Local(e, Nil)
    BY <2>2, LocalTyped, GotoTyped DEF ConfLabels, SupLabels
  <2> QED
    BY <1>1, <2>1, <2>2 DEF MergeActive, FileStep, DiskStep, Step, Forget
<1>2. CASE \E l \in ConfLabels \ {"merge"} : Goto(e, l) /\ UNCHANGED job /\ pc[e] # "idle"
  BY <1>a, <1>2, GotoTyped
<1>3. CASE Goto(e, "idle") /\ Local(e, Nil)
  BY <1>3, LocalTyped, GotoTyped DEF ConfLabels, SupLabels
<1>4. CASE \E x \in {active, backup}, l \in {"copy", "restoring"} :
             Goto(e, l) /\ Local(e, [job[e] EXCEPT !.new = x]) /\ pc[e] # "idle"
  BY <1>b, <1>4 DEF ConfLabels
<1>5. CASE OpenCandidate(e) \/ WriteCandidate(e) \/ Validate(e)
  BY <1>2, <1>3, <1>5 DEF OpenCandidate, WriteCandidate, Validate, FileStep,
       DiskStep, Step, Forget, ConfLabels
<1>6. CASE OpenBackup(e) \/ WriteBackup(e) \/ RenameCandidate(e)
  BY <1>2, <1>3, <1>4, <1>6 DEF OpenBackup, WriteBackup, RenameCandidate, FileStep,
       DiskStep, Step, Forget, ConfLabels
<1>7. CASE OpenActive(e) \/ OpenActiveFails(e) \/ WriteActive(e)
  BY <1>2, <1>3, <1>4, <1>7 DEF OpenActive, OpenActiveFails, WriteActive, FileStep,
       DiskStep, Step, Forget, ConfLabels
<1>8. CASE StopCore(e) \/ StartCore(e) \/ StartAgain(e)
  BY <1>2, <1>3, <1>8 DEF StopCore, StartCore, StartAgain, Step, Forget, ConfLabels
<1>9. CASE WriteTmp(e) \/ RenameTmp(e)
  BY <1>2, <1>3, <1>9 DEF WriteTmp, RenameTmp, FileStep, DiskStep, Step, Forget,
       ConfLabels
<1> QED
  BY <1>1, <1>5, <1>6, <1>7, <1>8, <1>9 DEF Handler, Activation

\* Files, handles and notes of an editor's step.
LEMMA EditFilesTyped ==
  ASSUME BaseInv, NEW e \in Editors, Edits(e)
  PROVE  /\ {active', candidate', backup'} \subseteq Configs \cup {Nil}
         /\ {overrides', tmp'} \subseteq Options \cup {Nil}
         /\ loaded' \in Contents \cup {Nil}
         /\ fd' \in [Editors -> Handles]
         /\ trouble' \subseteq Troubles
<1> USE DEF BaseInv, ConfTypeOK
<1>a. pc[e] # "idle" => job[e] \in Job
  BY DEF Working, Busy
<1>1. CASE Upload(e) \/ Patch(e) \/ MergeActive(e)
  BY <1>1 DEF Upload, Patch, MergeActive, FileStep, DiskStep, Step
<1>2. CASE OpenCandidate(e) \/ Validate(e)
  BY <1>2 DEF OpenCandidate, Validate, FileStep, DiskStep, Open, Handles
<1>3. CASE WriteCandidate(e) \/ WriteBackup(e) \/ WriteActive(e)
  <2>1. job[e].new \in Configs \cup {Nil} /\ UNCHANGED loaded
    BY <1>3, <1>a DEF WriteCandidate, WriteBackup, WriteActive, FileStep, DiskStep,
         Step, Job
  <2>2. Put(e, job[e].new) \/ PutFails(e)
    BY <1>3 DEF WriteCandidate, WriteBackup, WriteActive
  <2>3. trouble' \subseteq Troubles
    BY <1>3 DEF WriteCandidate, WriteBackup, WriteActive, FileStep, Notes, Settles,
         Troubles, WithoutBackup
  <2> QED
    BY <2>1, <2>2, <2>3 DEF Put, PutFails, Close, Handles
<1>4. CASE OpenBackup(e) \/ OpenActive(e) \/ OpenActiveFails(e)
  BY <1>4 DEF OpenBackup, OpenActive, OpenActiveFails, FileStep, DiskStep, Open,
       Handles, Notes, Troubles
<1>5. CASE RenameCandidate(e)
  BY <1>5 DEF RenameCandidate, FileStep, DiskStep, Handles
<1>6. CASE StopCore(e) \/ StartCore(e) \/ StartAgain(e)
  BY <1>6 DEF StopCore, StartCore, StartAgain, KeepLoaded, NoteLoaded, Settles,
       LateOver, Settled, WithoutBackup, Troubles
<1>7. CASE WriteTmp(e) \/ RenameTmp(e)
  BY <1>7, <1>a DEF WriteTmp, RenameTmp, FileStep, DiskStep, Step, Notes, Settles,
       Troubles, Job
<1> QED
  BY <1>1, <1>2, <1>3, <1>4, <1>5, <1>6, <1>7 DEF Edits, Handler, Activation

LEMMA EditKeepsBase ==
  ASSUME BaseInv, NEW e \in Editors, Edits(e)
  PROVE  BaseInv'
<1> USE DEF BaseInv, ConfTypeOK
<1>1. PICK from \in ConfLabels, to \in ConfLabels : Step(e, from, to)
  BY EditMoves
<1>2. /\ pc' \in [Threads -> ConfLabels]
      /\ \A f \in Editors \ {e} : pc'[f] = pc[f]
  BY <1>1, GotoTyped DEF Step
<1>3. job' \in [Editors -> Job \cup {Nil}] /\ Working'
  <2>1. CASE Upload(e) \/ Patch(e)
    <3>1. \A f \in Editors \ {e} : job'[f] = job[f]
      BY <2>1 DEF Upload, Patch, Local
    <3> QED
      BY <1>2, <2>1, <3>1, BeginTyped DEF Working, Busy
  <2>2. CASE Handler(e)
    BY <1>2, <2>2, GoesOnTyped DEF Working, Busy
  <2> QED
    BY <2>1, <2>2 DEF Edits
<1> QED
  BY <1>2, <1>3, EditKeepsManager, EditFilesTyped DEF ManagerInv

\* The rest of the helper leaves editors and their files alone.
LEMMA ManagerMoves ==
  ASSUME BaseInv, Manager
  PROVE  /\ ManagerInv' /\ UNCHANGED <<active, files, job, fd>>
         /\ pc' \in [Threads -> ConfLabels]
         /\ \A e \in Editors : pc'[e] = pc[e] /\ held'[e] = held[e]
         /\ KeepLoaded /\ NoteLoaded
<1> USE DEF BaseInv, ConfTypeOK, CoreTypeOK
<1>1. UNCHANGED <<files, job, fd>> /\ KeepLoaded /\ NoteLoaded
  BY DEF Manager
<1>2. \A t \in Threads, l \in SupLabels :
        pc' = [pc EXCEPT ![t] = l] => pc' \in [Threads -> ConfLabels]
  BY DEF ConfLabels
<1>3. ASSUME NEW t \in Threads \ Editors, StopGoesOn(t) \/ StopReturns(t)
      PROVE  \A e \in Editors : held'[e] = held[e]
  BY <1>3 DEF StopGoesOn, StopReturns, StopNothing, StopTake, StopTerm, StopDone,
       StopKill
<1>4. ASSUME NEW p \in Procs,
             CoreExits(p) \/ Wait(p) \/ RestartFires(p) \/ RestartCancelled(p)
      PROVE  /\ ManagerInv' /\ UNCHANGED <<active, pc>>
             /\ \A e \in Editors : held'[e] = held[e]
  BY <1>4, ProcessKeeps DEF CoreExits, Wait, RestartFires, RestartCancelled
<1>5. ASSUME NEW c \in Calls, Request(c) \/ ActionStart(c) \/ ActionStop(c)
      PROVE  /\ ManagerInv' /\ UNCHANGED active
             /\ pc' \in [Threads -> ConfLabels]
             /\ \A e \in Editors : pc'[e] = pc[e] /\ held'[e] = held[e]
  <2>1. \A e \in Editors : held'[e] = held[e]
    BY <1>3, <1>5 DEF Request, ActionStart, ActionStop
  <2>2. /\ ManagerInv' /\ UNCHANGED active
        /\ \/ UNCHANGED pc
           \/ \E label \in SupLabels : pc' = [pc EXCEPT ![c] = label]
    BY <1>5, CallKeeps
  <2> QED
    BY <1>2, <2>1, <2>2
<1>6. ASSUME Boot \/ Restore \/ Cancel \/ CloseListener \/ Drain \/ ShutdownStop
      PROVE  /\ ManagerInv' /\ UNCHANGED active
             /\ pc' \in [Threads -> ConfLabels]
             /\ \A e \in Editors : pc'[e] = pc[e] /\ held'[e] = held[e]
  <2>1. \A e \in Editors : held'[e] = held[e]
    BY <1>3, <1>6 DEF Boot, Restore, Cancel, CloseListener, Drain, ShutdownStop
  <2>2. /\ ManagerInv' /\ UNCHANGED active
        /\ \/ UNCHANGED pc
           \/ \E label \in SupLabels : pc' = [pc EXCEPT ![Shutdown] = label]
    BY <1>6, RunKeeps
  <2> QED
    BY <1>2, <2>1, <2>2
<1> QED
  BY <1>1, <1>4, <1>5, <1>6 DEF Manager

\* The end of the helper ends its editors, and leaves the files alone.
LEMMA EndsMoves ==
  ASSUME BaseInv, Ends
  PROVE  /\ ManagerInv' /\ UNCHANGED <<active, files>>
         /\ pc' = [t \in Threads |-> "idle"] /\ held' = [t \in Threads |-> Nil]
         /\ helper' = "down"
BY GoneKeeps DEF BaseInv, Ends, HelperExits, HelperCrashes, HelperGone

LEMMA BaseInit == ConfInit => BaseInv
<1> SUFFICES ASSUME ConfInit PROVE BaseInv
  OBVIOUS
<1> USE DEF ConfInit, SupInit
<1>1. ConfTypeOK
  BY DEF ConfTypeOK, CoreTypeOK, ConfLabels, SupLabels, Handles
<1>2. ManagerInv
  BY <1>1, InitInv DEF SupInv, ManagerInv, ConfTypeOK
<1> QED
  BY <1>1, <1>2 DEF BaseInv, Working, Busy

LEMMA BaseStep == BaseInv /\ [ConfNext]_confVars => BaseInv'
<1> SUFFICES ASSUME BaseInv, [ConfNext]_confVars PROVE BaseInv'
  OBVIOUS
<1> USE DEF BaseInv, ConfTypeOK
<1>1. ASSUME NEW e \in Editors, Edits(e) PROVE BaseInv'
  BY <1>1, EditKeepsBase
<1>2. CASE Manager
  <2>1. loaded' \in Contents \cup {Nil} /\ trouble' \subseteq Troubles
    BY <1>2, ManagerMoves DEF KeepLoaded, NoteLoaded, Settles, LateOver
  <2> QED
    BY <1>2, <2>1, ManagerMoves DEF ManagerInv, Working, Busy
<1>3. CASE Ends
  <2>1. loaded' = Nil /\ job' = [e \in Editors |-> Nil]
        /\ fd' \in [Editors -> Handles] /\ trouble' \subseteq Troubles
    BY <1>3 DEF Ends, Handles, HalfDone, Troubles
  <2> QED
    BY <1>3, <2>1, EndsMoves DEF ManagerInv, Working, Busy, ConfLabels, SupLabels
<1>4. CASE CoreLoads \/ UNCHANGED confVars
  <2>1. UNCHANGED <<supVars, files, job, fd, trouble>>
    BY <1>4 DEF CoreLoads, confVars
  <2>2. ManagerInv'
    BY <2>1, OthersKeep DEF supVars, ManagerInv, DownIsEmpty
  <2>3. loaded' \in Contents \cup {Nil}
    BY <1>4, AcceptedIsContent DEF CoreLoads, confVars
  <2> QED
    BY <2>1, <2>2, <2>3 DEF supVars, ManagerInv, Working, Busy
<1> QED
  BY <1>1, <1>2, <1>3, <1>4 DEF ConfNext, Edits

LEMMA BaseHolds == ConfSpec => []BaseInv
  BY BaseInit, BaseStep, PTL DEF ConfSpec

\* Whatever editors do at once, files, handles and locals keep their types.
THEOREM SwitchTyped == ConfSpec => []ConfTypeOK
  BY BaseHolds, PTL DEF BaseInv

\* Beside any number of activations, too, a live core is tracked, in the hand of
\* a stop(), or has been sent SIGKILL.
THEOREM NoCoreEscapesEditors == ConfSpec => []NoStrayCore
  BY BaseHolds, PTL DEF BaseInv, ManagerInv, CoreInv

\* To CoreService an editor is one more caller of stop() and start().
LEMMA EditServes ==
  ASSUME BaseInv, NEW e \in Editors, Edits(e)
  PROVE  ServiceStep
<1> USE DEF BaseInv, ManagerInv, CoreInv
<1> e \in Threads
  OBVIOUS
<1>1. helper # "down" /\ helper' # "down" /\ UNCHANGED timer
  BY EditKeepsManager
<1>2. CASE OnDisk(e)
  BY <1>1, <1>2, EditMoves, OthersServe
<1>3. CASE StopCore(e)
  <2>1. StopGoesOn(e) \/ StopReturns(e)
    BY <1>3 DEF StopCore
  <2> QED
    BY <1>1, <2>1, StopServes
<1>4. CASE StartCore(e) \/ StartAgain(e)
  <2>1. StartOK(timer') \/ StartError
    BY <1>1, <1>4 DEF StartCore, StartAgain
  <2> QED
    BY <1>1, <2>1, StartServes
<1> QED
  BY <1>2, <1>3, <1>4, EditCases

LEMMA SwitchServes == BaseInv /\ [ConfNext]_confVars => ServiceStep
<1> SUFFICES ASSUME BaseInv, [ConfNext]_confVars PROVE ServiceStep
  OBVIOUS
<1> ManagerInv
  BY DEF BaseInv
<1>1. CASE CoreLoads \/ UNCHANGED confVars
  BY <1>1, OthersServe DEF CoreLoads, confVars, supVars
<1>2. CASE Manager
  BY <1>2, ProcessServes, CallServes, RunServes DEF Manager
<1>3. CASE Ends
  BY <1>3, RunServes DEF Ends, HelperExits, HelperCrashes
<1>4. ASSUME NEW e \in Editors, Edits(e) PROVE ServiceStep
  BY <1>4, EditServes
<1> QED
  BY <1>1, <1>2, <1>3, <1>4 DEF ConfNext, Edits

\* With any number of editors calling stop() and start() beside each other, the
\* core actions, the restarts and the shutdown, the manager still implements
\* CoreService.
THEOREM EditorsKeepService == ConfSpec => Service!SvcSpec
<1>1. ConfInit => Service!SvcInit
  BY DEF ConfInit, SupInit, Service!SvcInit
<1> QED
  BY <1>1, BaseHolds, SwitchServes, PTL
     DEF ConfSpec, Service!SvcSpec, ServiceStep

\* So status reports only cores nobody has signalled, and a stop() by an editor
\* arms no restart either.
THEOREM ManagerKeptByEditors ==
  ConfSpec => [](TrackedIsLive /\ NoRestartOfStopped)
  BY BaseHolds, PTL DEF BaseInv, ManagerInv, CoreInv

-------------------------------------------------------------------------------
(* One editor.                                                             *)

OneEditor == \E e : Editors = {e}

\* The file an editor has open, the process it stops and the settings it will
\* save go with its label.
Phase(e) ==
  /\ pc[e] = "write" <=> fd[e] = "candidate"
  /\ pc[e] = "copy" <=> fd[e] = "backup"
  /\ pc[e] = "restoring" <=> fd[e] = "active"
  /\ fd[e] # "lost"
  /\ held[e] # Nil => pc[e] = "stopping"
  /\ pc[e] \in {"merge", "save", "publish"} => job[e].save # Nil
  /\ pc[e] = "restoring" => active = Torn
  /\ pc[e] \notin SupLabels \ {"idle"}

Phases == \A e \in Editors : Phase(e)

\* What the steps of the only editor do, put together.
LEMMA MergeActiveDoes ==
  ASSUME BaseInv, Phases, NEW e \in Editors, MergeActive(e)
  PROVE  /\ pc[e] = "merge" /\ UNCHANGED <<active, files, trouble, fd>>
         /\ \/ /\ pc'[e] = "open" /\ active # Nil /\ Found(active) \in Contents
               /\ active \in Contents => Found(active) = active
               /\ job'[e] = [job[e] EXCEPT !.new =
                               [Found(active) EXCEPT !.opts = Merge(Found(active).opts, job[e].save)]]
            \/ pc'[e] = "idle"
<1>1. active # Nil => Found(active) \in Contents /\ (active \in Contents => Found(active) = active)
  BY FoundTyped DEF BaseInv, ConfTypeOK
<1> QED
  BY <1>1 DEF MergeActive, FileStep, DiskStep, Step, Goto, Local, BaseInv, ConfTypeOK

LEMMA CandidateDoes ==
  ASSUME BaseInv, Phases, OneEditor, NEW e \in Editors,
         OpenCandidate(e) \/ WriteCandidate(e) \/ Validate(e)
  PROVE  /\ UNCHANGED <<active, backup, overrides, tmp, trouble>>
         /\ \/ /\ pc[e] = "open" /\ pc'[e] = "write" /\ fd'[e] = "candidate"
               /\ UNCHANGED job
            \/ /\ pc[e] = "write" /\ pc'[e] = "validate" /\ fd'[e] = "none"
               /\ candidate' = job[e].new /\ UNCHANGED job
            \/ /\ pc[e] = "validate" /\ pc'[e] = "backup" /\ fd'[e] = fd[e]
               /\ Valid /\ UNCHANGED <<candidate, job>>
            \/ /\ pc[e] \in {"write", "validate"} /\ pc'[e] = "idle"
               /\ fd'[e] = "none"
<1> USE DEF BaseInv, ConfTypeOK, FileStep, DiskStep, Step, Goto, Open, Close, Phases,
      Phase
<1>1. CASE OpenCandidate(e)
  BY <1>1 DEF OpenCandidate
<1>2. CASE WriteCandidate(e)
  BY <1>2 DEF WriteCandidate, Put, PutFails
<1>3. CASE Validate(e)
  <2>1. fd[e] = "none"
    BY <1>3 DEF Validate, Handles
  <2> QED
    BY <1>3, <2>1 DEF Validate
<1> QED
  BY <1>1, <1>2, <1>3

LEMMA BeginDoes ==
  ASSUME BaseInv, Phases, NEW e \in Editors, Upload(e) \/ Patch(e)
  PROVE  /\ pc[e] = "idle" /\ UNCHANGED <<active, files, trouble, fd>>
         /\ job'[e].prior = active
         /\ \/ /\ pc'[e] = "open" /\ job'[e].save = Nil
               /\ \E content \in Uploads : job'[e].new = Prepare(content)
            \/ /\ pc'[e] = "merge" /\ job'[e].save # Nil
               /\ \E patch \in Options : job'[e].save = Merge(SavedOptions, patch)
<1> USE DEF BaseInv, ConfTypeOK, FileStep, DiskStep, Step, Goto, Local
<1>1. CASE Upload(e)
  <2>1. PICK content \in Uploads :
          Local(e, [new |-> Prepare(content), save |-> Nil, prior |-> active])
    BY <1>1 DEF Upload
  <2>2. job'[e] = [new |-> Prepare(content), save |-> Nil, prior |-> active]
    BY <2>1
  <2> QED
    BY <1>1, <2>2 DEF Upload
<1>2. CASE Patch(e)
  <2>1. PICK patch \in Options :
          Local(e, [new |-> Nil, save |-> Merge(SavedOptions, patch), prior |-> active])
    BY <1>2 DEF Patch
  <2>2. job'[e] = [new |-> Nil, save |-> Merge(SavedOptions, patch), prior |-> active]
    BY <2>1
  <2>3. Merge(SavedOptions, patch) # Nil
    BY SavedTyped, MergeTyped
  <2> QED
    BY <1>2, <2>2, <2>3 DEF Patch
<1> QED
  BY <1>1, <1>2

LEMMA BackupDoes ==
  ASSUME BaseInv, Phases, NEW e \in Editors, OpenBackup(e) \/ WriteBackup(e)
  PROVE  /\ UNCHANGED <<active, candidate, overrides, tmp>>
         /\ \/ /\ pc[e] = "backup" /\ pc'[e] = "rename" /\ UNCHANGED <<backup, job, fd>>
               /\ \/ active = Nil /\ UNCHANGED trouble
                  \/ active # Nil /\ DiskMayFail /\ Notes({"backup"})
            \/ /\ pc[e] = "backup" /\ pc'[e] = "copy" /\ active # Nil /\ backup' = Torn
               /\ fd'[e] = "backup" /\ UNCHANGED trouble
               /\ job'[e] = [job[e] EXCEPT !.new = active]
            \/ /\ pc[e] = "copy" /\ pc'[e] = "rename" /\ fd'[e] = "none" /\ UNCHANGED job
               /\ \/ backup' = job[e].new /\ Settles({"backup"})
                  \/ DiskMayFail /\ UNCHANGED backup /\ Notes({"backup"})
<1> USE DEF BaseInv, ConfTypeOK, FileStep, DiskStep, Step, Goto, Open, Close, Local,
      Phases, Phase
<1>1. CASE OpenBackup(e)
  BY <1>1 DEF OpenBackup
<1>2. CASE WriteBackup(e)
  BY <1>2 DEF WriteBackup, Put, PutFails
<1> QED
  BY <1>1, <1>2

LEMMA RenameDoes ==
  ASSUME BaseInv, Phases, OneEditor, NEW e \in Editors, RenameCandidate(e)
  PROVE  /\ pc[e] = "rename" /\ fd'[e] = "none" /\ UNCHANGED <<backup, overrides, tmp, trouble>>
         /\ \/ /\ pc'[e] = "stopping" /\ candidate # Nil /\ active' = candidate
               /\ UNCHANGED job
            \/ /\ pc'[e] = "idle" /\ UNCHANGED active
               /\ candidate = Nil \/ DiskMayFail
<1> USE DEF BaseInv, ConfTypeOK, FileStep, DiskStep, Step, Goto, Phases, Phase
<1>1. fd[e] = "none" /\ pc[e] = "rename"
  BY DEF RenameCandidate, Handles
<1> QED
  BY <1>1 DEF RenameCandidate

LEMMA RestoreDoes ==
  ASSUME BaseInv, Phases, NEW e \in Editors,
         OpenActive(e) \/ OpenActiveFails(e) \/ WriteActive(e)
  PROVE  /\ UNCHANGED files
         /\ \/ /\ pc[e] = "restore" /\ pc'[e] = "restoring" /\ fd'[e] = "active"
               /\ active' = Torn /\ job'[e] = [job[e] EXCEPT !.new = backup]
               /\ Notes(IF cmd = Nil THEN {} ELSE {"late"})
            \/ /\ pc[e] = "restore" /\ pc'[e] = "again" /\ fd'[e] = fd[e] /\ DiskMayFail
               /\ Notes({"restore"}) /\ UNCHANGED <<active, job>>
            \/ /\ pc[e] = "restoring" /\ pc'[e] = "again" /\ fd'[e] = "none" /\ UNCHANGED job
               /\ \/ active' = job[e].new /\ Notes(WithoutBackup)
                  \/ DiskMayFail /\ UNCHANGED active /\ Notes({"restore"})
<1> USE DEF BaseInv, ConfTypeOK, FileStep, DiskStep, Step, Goto, Open, Close, Local,
      Phases, Phase
<1>1. CASE OpenActive(e)
  BY <1>1 DEF OpenActive
<1>2. CASE OpenActiveFails(e)
  BY <1>2 DEF OpenActiveFails
<1>3. CASE WriteActive(e)
  BY <1>3 DEF WriteActive, Put, PutFails
<1> QED
  BY <1>1, <1>2, <1>3

LEMMA SaveDoes ==
  ASSUME BaseInv, Phases, NEW e \in Editors, WriteTmp(e) \/ RenameTmp(e)
  PROVE  /\ UNCHANGED <<active, candidate, backup, fd>>
         /\ \/ /\ pc[e] = "save" /\ pc'[e] = "publish" /\ tmp' = job[e].save
               /\ UNCHANGED <<overrides, job, trouble>>
            \/ /\ pc[e] = "save" /\ pc'[e] = "idle" /\ DiskMayFail
               /\ Notes({"unsaved"}) /\ UNCHANGED <<overrides, tmp>>
            \/ /\ pc[e] = "publish" /\ pc'[e] = "idle" /\ tmp # Nil
               /\ overrides' = tmp /\ Settles(Settled)
            \/ /\ pc[e] = "publish" /\ pc'[e] = "idle" /\ (tmp = Nil \/ DiskMayFail)
               /\ Notes({"unsaved"}) /\ UNCHANGED <<overrides, tmp>>
BY DEF WriteTmp, RenameTmp, FileStep, DiskStep, Step, Goto, BaseInv, ConfTypeOK

\* start() of an editor or of anyone: a process that was not tracked before has
\* loaded nothing, and an error leaves none.
LEMMA StartLeaves ==
  ASSUME StartOK(timer)
  PROVE  cmd' # Nil
BY DEF StartOK, Running, Launch

LEMMA CoreDoes ==
  ASSUME BaseInv, Phases, NEW e \in Editors,
         StopCore(e) \/ StartCore(e) \/ StartAgain(e)
  PROVE  /\ UNCHANGED <<active, files, fd>> /\ KeepLoaded
         /\ \/ /\ pc[e] = "stopping" /\ pc'[e] = "stopping" /\ StopGoesOn(e)
               /\ UNCHANGED job /\ NoteLoaded
            \/ /\ pc[e] = "stopping" /\ pc'[e] = "starting" /\ StopReturns(e)
               /\ UNCHANGED job /\ NoteLoaded
            \/ /\ pc[e] = "starting" /\ pc'[e] = "save" /\ job[e].save # Nil /\ cmd' # Nil
               /\ UNCHANGED <<held, job>> /\ NoteLoaded
            \/ /\ pc[e] = "starting" /\ pc'[e] = "idle" /\ job[e].save = Nil /\ cmd' # Nil
               /\ UNCHANGED held /\ Settles(Settled \cup LateOver)
            \/ /\ pc[e] = "starting" /\ pc'[e] = "restore" /\ cmd' = Nil
               /\ backup # Nil /\ UNCHANGED <<held, job>> /\ NoteLoaded
            \/ /\ pc[e] = "starting" /\ pc'[e] = "idle" /\ cmd' = Nil
               /\ backup = Nil /\ UNCHANGED held
               /\ trouble' = (trouble \ LateOver) \cup WithoutBackup
            \/ /\ pc[e] = "again" /\ pc'[e] = "idle" /\ UNCHANGED held /\ NoteLoaded
<1> USE DEF BaseInv, ConfTypeOK, Step, Goto
<1>1. CASE StopCore(e)
  BY <1>1 DEF StopCore
<1>2. CASE StartCore(e)
  <2>1. StartError => cmd' = Nil
    BY DEF StartError, Running
  <2> QED
    BY <1>2, <2>1, StartLeaves DEF StartCore
<1>3. CASE StartAgain(e)
  BY <1>3 DEF StartAgain
<1> QED
  BY <1>1, <1>2, <1>3

LEMMA EditGroups ==
  ASSUME NEW e \in Editors, Edits(e)
  PROVE  \/ Upload(e) \/ Patch(e)
         \/ MergeActive(e)
         \/ OpenCandidate(e) \/ WriteCandidate(e) \/ Validate(e)
         \/ OpenBackup(e) \/ WriteBackup(e)
         \/ RenameCandidate(e)
         \/ StopCore(e) \/ StartCore(e) \/ StartAgain(e)
         \/ OpenActive(e) \/ OpenActiveFails(e) \/ WriteActive(e)
         \/ WriteTmp(e) \/ RenameTmp(e)
BY DEF Edits, Handler, Activation

LEMMA EditKeepsPhase ==
  ASSUME BaseInv, Phases, OneEditor, NEW e \in Editors, Edits(e)
  PROVE  Phases'
<1> SUFFICES Phase(e)'
  BY DEF OneEditor, Phases
<1> USE DEF Phases, Phase, SupLabels
<1>a. pc[e] # "idle" => job[e] \in Job
  BY DEF BaseInv, Working, Busy
<1>b. fd[e] \in Handles
  BY DEF BaseInv, ConfTypeOK
<1>c. OnDisk(e) => UNCHANGED held
  BY EditMoves DEF core
<1>1. CASE Upload(e) \/ Patch(e)
  BY <1>1, <1>c, BeginDoes DEF OnDisk
<1>2. CASE MergeActive(e)
  BY <1>2, <1>c, MergeActiveDoes DEF OnDisk
<1>3. CASE OpenCandidate(e) \/ WriteCandidate(e) \/ Validate(e)
  BY <1>3, <1>c, CandidateDoes DEF OnDisk
<1>4. CASE OpenBackup(e) \/ WriteBackup(e)
  BY <1>4, <1>c, BackupDoes DEF OnDisk
<1>5. CASE RenameCandidate(e)
  BY <1>5, <1>c, RenameDoes DEF OnDisk
<1>6. CASE StopCore(e) \/ StartCore(e) \/ StartAgain(e)
  <2>1. StopReturns(e) => held'[e] = Nil
    BY DEF StopReturns, StopNothing, StopDone, StopKill, BaseInv, ConfTypeOK,
         CoreTypeOK
  <2> QED
    BY <1>6, <2>1, CoreDoes
<1>7. CASE OpenActive(e) \/ OpenActiveFails(e) \/ WriteActive(e)
  BY <1>7, <1>c, RestoreDoes DEF OnDisk
<1>8. CASE WriteTmp(e) \/ RenameTmp(e)
  <2>1. UNCHANGED <<held, active, fd>>
    BY <1>8, <1>c, SaveDoes DEF OnDisk
  <2>2. \/ pc[e] = "save" /\ pc'[e] = "publish" /\ UNCHANGED job
        \/ pc[e] \in {"save", "publish"} /\ pc'[e] = "idle"
    BY <1>8, SaveDoes
  <2> QED
    BY <2>1, <2>2
<1> QED
  BY <1>1, <1>2, <1>3, <1>4, <1>5, <1>6, <1>7, <1>8, EditGroups

\* Steps of the others leave editors where they are, but for the end of the
\* helper.
Bystands ==
  /\ UNCHANGED <<active, files, job, fd>>
  /\ \A e \in Editors : pc'[e] = pc[e] /\ held'[e] = held[e]
  /\ trouble' \in {trouble, trouble \ {"late"}}

LEMMA StepCases ==
  ASSUME BaseInv, [ConfNext]_confVars
  PROVE  (\E e \in Editors : Edits(e)) \/ Bystands \/ Ends
<1>1. CASE Manager
  BY <1>1, ManagerMoves DEF Bystands, NoteLoaded, Settles, LateOver
<1>2. CASE CoreLoads \/ UNCHANGED confVars
  BY <1>2 DEF CoreLoads, confVars, supVars, Bystands
<1> QED
  BY <1>1, <1>2 DEF ConfNext, Edits

LEMMA PhaseStep ==
  ASSUME BaseInv, Phases, OneEditor, [ConfNext]_confVars
  PROVE  Phases'
<1> USE DEF Phases, Phase
<1>1. ASSUME NEW e \in Editors, Edits(e) PROVE Phases'
  BY <1>1, EditKeepsPhase
<1>2. CASE Bystands
  BY <1>2 DEF Bystands
<1>3. CASE Ends
  BY <1>3, EndsMoves DEF Ends
<1> QED
  BY <1>1, <1>2, <1>3, StepCases

-------------------------------------------------------------------------------
(* What is active has been accepted.                                       *)

Good(x) == x # Nil /\ Accepts(x)

\* A backup or what is read from it is good, unless a failure has been noted.
Noted == {"backup", "restore"} \cap trouble # {}

\* The candidate from its validation to its rename, the active configuration
\* after it, and the backup a restore would take.
SafeFiles(e) ==
  /\ \/ active = Nil \/ Good(active)
     \/ pc[e] = "restoring" \/ "restore" \in trouble
  /\ active = Nil => backup = Nil
  /\ pc[e] \in {"backup", "copy", "rename"} => Good(candidate)
  /\ pc[e] \in {"stopping", "starting", "restore", "save", "publish"} => Good(active)
  /\ pc[e] = "copy" => /\ active # Nil /\ job[e].new # Nil
                       /\ Good(job[e].new) \/ "restore" \in trouble
  /\ pc[e] \in {"rename", "stopping", "starting", "restore"} =>
       backup = Nil \/ Good(backup) \/ Noted
  /\ pc[e] = "restore" => backup # Nil
  /\ pc[e] = "restoring" => /\ job[e].new # Nil
                            /\ Good(job[e].new) \/ Noted

AllSafe == \A e \in Editors : SafeFiles(e)

LEMMA EditKeepsSafe ==
  ASSUME BaseInv, Phases, AllSafe, OneEditor, NEW e \in Editors, Edits(e)
  PROVE  AllSafe'
<1> SUFFICES SafeFiles(e)'
  BY DEF OneEditor, AllSafe
<1> USE DEF AllSafe, SafeFiles, Good, Noted, Notes, Settles, Accepts
<1>a. pc[e] # "idle" => job[e] \in Job
  BY DEF BaseInv, Working, Busy
<1>1. CASE Upload(e) \/ Patch(e)
  BY <1>1, BeginDoes
<1>2. CASE MergeActive(e)
  BY <1>2, MergeActiveDoes
<1>3. CASE OpenCandidate(e) \/ WriteCandidate(e) \/ Validate(e)
  BY <1>3, CandidateDoes DEF Valid
<1>4. CASE OpenBackup(e) \/ WriteBackup(e)
  <2>1. [job[e] EXCEPT !.new = active].new = active
    BY <1>4, <1>a, BackupDoes DEF Job
  <2> QED
    BY <1>4, <2>1, BackupDoes
<1>5. CASE RenameCandidate(e)
  BY <1>5, RenameDoes
<1>6. CASE StopCore(e) \/ StartCore(e) \/ StartAgain(e)
  BY <1>6, CoreDoes DEF NoteLoaded, LateOver, Settled, WithoutBackup
<1>7. CASE OpenActive(e) \/ OpenActiveFails(e) \/ WriteActive(e)
  <2>1. [job[e] EXCEPT !.new = backup].new = backup
    BY <1>7, <1>a, RestoreDoes DEF Job
  <2> QED
    BY <1>7, <2>1, RestoreDoes DEF WithoutBackup
<1>8. CASE WriteTmp(e) \/ RenameTmp(e)
  BY <1>8, SaveDoes DEF Settled
<1> QED
  BY <1>1, <1>2, <1>3, <1>4, <1>5, <1>6, <1>7, <1>8, EditGroups

LEMMA SafeStep ==
  ASSUME BaseInv, Phases, AllSafe, OneEditor, [ConfNext]_confVars
  PROVE  AllSafe'
<1> USE DEF AllSafe, SafeFiles
<1>1. ASSUME NEW e \in Editors, Edits(e) PROVE AllSafe'
  BY <1>1, EditKeepsSafe
<1>2. CASE Bystands
  BY <1>2 DEF Bystands, Good, Accepts, Noted
<1>3. CASE Ends
  BY <1>3, EndsMoves DEF Ends, HalfDone, Good, Accepts
<1> QED
  BY <1>1, <1>2, <1>3, StepCases

-------------------------------------------------------------------------------
(* The core runs what is active.                                           *)

\* What is loaded is the tracked core's, and it is stale only before its stop().
Fresh ==
  /\ loaded # Nil => cmd # Nil
  /\ StaleCoreIsReplaced

LEMMA EditKeepsFresh ==
  ASSUME BaseInv, Phases, Fresh, OneEditor, NEW e \in Editors, Edits(e)
  PROVE  Fresh'
<1> USE DEF Phases, Phase, Fresh, StaleCoreIsReplaced, Notes, Settles
<1>a. OnDisk(e) => UNCHANGED <<cmd, held, loaded>>
  BY EditMoves DEF core
<1>b. \A f \in Editors : f = e
  BY DEF OneEditor
<1>c. loaded # Torn /\ "late" \notin Settled
  BY DEF BaseInv, ConfTypeOK, Settled
<1>1. CASE Upload(e) \/ Patch(e)
  BY <1>1, <1>a, <1>b, BeginDoes DEF OnDisk
<1>2. CASE MergeActive(e)
  BY <1>2, <1>a, <1>b, MergeActiveDoes DEF OnDisk
<1>3. CASE OpenCandidate(e) \/ WriteCandidate(e) \/ Validate(e)
  BY <1>3, <1>a, <1>b, CandidateDoes DEF OnDisk
<1>4. CASE OpenBackup(e) \/ WriteBackup(e)
  BY <1>4, <1>a, <1>b, BackupDoes DEF OnDisk
<1>5. CASE RenameCandidate(e)
  BY <1>5, <1>a, <1>b, RenameDoes DEF OnDisk
<1>6. CASE StopCore(e) \/ StartCore(e) \/ StartAgain(e)
  <2>1. StopReturns(e) => held[e] # Nil \/ loaded = Nil
    BY DEF StopReturns, StopNothing, StopDone, StopKill
  <2>2. StopGoesOn(e) => held[e] # Nil \/ cmd' # cmd
    BY DEF StopGoesOn, StopTake, StopTerm
  <2>3. KeepLoaded => (loaded' = loaded /\ cmd' = cmd) \/ loaded' = Nil
    BY DEF KeepLoaded
  <2>4. loaded' = Nil \/ (loaded' = loaded /\ cmd' = cmd /\ active' = active)
    BY <1>6, <2>3, CoreDoes
  <2>5. cmd' = cmd => (pc[e] = "stopping" => held[e] # Nil \/ loaded = Nil)
    BY <1>6, <2>1, <2>2, CoreDoes
  <2>6. cmd' = cmd => ("late" \in trouble => "late" \in trouble')
    BY <1>6, <1>c, CoreDoes DEF NoteLoaded, LateOver
  <2> QED
    BY <1>b, <2>4, <2>5, <2>6
<1>7. CASE OpenActive(e) \/ OpenActiveFails(e) \/ WriteActive(e)
  BY <1>7, <1>a, <1>b, <1>c, RestoreDoes DEF OnDisk
<1>8. CASE WriteTmp(e) \/ RenameTmp(e)
  BY <1>8, <1>a, <1>b, <1>c, SaveDoes DEF OnDisk
<1> QED
  BY <1>1, <1>2, <1>3, <1>4, <1>5, <1>6, <1>7, <1>8, EditGroups

LEMMA FreshStep ==
  ASSUME BaseInv, Phases, Fresh, OneEditor, [ConfNext]_confVars
  PROVE  Fresh'
<1> USE DEF Fresh, StaleCoreIsReplaced
<1>1. ASSUME NEW e \in Editors, Edits(e) PROVE Fresh'
  BY <1>1, EditKeepsFresh
<1>2. CASE Manager
  BY <1>2, ManagerMoves DEF KeepLoaded, NoteLoaded, Settles, LateOver
<1>3. CASE Ends
  BY <1>3 DEF Ends
<1>4. CASE CoreLoads \/ UNCHANGED confVars
  BY <1>4 DEF CoreLoads, confVars, supVars
<1> QED
  BY <1>1, <1>2, <1>3, <1>4 DEF ConfNext, Edits

-------------------------------------------------------------------------------
(* What was active can be put back.                                        *)

Untouched == {"merge", "open", "write", "validate", "backup", "copy", "rename"}

\* Until the rename what is active is what was; after it the backup is, unless a
\* failure has been noted.
Undoes(e) ==
  /\ pc[e] \in Untouched => active = job[e].prior
  /\ pc[e] = "copy" => job[e].new = active
  /\ pc[e] \in {"rename", "stopping", "starting", "restore"} =>
       IF job[e].prior = Nil THEN backup = Nil
       ELSE backup = job[e].prior \/ "backup" \in trouble
  /\ pc[e] = "restoring" =>
       job[e].prior # Nil /\ (job[e].new = job[e].prior \/ "backup" \in trouble)
  /\ pc[e] = "again" => active = job[e].prior \/ "restore" \in trouble
  /\ pc[e] \notin {"idle", "merge"} /\ job[e].save # Nil => job[e].prior # Nil

AllUndo == \A e \in Editors : Undoes(e)

LEMMA EditKeepsUndo ==
  ASSUME BaseInv, Phases, AllSafe, AllUndo, OneEditor, NEW e \in Editors, Edits(e)
  PROVE  AllUndo'
<1> SUFFICES Undoes(e)'
  BY DEF OneEditor, AllUndo
<1> USE DEF AllUndo, Undoes, Untouched, Notes, Settles
<1>a. pc[e] # "idle" => job[e] \in Job
  BY DEF BaseInv, Working, Busy
<1>1. CASE Upload(e) \/ Patch(e)
  BY <1>1, BeginDoes
<1>2. CASE MergeActive(e)
  <2>1. pc[e] = "merge" /\ UNCHANGED <<active, backup, trouble>>
    BY <1>2, MergeActiveDoes
  <2>2. \/ /\ pc'[e] = "open" /\ active # Nil
           /\ job'[e].prior = job[e].prior
        \/ pc'[e] = "idle"
    BY <1>2, MergeActiveDoes, GoesOnTyped DEF Handler
  <2> QED
    BY <2>1, <2>2
<1>3. CASE OpenCandidate(e) \/ WriteCandidate(e) \/ Validate(e)
  BY <1>3, CandidateDoes
<1>4. CASE OpenBackup(e) \/ WriteBackup(e)
  <2>1. LET j == [job[e] EXCEPT !.new = active]
        IN  j.new = active /\ j.prior = job[e].prior /\ j.save = job[e].save
    BY <1>4, <1>a, BackupDoes DEF Job
  <2>2. active = Nil => backup = Nil
    BY DEF AllSafe, SafeFiles
  <2> QED
    BY <1>4, <2>1, <2>2, BackupDoes
<1>5. CASE RenameCandidate(e)
  BY <1>5, RenameDoes
<1>6. CASE StopCore(e) \/ StartCore(e) \/ StartAgain(e)
  BY <1>6, CoreDoes DEF NoteLoaded, LateOver, Settled, WithoutBackup
<1>7. CASE OpenActive(e) \/ OpenActiveFails(e) \/ WriteActive(e)
  <2>1. LET j == [job[e] EXCEPT !.new = backup]
        IN  j.new = backup /\ j.prior = job[e].prior /\ j.save = job[e].save
    BY <1>7, <1>a, RestoreDoes DEF Job
  <2>2. pc[e] = "restore" => backup # Nil
    BY DEF AllSafe, SafeFiles
  <2> QED
    BY <1>7, <2>1, <2>2, RestoreDoes DEF WithoutBackup
<1>8. CASE WriteTmp(e) \/ RenameTmp(e)
  BY <1>8, SaveDoes DEF Settled
<1> QED
  BY <1>1, <1>2, <1>3, <1>4, <1>5, <1>6, <1>7, <1>8, EditGroups

LEMMA UndoStep ==
  ASSUME BaseInv, Phases, AllSafe, AllUndo, OneEditor, [ConfNext]_confVars
  PROVE  AllUndo'
<1> USE DEF AllUndo, Undoes, Untouched
<1>1. ASSUME NEW e \in Editors, Edits(e) PROVE AllUndo'
  BY <1>1, EditKeepsUndo
<1>2. CASE Bystands
  BY <1>2 DEF Bystands
<1>3. CASE Ends
  BY <1>3, EndsMoves DEF Ends
<1> QED
  BY <1>1, <1>2, <1>3, StepCases

\* What a request has found was whole, unless a failure has been noted.
Whole(e) == pc[e] # "idle" => job[e].prior # Torn \/ "restore" \in trouble

AllWhole == \A e \in Editors : Whole(e)

LEMMA WholeStep ==
  ASSUME BaseInv, Phases, AllSafe, AllWhole, OneEditor, [ConfNext]_confVars
  PROVE  AllWhole'
<1> USE DEF AllWhole, Whole
<1>1. ASSUME NEW e \in Editors, Edits(e) PROVE AllWhole'
  <2> SUFFICES Whole(e)'
    BY DEF OneEditor
  <2>1. CASE Upload(e) \/ Patch(e)
    BY <2>1, BeginDoes DEF AllSafe, SafeFiles, Good, Accepts
  <2>2. CASE Handler(e)
    <3> SUFFICES ASSUME pc'[e] # "idle" PROVE Whole(e)'
      OBVIOUS
    <3>1. job'[e].prior = job[e].prior
      BY <2>2, GoesOnTyped
    <3>2. pc[e] # "idle" /\ ("restore" \in trouble => "restore" \in trouble')
      <4> USE DEF Notes, Settles, NoteLoaded, LateOver
      <4>1. CASE MergeActive(e) \/ OpenCandidate(e) \/ WriteCandidate(e) \/ Validate(e)
        BY <4>1, MergeActiveDoes, CandidateDoes
      <4>2. CASE OpenBackup(e) \/ WriteBackup(e) \/ RenameCandidate(e)
        BY <4>2, BackupDoes, RenameDoes
      <4>3. CASE StopCore(e) \/ StartCore(e) \/ StartAgain(e)
        BY <4>3, CoreDoes
      <4>4. CASE OpenActive(e) \/ OpenActiveFails(e) \/ WriteActive(e)
        BY <4>4, RestoreDoes
      <4>5. CASE WriteTmp(e) \/ RenameTmp(e)
        BY <4>5, SaveDoes
      <4> QED
        BY <2>2, <4>1, <4>2, <4>3, <4>4, <4>5 DEF Handler, Activation
    <3> QED
      BY <3>1, <3>2
  <2> QED
    BY <1>1, <2>1, <2>2 DEF Edits
<1>2. CASE Bystands
  BY <1>2 DEF Bystands
<1>3. CASE Ends
  BY <1>3, EndsMoves
<1> QED
  BY <1>1, <1>2, <1>3, StepCases

\* What a failed activation leaves.
LEMMA FailureStep ==
  ASSUME BaseInv, Phases, AllSafe, AllUndo, OneEditor, [ConfNext]_confVars,
         NEW e \in Editors, FailsActivation(e), job[e].prior # Nil
  PROVE  active' = job[e].prior \/ "restore" \in trouble'
<1> USE DEF FailsActivation, AllUndo, Undoes, Untouched
<1>1. CASE Edits(e)
  <2>1. CASE pc[e] \in {"write", "validate"}
    <3>1. UNCHANGED active
      BY <1>1, <2>1, EditGroups, BeginDoes, MergeActiveDoes, CandidateDoes, BackupDoes,
         RenameDoes, CoreDoes, RestoreDoes, SaveDoes
    <3> QED
      BY <2>1, <3>1
  <2>2. CASE pc[e] = "rename"
    <3>1. UNCHANGED active
      BY <1>1, <2>2, EditGroups, BeginDoes, MergeActiveDoes, CandidateDoes, BackupDoes,
         RenameDoes, CoreDoes, RestoreDoes, SaveDoes
    <3> QED
      BY <2>2, <3>1
  <2>3. CASE pc[e] = "starting" /\ cmd' = Nil
    <3>1. backup = Nil /\ trouble' = (trouble \ LateOver) \cup WithoutBackup
      BY <1>1, <2>3, EditGroups, BeginDoes, MergeActiveDoes, CandidateDoes, BackupDoes,
         RenameDoes, CoreDoes, RestoreDoes, SaveDoes
    <3> QED
      BY <2>3, <3>1 DEF WithoutBackup
  <2>4. CASE pc[e] = "again"
    <3>1. UNCHANGED active /\ NoteLoaded
      BY <1>1, <2>4, EditGroups, BeginDoes, MergeActiveDoes, CandidateDoes, BackupDoes,
         RenameDoes, CoreDoes, RestoreDoes, SaveDoes
    <3> QED
      BY <2>4, <3>1 DEF NoteLoaded, Settles, LateOver
  <2> QED
    BY <2>1, <2>2, <2>3, <2>4
<1>2. CASE Bystands
  BY <1>2 DEF Bystands
<1>3. CASE Ends
  BY <1>3, EndsMoves
<1> QED
  BY <1>1, <1>2, <1>3, StepCases DEF OneEditor

-------------------------------------------------------------------------------
(* The saved settings stay in force.                                       *)

\* x is made from an upload and the saved options, or from what was active and
\* what a patch will save.
Makes(opts, save, prior, x) ==
  IF save = Nil
    THEN \E content \in Uploads : x = [content EXCEPT !.opts = Merge(content.opts, opts)]
    ELSE x = [Found(prior) EXCEPT !.opts = Merge(Found(prior).opts, save)]

Made(e) ==
  /\ pc[e] \in {"open", "write"} =>
       Makes(SavedOptions, job[e].save, job[e].prior, job[e].new)
  /\ pc[e] \in {"validate", "backup", "copy", "rename"} =>
       Makes(SavedOptions, job[e].save, job[e].prior, candidate)
  /\ pc[e] \in {"stopping", "starting", "save", "publish"} =>
       Makes(SavedOptions, job[e].save, job[e].prior, active)
  /\ pc[e] # "idle" /\ job[e].save # Nil =>
       \E patch \in Options : job[e].save = Merge(SavedOptions, patch)
  /\ pc[e] = "publish" => tmp = job[e].save

AllMade == \A e \in Editors : Made(e)

LEMMA EditKeepsMade ==
  ASSUME BaseInv, Phases, AllUndo, AllMade, OneEditor, NEW e \in Editors, Edits(e)
  PROVE  AllMade'
<1> SUFFICES Made(e)'
  BY DEF OneEditor, AllMade
<1> USE DEF AllMade, Made
<1>a. pc[e] # "idle" => job[e] \in Job
  BY DEF BaseInv, Working, Busy
<1>b. UNCHANGED overrides => SavedOptions' = SavedOptions
  BY DEF SavedOptions
<1>1. CASE Upload(e) \/ Patch(e)
  BY <1>1, <1>b, BeginDoes DEF Makes, Prepare
<1>2. CASE MergeActive(e)
  <2>1. pc[e] = "merge" /\ UNCHANGED overrides
    BY <1>2, MergeActiveDoes
  <2>2. CASE pc'[e] = "idle"
    BY <2>2
  <2>3. CASE pc'[e] # "idle"
    <3>1. /\ pc'[e] = "open"
          /\ job'[e] = [job[e] EXCEPT !.new =
               [Found(active) EXCEPT !.opts = Merge(Found(active).opts, job[e].save)]]
      BY <1>2, <2>3, MergeActiveDoes
    <3>2. job'[e].new =
               [Found(active) EXCEPT !.opts = Merge(Found(active).opts, job[e].save)]
          /\ job'[e].save = job[e].save /\ job'[e].prior = job[e].prior
      BY <1>a, <2>1, <3>1 DEF Job
    <3>3. active = job[e].prior /\ job[e].save # Nil
      BY <2>1 DEF AllUndo, Undoes, Untouched, Phases, Phase
    <3>4. Makes(SavedOptions, job'[e].save, job'[e].prior, job'[e].new)
      BY <3>2, <3>3 DEF Makes
    <3> QED
      BY <1>b, <2>1, <3>1, <3>2, <3>4
  <2> QED
    BY <2>2, <2>3
<1>3. CASE OpenCandidate(e) \/ WriteCandidate(e) \/ Validate(e)
  BY <1>3, <1>b, CandidateDoes
<1>4. CASE OpenBackup(e) \/ WriteBackup(e)
  <2>1. LET j == [job[e] EXCEPT !.new = active]
        IN  j.prior = job[e].prior /\ j.save = job[e].save
    BY <1>4, <1>a, BackupDoes DEF Job
  <2>2. job'[e].prior = job[e].prior /\ job'[e].save = job[e].save
    BY <1>4, <2>1, BackupDoes
  <2>3. /\ pc[e] \in {"backup", "copy"} /\ pc'[e] \in {"copy", "rename"}
        /\ UNCHANGED <<candidate, overrides>>
    BY <1>4, BackupDoes
  <2> QED
    BY <1>b, <2>2, <2>3
<1>5. CASE RenameCandidate(e)
  BY <1>5, <1>b, RenameDoes
<1>6. CASE StopCore(e) \/ StartCore(e) \/ StartAgain(e)
  BY <1>6, <1>b, CoreDoes
<1>7. CASE OpenActive(e) \/ OpenActiveFails(e) \/ WriteActive(e)
  <2>1. LET j == [job[e] EXCEPT !.new = backup]
        IN  j.prior = job[e].prior /\ j.save = job[e].save
    BY <1>7, <1>a, RestoreDoes DEF Job
  <2>2. job'[e].prior = job[e].prior /\ job'[e].save = job[e].save
    BY <1>7, <2>1, RestoreDoes
  <2>3. /\ pc[e] \in {"restore", "restoring"} /\ pc'[e] \in {"restoring", "again"}
        /\ UNCHANGED overrides
    BY <1>7, RestoreDoes
  <2> QED
    BY <1>b, <2>2, <2>3
<1>8. CASE WriteTmp(e) \/ RenameTmp(e)
  BY <1>8, <1>b, SaveDoes
<1> QED
  BY <1>1, <1>2, <1>3, <1>4, <1>5, <1>6, <1>7, <1>8, EditGroups

LEMMA MadeStep ==
  ASSUME BaseInv, Phases, AllUndo, AllMade, OneEditor, [ConfNext]_confVars
  PROVE  AllMade'
<1> USE DEF AllMade, Made
<1>1. ASSUME NEW e \in Editors, Edits(e) PROVE AllMade'
  BY <1>1, EditKeepsMade
<1>2. CASE Bystands
  BY <1>2 DEF Bystands, SavedOptions
<1>3. CASE Ends
  BY <1>3, EndsMoves DEF Ends
<1> QED
  BY <1>1, <1>2, <1>3, StepCases

\* The configuration x has these settings.
Has(x, opts) == x \in Contents /\ Merge(x.opts, opts) = x.opts

LEMMA MergeHolds ==
  ASSUME NEW c \in Contents, NEW o \in Options
  PROVE  Has([c EXCEPT !.opts = Merge(c.opts, o)], o)
<1>1. c.opts \in Options
  BY DEF Contents
<1>2. Merge(c.opts, o) \in Options
  BY <1>1, MergeTyped
<1>3. Merge(Merge(c.opts, o), o) = Merge(c.opts, o)
  BY DEF Merge
<1> QED
  BY <1>2, <1>3, WithOpts DEF Has

LEMMA MakesHas ==
  ASSUME NEW o \in Options, NEW save \in Options \cup {Nil}, NEW prior,
         save # Nil => prior \in Configs, NEW x, Makes(o, save, prior, x)
  PROVE  Has(x, IF save = Nil THEN o ELSE save)
BY MergeHolds, FoundTyped DEF Makes

\* Settings are saved and nothing is owed to a failure.
InPlay == overrides # Nil /\ trouble \cap Settled = {}

Over(e) ==
  /\ pc[e] \in {"idle", "again"} \cup Untouched /\ InPlay => Has(active, overrides)
  /\ pc[e] \in {"stopping", "starting", "restore", "restoring"} /\ InPlay
       /\ job[e].prior # Nil => Has(job[e].prior, overrides)

AllOver == \A e \in Editors : Over(e)

LEMMA EditKeepsOver ==
  ASSUME BaseInv, Phases, AllSafe, AllUndo, AllMade, AllOver, OneEditor,
         NEW e \in Editors, Edits(e)
  PROVE  AllOver'
<1> SUFFICES Over(e)'
  BY DEF OneEditor, AllOver
<1> USE DEF AllOver, Over, Untouched, InPlay, Settled, Notes, Settles
<1>a. pc[e] # "idle" => job[e] \in Job
  BY DEF BaseInv, Working, Busy
<1>b. pc[e] \in {"starting", "publish"} =>
        Has(active, IF job[e].save = Nil THEN SavedOptions ELSE job[e].save)
  BY <1>a, SavedTyped, MakesHas
     DEF AllUndo, Undoes, AllMade, Made, BaseInv, ConfTypeOK, Job
<1>c. overrides # Nil => SavedOptions = overrides
  BY DEF SavedOptions
<1>1. CASE Upload(e) \/ Patch(e)
  BY <1>1, BeginDoes
<1>2. CASE MergeActive(e)
  BY <1>2, MergeActiveDoes
<1>3. CASE OpenCandidate(e) \/ WriteCandidate(e) \/ Validate(e)
  BY <1>3, CandidateDoes
<1>4. CASE OpenBackup(e) \/ WriteBackup(e)
  BY <1>4, BackupDoes
<1>5. CASE RenameCandidate(e)
  <2>1. pc[e] = "rename" => active = job[e].prior
    BY DEF AllUndo, Undoes
  <2> QED
    BY <1>5, <2>1, RenameDoes
<1>6. CASE StopCore(e) \/ StartCore(e) \/ StartAgain(e)
  <2>1. UNCHANGED <<active, files>>
    BY <1>6, CoreDoes
  <2>2. CASE pc[e] = "stopping"
    <3>1. pc'[e] \in {"stopping", "starting"} /\ UNCHANGED job /\ NoteLoaded
      BY <1>6, <2>2, CoreDoes
    <3> QED
      BY <2>1, <2>2, <3>1 DEF NoteLoaded, LateOver
  <2>3. CASE pc[e] = "again"
    <3>1. pc'[e] = "idle" /\ NoteLoaded
      BY <1>6, <2>3, CoreDoes
    <3> QED
      BY <2>1, <2>3, <3>1 DEF NoteLoaded, LateOver
  <2>4. CASE pc[e] = "starting" /\ pc'[e] # "idle"
    <3>1. pc'[e] \in {"save", "restore"} /\ UNCHANGED job /\ NoteLoaded
      BY <1>6, <2>4, CoreDoes
    <3> QED
      BY <2>1, <2>4, <3>1 DEF NoteLoaded, LateOver
  <2>5. CASE pc[e] = "starting" /\ pc'[e] = "idle"
    <3>1. \/ job[e].save = Nil
          \/ backup = Nil /\ trouble' = (trouble \ LateOver) \cup WithoutBackup
      BY <1>6, <2>5, CoreDoes
    <3>2. CASE job[e].save = Nil
      BY <1>b, <1>c, <2>1, <2>5, <3>2
    <3>3. CASE job[e].save # Nil
      <4>1. job[e].prior # Nil
        BY <2>5, <3>3 DEF AllUndo, Undoes
      <4>2. "backup" \in trouble
        BY <2>5, <3>1, <3>3, <4>1 DEF AllUndo, Undoes
      <4> QED
        BY <2>5, <3>1, <3>3, <4>2 DEF WithoutBackup
    <3> QED
      BY <3>2, <3>3
  <2> QED
    BY <1>6, <2>2, <2>3, <2>4, <2>5, CoreDoes
<1>7. CASE OpenActive(e) \/ OpenActiveFails(e) \/ WriteActive(e)
  <2>1. UNCHANGED files
    BY <1>7, RestoreDoes
  <2>2. CASE pc[e] = "restore" /\ pc'[e] = "restoring"
    <3>1. job'[e] = [job[e] EXCEPT !.new = backup]
          /\ Notes(IF cmd = Nil THEN {} ELSE {"late"})
      BY <1>7, <2>2, RestoreDoes
    <3>2. job'[e].prior = job[e].prior
      BY <1>a, <2>2, <3>1 DEF Job
    <3> QED
      BY <2>1, <2>2, <3>1, <3>2
  <2>3. CASE pc'[e] = "again"
    <3>1. \/ "restore" \in trouble'
          \/ /\ pc[e] = "restoring" /\ active' = job[e].new
             /\ trouble' = trouble \cup WithoutBackup
      BY <1>7, <2>3, RestoreDoes
    <3>2. pc[e] = "restoring" =>
            job[e].prior # Nil /\ (job[e].new = job[e].prior \/ "backup" \in trouble)
      BY DEF AllUndo, Undoes
    <3> QED
      BY <2>1, <2>3, <3>1, <3>2 DEF WithoutBackup
  <2> QED
    BY <1>7, <2>2, <2>3, RestoreDoes
<1>8. CASE WriteTmp(e) \/ RenameTmp(e)
  <2>1. CASE pc'[e] = "publish"
    BY <2>1
  <2>2. CASE pc'[e] = "idle" /\ "unsaved" \in trouble'
    BY <2>2
  <2>3. CASE pc[e] = "publish" /\ pc'[e] = "idle" /\ overrides' = tmp /\ UNCHANGED active
    BY <1>b, <2>3 DEF AllMade, Made, Phases, Phase
  <2> QED
    BY <1>8, <2>1, <2>2, <2>3, SaveDoes
<1> QED
  BY <1>1, <1>2, <1>3, <1>4, <1>5, <1>6, <1>7, <1>8, EditGroups

LEMMA OverStep ==
  ASSUME BaseInv, Phases, AllSafe, AllUndo, AllMade, AllOver, OneEditor,
         [ConfNext]_confVars
  PROVE  AllOver'
<1> USE DEF AllOver, Over, InPlay, Settled, Untouched
<1>1. ASSUME NEW e \in Editors, Edits(e) PROVE AllOver'
  BY <1>1, EditKeepsOver
<1>2. CASE Bystands
  BY <1>2 DEF Bystands
<1>3. CASE Ends
  <2> SUFFICES ASSUME NEW e \in Editors, InPlay' PROVE Has(active, overrides)'
    BY <1>3, EndsMoves
  <2>1. UNCHANGED <<active, overrides>> /\ InPlay /\ HalfDone \cap Settled = {}
    BY <1>3, EndsMoves DEF Ends
  <2>2. pc[e] # "idle" => job[e] \in Job
    BY DEF BaseInv, Working, Busy
  <2>3. CASE pc[e] \in {"idle", "again"} \cup Untouched
    BY <2>1, <2>3
  <2>4. CASE pc[e] \in {"stopping", "starting"} /\ job[e].save = Nil
    <3>1. Makes(SavedOptions, job[e].save, job[e].prior, active)
      BY <2>4 DEF AllMade, Made
    <3>2. overrides \in Options /\ SavedOptions = overrides
      BY <2>1 DEF BaseInv, ConfTypeOK, SavedOptions
    <3>3. Has(active, overrides)
      BY <2>4, <3>1, <3>2, MakesHas
    <3> QED
      BY <2>1, <3>3
  <2>5. CASE pc[e] \in {"restore", "restoring"}
    BY <2>1, <2>5 DEF HalfDone
  <2>6. CASE pc[e] \in {"stopping", "starting", "save", "publish"} /\ job[e].save # Nil
    BY <2>1, <2>6 DEF HalfDone, Busy
  <2>7. pc[e] \in ConfLabels \ (SupLabels \ {"idle"})
    BY DEF BaseInv, ConfTypeOK, Phases, Phase
  <2>8. pc[e] \in {"save", "publish"} => job[e].save # Nil
    BY DEF Phases, Phase
  <2> QED
    BY <2>3, <2>4, <2>5, <2>6, <2>7, <2>8 DEF ConfLabels
<1> QED
  BY <1>1, <1>2, <1>3, StepCases

-------------------------------------------------------------------------------
(* The theorems for one editor.                                            *)

OneInv ==
  /\ BaseInv /\ Phases /\ AllSafe /\ Fresh
  /\ AllUndo /\ AllWhole /\ AllMade /\ AllOver

LEMMA OneInit == ConfInit => OneInv
<1> SUFFICES ASSUME ConfInit PROVE OneInv
  OBVIOUS
<1> USE BaseInit DEF ConfInit, SupInit
<1>1. Phases
  BY DEF Phases, Phase, SupLabels
<1>2. AllSafe /\ Fresh /\ AllUndo /\ AllWhole
  BY DEF AllWhole, Whole, AllSafe, SafeFiles, Fresh, StaleCoreIsReplaced, AllUndo, Undoes, Untouched
<1>3. AllMade /\ AllOver
  BY DEF AllMade, Made, AllOver, Over, InPlay
<1> QED
  BY <1>1, <1>2, <1>3 DEF OneInv

LEMMA OneStep == ASSUME OneEditor PROVE OneInv /\ [ConfNext]_confVars => OneInv'
  BY BaseStep, PhaseStep, SafeStep, FreshStep, UndoStep, WholeStep,
     MadeStep, OverStep DEF OneInv

LEMMA OneHolds == ASSUME OneEditor PROVE ConfSpec => []OneInv
  BY OneInit, OneStep, PTL DEF ConfSpec

\* With one editor at a time, active.yaml is whole and accepted but while a
\* restore writes it, or after one that a failure cut short.
THEOREM ActiveStaysAccepted == ASSUME OneEditor PROVE ConfSpec => []ActiveIsAccepted
<1>1. OneInv => ActiveIsAccepted
  BY DEF OneInv, OneEditor, AllSafe, SafeFiles, Good, ActiveIsAccepted
<1> QED
  BY <1>1, OneHolds, PTL

\* What runs is what is active, but until the stop() that follows.
THEOREM NoStaleCore == ASSUME OneEditor PROVE ConfSpec => []StaleCoreIsReplaced
  BY OneHolds, PTL DEF OneInv, Fresh

\* Saved settings are in active.yaml whenever no request is at work, whatever
\* failed or crashed before and was made good since.
THEOREM SettingsStayInForce == ASSUME OneEditor PROVE ConfSpec => []OverridesInForce
<1>1. OneInv => OverridesInForce
  BY DEF OneInv, OneEditor, AllOver, Over, InPlay, Has, Busy, OverridesInForce
<1> QED
  BY <1>1, OneHolds, PTL

\* A failed activation leaves what was active before it.
THEOREM FailureUndone == ASSUME OneEditor PROVE ConfSpec => FailureKeepsPrior
<1>1. OneInv /\ [ConfNext]_confVars =>
        [\A e \in Editors :
           (FailsActivation(e) /\ job[e].prior # Nil)
             => active' = job[e].prior \/ "restore" \in trouble']_confVars
  BY FailureStep DEF OneInv
<1> QED
  BY <1>1, OneHolds, PTL DEF ConfSpec, FailureKeepsPrior

-------------------------------------------------------------------------------
(* One editor whose writes work implements ConfigService.                  *)

Reliable == ~DiskMayFail /\ ~MayCrash

\* Then nothing goes wrong but a start that comes late.
Calm == trouble \subseteq {"late"}

LEMMA CalmStep ==
  ASSUME BaseInv, Phases, AllMade, Calm, OneEditor, Reliable, [ConfNext]_confVars
  PROVE  Calm'
<1> USE DEF Calm, Notes, Settles, Reliable
<1>1. ASSUME NEW e \in Editors, Edits(e) PROVE Calm'
  <2>1. CASE OpenBackup(e) \/ WriteBackup(e)
    BY <2>1, BackupDoes
  <2>2. CASE StopCore(e) \/ StartCore(e) \/ StartAgain(e)
    BY <2>2, CoreDoes DEF NoteLoaded, WithoutBackup
  <2>3. CASE OpenActive(e) \/ OpenActiveFails(e) \/ WriteActive(e)
    BY <2>3, RestoreDoes DEF WithoutBackup
  <2>4. CASE WriteTmp(e) \/ RenameTmp(e)
    <3>1. pc[e] = "publish" => tmp # Nil
      BY DEF AllMade, Made, Phases, Phase
    <3> QED
      BY <2>4, <3>1, SaveDoes
  <2> QED
    BY <1>1, <2>1, <2>2, <2>3, <2>4, EditGroups, BeginDoes, MergeActiveDoes,
       CandidateDoes, RenameDoes
<1>2. CASE Bystands
  BY <1>2 DEF Bystands
<1>3. CASE Ends
  BY <1>3 DEF Ends, HalfDone, Busy
<1> QED
  BY <1>1, <1>2, <1>3, StepCases

LEMMA UnderIsMerge ==
  ASSUME NEW target, NEW patch
  PROVE  Promise!Under(target, patch) = Merge(target, patch)
BY DEF Promise!Under, Merge

\* What is in force, for the one editor, before a step and after it.
LEMMA InForceIs ==
  ASSUME NEW e \in Editors, Editors = {e}
  PROVE  /\ InForce = IF Undecided(e) THEN job[e].prior ELSE active
         /\ InForce' = IF Undecided(e)' THEN job'[e].prior ELSE active'
<1>1. ASSUME Undecided(e) PROVE (CHOOSE f \in Editors : Undecided(f)) = e
  BY <1>1
<1>2. ASSUME Undecided(e)' PROVE (CHOOSE f \in Editors : Undecided(f)') = e
  BY <1>2
<1>3. InForce = IF Undecided(e) THEN job[e].prior ELSE active
  BY <1>1 DEF InForce
<1>4. InForce' = IF Undecided(e)' THEN job'[e].prior ELSE active'
  BY <1>2 DEF InForce
<1> QED
  BY <1>3, <1>4

PromiseStep == [Promise!ConfigServiceNext]_(Promise!serviceVars)

\* A step that decides nothing is not seen.
LEMMA Unseen ==
  ASSUME InForce' = InForce, UNCHANGED overrides
  PROVE  PromiseStep
BY DEF PromiseStep, Promise!serviceVars, SavedOptions

LEMMA EditPromises ==
  ASSUME OneInv, Calm, OneEditor, Reliable, NEW e \in Editors, Edits(e)
  PROVE  PromiseStep
<1> USE DEF OneInv
<1>a. /\ InForce = IF Undecided(e) THEN job[e].prior ELSE active
      /\ InForce' = IF Undecided(e)' THEN job'[e].prior ELSE active'
  BY InForceIs DEF OneEditor
<1>b. pc[e] # "idle" => job[e] \in Job
  BY DEF BaseInv, Working, Busy
<1>c. "backup" \notin trouble /\ "restore" \notin trouble
  BY DEF Calm
<1>d. Handler(e) /\ pc'[e] # "idle" => job'[e].prior = job[e].prior
  BY GoesOnTyped
<1>1. CASE Upload(e) \/ Patch(e)
  BY <1>1, <1>a, BeginDoes, Unseen DEF Undecided
<1>2. CASE MergeActive(e)
  BY <1>2, <1>a, MergeActiveDoes, Unseen DEF Undecided
<1>3. CASE OpenCandidate(e) \/ WriteCandidate(e) \/ Validate(e)
  BY <1>3, <1>a, CandidateDoes, Unseen DEF Undecided
<1>4. CASE OpenBackup(e) \/ WriteBackup(e)
  BY <1>4, <1>a, BackupDoes, Unseen DEF Undecided
<1>5. CASE RenameCandidate(e)
  <2>1. pc[e] = "rename" => active = job[e].prior
    BY DEF AllUndo, Undoes, Untouched
  <2> QED
    BY <1>5, <1>a, <2>1, RenameDoes, Unseen DEF Undecided
<1>6. CASE StopCore(e) \/ StartCore(e) \/ StartAgain(e)
  <2>1. UNCHANGED <<active, overrides>>
    BY <1>6, CoreDoes
  <2>2. CASE pc'[e] # "idle"
    BY <1>6, <1>a, <2>1, <2>2, CoreDoes, Unseen DEF Undecided
  <2>3. CASE pc[e] = "again" /\ pc'[e] = "idle"
    <3>1. active = job[e].prior
      BY <1>c, <2>3 DEF AllUndo, Undoes
    <3> QED
      BY <1>a, <2>1, <2>3, <3>1, Unseen DEF Undecided
  <2>4. CASE pc[e] = "starting" /\ pc'[e] = "idle"
    <3>1. job[e].save = Nil \/ backup = Nil
      BY <1>6, <2>4, CoreDoes
    <3>2. job[e].save = Nil
      BY <1>c, <2>4, <3>1 DEF AllUndo, Undoes
    <3>3. PICK content \in Uploads :
            active = [content EXCEPT !.opts = Merge(content.opts, SavedOptions)]
      BY <2>4, <3>2 DEF AllMade, Made, Makes
    <3>4. InForce' = active /\ SavedOptions' = SavedOptions
      BY <1>a, <2>1, <2>4 DEF Undecided, SavedOptions
    <3>5. Promise!Activate
      BY <3>3, <3>4, UnderIsMerge DEF Promise!Activate
    <3> QED
      BY <3>5 DEF PromiseStep, Promise!ConfigServiceNext
  <2> QED
    BY <1>6, <2>2, <2>3, <2>4, CoreDoes
<1>7. CASE OpenActive(e) \/ OpenActiveFails(e) \/ WriteActive(e)
  <2>1. /\ UNCHANGED overrides
        /\ pc[e] \in {"restore", "restoring"} /\ pc'[e] \in {"restoring", "again"}
    BY <1>7, RestoreDoes
  <2>2. job'[e].prior = job[e].prior
    BY <1>7, <1>d, <2>1 DEF Handler, Activation
  <2> QED
    BY <1>a, <2>1, <2>2, Unseen DEF Undecided
<1>8. CASE WriteTmp(e) \/ RenameTmp(e)
  <2>1. pc[e] = "publish" => tmp # Nil /\ tmp = job[e].save
    BY DEF AllMade, Made, Phases, Phase
  <2>2. CASE pc[e] = "save"
    BY <1>8, <1>a, <2>2, SaveDoes, Unseen DEF Undecided, Reliable
  <2>3. CASE pc[e] = "publish"
    <3>1. /\ pc'[e] = "idle" /\ overrides' = job[e].save /\ UNCHANGED active
          /\ job[e].save # Nil
      BY <1>8, <2>1, <2>3, SaveDoes DEF Reliable
    <3>2. job[e].prior \in Contents
      BY <1>b, <1>c, <2>3, <3>1 DEF AllUndo, Undoes, AllWhole, Whole, Job
    <3>3. active = [job[e].prior EXCEPT !.opts = Merge(job[e].prior.opts, job[e].save)]
      BY <2>3, <3>1, <3>2, FoundTyped DEF AllMade, Made, Makes
    <3>4. PICK patch \in Options : job[e].save = Merge(SavedOptions, patch)
      BY <2>3, <3>1 DEF AllMade, Made
    <3>5. InForce = job[e].prior /\ InForce' = active /\ SavedOptions' = job[e].save
      BY <1>a, <2>3, <3>1 DEF Undecided, SavedOptions
    <3>6. Options = Promise!Settings /\ InForce # Nil
      BY <3>2, <3>5 DEF Options, Promise!Settings
    <3>7. Promise!PatchSettings
      BY <3>3, <3>4, <3>5, <3>6, UnderIsMerge DEF Promise!PatchSettings
    <3> QED
      BY <3>7 DEF PromiseStep, Promise!ConfigServiceNext
  <2> QED
    BY <1>8, <2>2, <2>3, SaveDoes
<1> QED
  BY <1>1, <1>2, <1>3, <1>4, <1>5, <1>6, <1>7, <1>8, EditGroups

LEMMA StepPromises ==
  ASSUME OneInv, Calm, OneEditor, Reliable, [ConfNext]_confVars
  PROVE  PromiseStep
<1>1. ASSUME NEW e \in Editors, Edits(e) PROVE PromiseStep
  BY <1>1, EditPromises
<1>2. PICK e \in Editors : Editors = {e}
  BY DEF OneEditor
<1>3. /\ InForce = IF Undecided(e) THEN job[e].prior ELSE active
      /\ InForce' = IF Undecided(e)' THEN job'[e].prior ELSE active'
  BY <1>2, InForceIs
<1>4. CASE Bystands
  BY <1>3, <1>4, Unseen DEF Bystands, Undecided
<1>5. CASE Ends
  <2>1. pc[e] = "idle" /\ pc'[e] = "idle" /\ UNCHANGED <<active, overrides>>
    BY <1>5, EndsMoves DEF Ends, Reliable, Busy, OneInv
  <2> QED
    BY <1>3, <2>1, Unseen DEF Undecided
<1> QED
  BY <1>1, <1>4, <1>5, StepCases DEF OneInv

\* One editor whose writes work and who is not cut off changes the configuration
\* in one step or not at all, whatever starts, exits and restarts come between.
THEOREM SwitchIsAtomic ==
  ASSUME OneEditor, Reliable PROVE ConfSpec => ImplementsConfigService
<1>1. ConfInit => Calm /\ Promise!ConfigServiceInit
  <2> SUFFICES ASSUME ConfInit PROVE Calm /\ Promise!ConfigServiceInit
    OBVIOUS
  <2>1. InForce = Nil
    BY InForceIs DEF OneEditor, ConfInit, SupInit, Undecided
  <2> QED
    BY <2>1 DEF ConfInit, Calm, Promise!ConfigServiceInit, SavedOptions, NoOptions
<1>2. OneInv /\ Calm /\ [ConfNext]_confVars => Calm' /\ PromiseStep
  BY CalmStep, StepPromises DEF OneInv
<1> QED
  BY <1>1, <1>2, OneHolds, PTL
     DEF ConfSpec, ImplementsConfigService, Promise!ConfigServiceSpec, PromiseStep

-------------------------------------------------------------------------------
(* To a reader of active.yaml it implements Activation.                    *)

TestedAt  == {"backup", "copy", "rename"}
RenamedAt == {"stopping", "starting", "restore"}

\* What a reader sees of the one editor, before a step and after it.
Seen(e) ==
  /\ EditUnderWay = CASE pc[e] \in TestedAt  -> Steps!Tested(candidate, job[e].prior)
                      [] pc[e] \in RenamedAt -> Steps!Renamed(job[e].prior)
                      [] OTHER               -> Steps!NoEdit
  /\ ActiveForReaders = IF pc[e] = "restoring" THEN job[e].new ELSE active

LEMMA SeenIs ==
  ASSUME NEW e \in Editors, Editors = {e}
  PROVE  Seen(e) /\ Seen(e)'
<1> USE DEF Seen, EditUnderWay, ActiveForReaders, TestedAt, RenamedAt,
      Steps!Tested, Steps!Renamed, Steps!NoEdit
<1>1. ASSUME NEW labels
      PROVE  /\ pc[e] \in labels => (CHOOSE f \in Editors : pc[f] \in labels) = e
             /\ pc'[e] \in labels => (CHOOSE f \in Editors : pc'[f] \in labels) = e
  OBVIOUS
<1>2. /\ pc[e] = "restoring" => (CHOOSE f \in Editors : pc[f] = "restoring") = e
      /\ pc'[e] = "restoring" => (CHOOSE f \in Editors : pc'[f] = "restoring") = e
  OBVIOUS
<1>3. Seen(e)
  BY <1>1, <1>2
<1>4. Seen(e)'
  BY <1>1, <1>2
<1> QED
  BY <1>3, <1>4

ActivationStep == [Steps!ActivationNext]_(Steps!activationVars)

\* A step that leaves both as they are is not seen.
LEMMA NotSeen ==
  ASSUME EditUnderWay' = EditUnderWay, ActiveForReaders' = ActiveForReaders
  PROVE  ActivationStep
BY DEF ActivationStep, Steps!activationVars

\* One that ends an activation, or that none is under way before or after.
LEMMA FinishSeen ==
  ASSUME EditUnderWay' = Steps!NoEdit, ActiveForReaders' = ActiveForReaders
  PROVE  ActivationStep
BY DEF ActivationStep, Steps!ActivationNext, Steps!Finish

LEMMA EditSeen ==
  ASSUME OneInv, Calm, OneEditor, Reliable, NEW e \in Editors, Edits(e)
  PROVE  ActivationStep
<1> USE DEF OneInv, TestedAt, RenamedAt
<1>a. Seen(e) /\ Seen(e)'
  BY SeenIs DEF OneEditor
<1>b. pc[e] # "idle" => job[e] \in Job
  BY DEF BaseInv, Working, Busy
<1>c. "backup" \notin trouble /\ "restore" \notin trouble
  BY DEF Calm
<1>d. Handler(e) /\ pc'[e] # "idle" => job'[e].prior = job[e].prior
  BY GoesOnTyped
<1>1. CASE Upload(e) \/ Patch(e) \/ MergeActive(e)
  BY <1>1, <1>a, BeginDoes, MergeActiveDoes, FinishSeen DEF Seen
<1>2. CASE OpenCandidate(e) \/ WriteCandidate(e) \/ Validate(e)
  <2>1. CASE pc'[e] # "backup"
    BY <1>2, <1>a, <2>1, CandidateDoes, FinishSeen DEF Seen
  <2>2. CASE pc'[e] = "backup"
    <3>1. /\ pc[e] = "validate" /\ candidate # Nil /\ Accepts(candidate)
          /\ UNCHANGED <<active, candidate, job>>
      BY <1>2, <2>2, CandidateDoes DEF Valid
    <3>2. active = job[e].prior
      BY <3>1 DEF AllUndo, Undoes, Untouched
    <3>3. candidate \in Contents
      BY <3>1, AcceptedIsContent DEF BaseInv, ConfTypeOK
    <3>4. EditUnderWay = Steps!NoEdit /\ ActiveForReaders' = ActiveForReaders
            /\ EditUnderWay' = Steps!Tested(candidate, ActiveForReaders)
      BY <1>a, <2>2, <3>1, <3>2 DEF Seen
    <3>5. Steps!Accept
      BY <3>1, <3>3, <3>4 DEF Steps!Accept
    <3> QED
      BY <3>5 DEF ActivationStep, Steps!ActivationNext
  <2> QED
    BY <2>1, <2>2
<1>3. CASE OpenBackup(e) \/ WriteBackup(e)
  <2>1. job'[e].prior = job[e].prior
    BY <1>3, <1>d, BackupDoes DEF Handler, Activation
  <2> QED
    BY <1>3, <1>a, <2>1, BackupDoes, NotSeen DEF Seen
<1>4. CASE RenameCandidate(e)
  <2>1. candidate # Nil
    BY <1>4, RenameDoes DEF AllSafe, SafeFiles, Good
  <2>2. pc[e] = "rename" /\ pc'[e] = "stopping" /\ active' = candidate /\ UNCHANGED job
    BY <1>4, <2>1, RenameDoes DEF Reliable
  <2>3. /\ EditUnderWay = Steps!Tested(candidate, job[e].prior)
        /\ EditUnderWay' = Steps!Renamed(job[e].prior)
        /\ ActiveForReaders' = candidate
    BY <1>a, <2>2 DEF Seen
  <2>4. Steps!Replace
    BY <2>3 DEF Steps!Replace, Steps!Tested
  <2> QED
    BY <2>4 DEF ActivationStep, Steps!ActivationNext
<1>5. CASE StopCore(e) \/ StartCore(e) \/ StartAgain(e)
  <2>1. UNCHANGED active /\ pc[e] # "restoring" /\ pc'[e] # "restoring"
    BY <1>5, CoreDoes
  <2>2. CASE pc'[e] \in RenamedAt
    BY <1>5, <1>a, <2>1, <2>2, CoreDoes, NotSeen DEF Seen
  <2>3. CASE pc'[e] \notin RenamedAt
    BY <1>5, <1>a, <2>1, <2>3, CoreDoes, FinishSeen DEF Seen
  <2> QED
    BY <2>2, <2>3
<1>6. CASE OpenActive(e) \/ OpenActiveFails(e) \/ WriteActive(e)
  <2>1. CASE pc[e] = "restore"
    <3>1. /\ pc'[e] = "restoring"
          /\ job'[e] = [job[e] EXCEPT !.new = backup]
      BY <1>6, <2>1, RestoreDoes DEF Reliable
    <3>2. job'[e].new = backup
      BY <1>b, <2>1, <3>1 DEF Job
    <3>3. backup # Nil /\ backup = job[e].prior
      BY <1>c, <2>1 DEF AllUndo, Undoes, AllSafe, SafeFiles
    <3>4. /\ EditUnderWay = Steps!Renamed(job[e].prior)
          /\ EditUnderWay' = Steps!NoEdit
          /\ ActiveForReaders' = job[e].prior
      BY <1>a, <2>1, <3>1, <3>2, <3>3 DEF Seen
    <3>5. Steps!Undo
      BY <3>3, <3>4 DEF Steps!Undo, Steps!Renamed
    <3> QED
      BY <3>5 DEF ActivationStep, Steps!ActivationNext
  <2>2. CASE pc[e] = "restoring"
    BY <1>6, <1>a, <2>2, RestoreDoes, FinishSeen DEF Seen, Reliable
  <2> QED
    BY <1>6, <2>1, <2>2, RestoreDoes
<1>7. CASE WriteTmp(e) \/ RenameTmp(e)
  <2>1. UNCHANGED active /\ pc[e] \in {"save", "publish"} /\ pc'[e] \in {"publish", "idle"}
    BY <1>7, SaveDoes
  <2> QED
    BY <1>a, <2>1, FinishSeen DEF Seen
<1> QED
  BY <1>1, <1>2, <1>3, <1>4, <1>5, <1>6, <1>7, EditGroups

LEMMA StepSeen ==
  ASSUME OneInv, Calm, OneEditor, Reliable, [ConfNext]_confVars
  PROVE  ActivationStep
<1> USE DEF TestedAt, RenamedAt
<1>1. ASSUME NEW e \in Editors, Edits(e) PROVE ActivationStep
  BY <1>1, EditSeen
<1>2. PICK e \in Editors : Editors = {e}
  BY DEF OneEditor
<1>3. Seen(e) /\ Seen(e)'
  BY <1>2, SeenIs
<1>4. CASE Bystands
  BY <1>3, <1>4, NotSeen DEF Bystands, Seen
<1>5. CASE Ends
  <2>1. pc[e] = "idle" /\ pc'[e] = "idle" /\ UNCHANGED active
    BY <1>5, EndsMoves DEF Ends, Reliable, Busy, OneInv
  <2> QED
    BY <1>3, <2>1, FinishSeen DEF Seen
<1> QED
  BY <1>1, <1>4, <1>5, StepCases DEF OneInv

\* Whoever reads active.yaml while one editor is at work sees a candidate the
\* core accepted take its place by a rename, and no other way back than to what
\* was active before: what Maintenance takes an activation for.
THEOREM SwitchActivates ==
  ASSUME OneEditor, Reliable PROVE ConfSpec => ImplementsActivation
<1>1. ConfInit => Calm /\ Steps!ActivationInit
  <2> SUFFICES ASSUME ConfInit PROVE Calm /\ Steps!ActivationInit
    OBVIOUS
  <2>1. PICK e \in Editors : Editors = {e}
    BY DEF OneEditor
  <2>2. Seen(e) /\ pc[e] = "idle" /\ active = Nil
    BY <2>1, SeenIs DEF ConfInit, SupInit
  <2> QED
    BY <2>2 DEF ConfInit, Calm, Seen, TestedAt, RenamedAt, Steps!ActivationInit
<1>2. OneInv /\ Calm /\ [ConfNext]_confVars => Calm' /\ ActivationStep
  BY CalmStep, StepSeen DEF OneInv
<1> QED
  BY <1>1, <1>2, OneHolds, PTL
     DEF ConfSpec, ImplementsActivation, Steps!ActivationSpec, ActivationStep
===============================================================================
