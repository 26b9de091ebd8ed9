-------------------------------- MODULE Settings --------------------------------
(***************************************************************************)
(* The settings page (ui/src/App.tsx: SettingsPage, settingsFromConfig),   *)
(* the status it is filled from (internal/app/server.go: status) and the   *)
(* handlers that change the configuration behind it                        *)
(* (internal/helper/helper.go: patchConfig, activate, updateCurrentConfig).*)
(*                                                                         *)
(* The page polls the status, which the server puts together from answers  *)
(* of the core and of the helper, each of which may fail.  When the        *)
(* configuration in an answer is another one than before, the form is      *)
(* filled again.  A save sends every field of the form, and what the seen  *)
(* configuration has beside them in the same maps.  A handler of the helper*)
(* merges that into the overrides and the active configuration, installs   *)
(* the result, which takes seconds, and then writes the overrides; no lock *)
(* keeps two handlers apart.  The two reads before the merge are one step, *)
(* and so is the installation, which works or changes nothing: ConfigSwitch*)
(* takes both apart.                                                       *)
(***************************************************************************)
EXTENDS ConfigMerge

CONSTANTS
  Plain, Groups,  \* settings that are leaves (mode, ports) and maps (tun, dns)
  Formed,         \* sub-keys the form has a field for
  Choices(_),     \* what a user can enter there
  Shown(_, _),    \* what a field shows of a value, its default if there is none
  Sent(_, _),     \* what a save makes of what a field shows
  Accepts(_),     \* whether the core can load a configuration
  Handlers,       \* goroutines of the helper that serve these requests
  Uploads,        \* configurations users upload or profiles hold
  Patches,        \* what clients other than the page send to PATCH /config
  CoreAnswers,    \* what the core may answer: if at all, and its settings
  Nil

ASSUME SettingsAssumption ==
  /\ SettingKeys = Plain \cup Groups
  /\ Plain \cap Groups = {}
  /\ Formed \subseteq SubKeys
  /\ \A f \in Plain \cup Formed :
       /\ Choices(f) \subseteq Leaves
       /\ \A v \in Values \cup {Unset} : Shown(f, v) \in Leaves
       /\ \A x \in Leaves : Sent(f, x) \in Leaves
  /\ Uploads \cup Patches \subseteq Maps
  /\ CoreAnswers \subseteq [online : BOOLEAN, report : Maps]
  /\ Nil \notin Maps \cup Handlers

Form == [plain : [Plain -> Leaves], group : [Groups -> [Formed -> Leaves]]]

\* A status answer; fresh (history) while the helper's part of it is what the
\* active configuration holds.
Status == [online : BOOLEAN, conf : Maps, report : Maps, fresh : BOOLEAN]

\* A PATCH of the page under way, and the handler at work on it or Nil; which
\* fields of the form it was made from showed something else than the
\* configuration (history), and whether that has not changed since (history).
Save == [by : Handlers \cup {Nil}, patch : Maps, plain : SUBSET Plain,
         group : SUBSET (Groups \X Formed), fresh : BOOLEAN]

\* What a handler has merged: the overrides to write (Nil for an upload, which
\* writes none) and the configuration to install.
Job == [at : {"merged", "installed"}, over : Maps \cup {Nil}, doc : Maps]

ASSUME NilIsNoRecord == Nil \notin Status \cup Save \cup Job

VARIABLES
  active,     \* active.yaml as a map, or Nil
  overrides,  \* overrides.yaml; an absent file is an empty map
  poll,       \* the answer to a status request, on its way to the page, or Nil
  seen,       \* the last status answered, or Nil
  form,       \* the fields
  save,       \* the PATCH under way, or Nil
  job,        \* what each handler is at work on, or Nil
  alone,      \* the handler at work that no other has been beside, or Nil (history)
  apart       \* handlers have been at work at once, or overrides were not
              \* written, and none has done its work alone since (history)

page         == <<poll, seen, form, save>>
history      == <<alone, apart>>
settingsVars == <<active, overrides, page, job, history>>

-------------------------------------------------------------------------------
(* The form.                                                               *)

\* What a map in the configuration has under a key.
Under(value, s) == IF value \in Flat THEN value[s] ELSE Unset

\* settingsFromConfig.
FromConfig(conf) ==
  [plain |-> [k \in Plain |-> Shown(k, conf[k])],
   group |-> [k \in Groups |-> [s \in Formed |-> Shown(s, Under(conf[k], s))]]]

\* The body of saveCore: every field, and {...config.tun}, {...config.dns}.
PatchOf(f, conf) ==
  [k \in Keys |->
     CASE k \in Plain  -> Sent(k, f.plain[k])
       [] k \in Groups -> [s \in SubKeys |-> IF s \in Formed THEN Sent(s, f.group[k][s])
                                            ELSE Under(conf[k], s)]
       [] OTHER        -> Unset]

SettingsInit ==
  /\ active = Nil
  /\ overrides = Empty
  /\ poll = Nil
  /\ seen = Nil
  /\ form = FromConfig(Empty)
  /\ save = Nil
  /\ job = [h \in Handlers |-> Nil]
  /\ alone = Nil
  /\ apart = FALSE

Edit ==
  /\ \/ \E k \in Plain : \E v \in Choices(k) :
          form' = [form EXCEPT !.plain[k] = v]
     \/ \E k \in Groups, s \in Formed : \E v \in Choices(s) :
          form' = [form EXCEPT !.group[k][s] = v]
  /\ UNCHANGED <<active, overrides, poll, seen, save, job, history>>

EditedPlain == {k \in Plain : form.plain[k] # FromConfig(seen.conf).plain[k]}
EditedGroup == {f \in Groups \X Formed :
                  form.group[f[1]][f[2]] # FromConfig(seen.conf).group[f[1]][f[2]]}

\* The button is disabled while a save is pending or the core is not online.
StartSave ==
  /\ save = Nil
  /\ seen # Nil /\ seen.online
  /\ save' = [by |-> Nil, patch |-> PatchOf(form, seen.conf), plain |-> EditedPlain,
              group |-> EditedGroup, fresh |-> seen.fresh]
  /\ UNCHANGED <<active, overrides, poll, seen, form, job, history>>

-------------------------------------------------------------------------------
(* The status.                                                             *)

\* Mutant of WithSettings: what the core reports wins.
ReportWins(conf) == MergeMaps(SettingsOf(active), conf)

WithSettings(conf) == MergeMaps(conf, SettingsOf(active))

\* GET /version and /configs of the core, then GET /v1/config/settings of the
\* helper; each may fail, and what the core answers depends on nothing here.  The
\* page polls every five seconds, one request at a time.
Poll ==
  /\ poll = Nil
  /\ \E core \in CoreAnswers, fresh \in BOOLEAN :
       /\ fresh => active # Nil
       /\ poll' = [online |-> core.online, report |-> core.report, fresh |-> fresh,
                   conf |-> IF fresh THEN WithSettings(core.report) ELSE core.report]
  /\ UNCHANGED <<active, overrides, seen, form, save, job, history>>

\* Mutant of Differs: every answer fills the form.
AnyAnswer(status) == TRUE

\* useEffect(..., [status?.config]), with the structural sharing of the query.
Differs(status) == seen = Nil \/ status.conf # seen.conf

Answered ==
  /\ poll # Nil
  /\ seen' = poll
  /\ form' = IF Differs(poll) THEN FromConfig(poll.conf) ELSE form
  /\ poll' = Nil
  /\ UNCHANGED <<active, overrides, save, job, history>>

\* A failed query keeps the last answer.
PollFails ==
  /\ poll # Nil
  /\ poll' = Nil
  /\ UNCHANGED <<active, overrides, seen, form, save, job, history>>

-------------------------------------------------------------------------------
(* The helper.                                                             *)

\* Mutant of Prepared: what is fixed in an upload is not fixed after a patch.
AsMerged(doc) == doc

\* prepareDocument; a path it refuses refuses the request.
Prepared(doc) == FixKeys(doc)

Busy(h) == job[h] # Nil

\* A handler has read the files and merged, and goes on with what it holds.
Takes(h, doc, over) ==
  /\ ~Busy(h)
  /\ ~LeavesRuntimeDir(doc)
  /\ job' = [job EXCEPT ![h] = [at |-> "merged", over |-> over, doc |-> Prepared(doc)]]
  /\ LET beside == \E g \in Handlers : Busy(g)
     IN  /\ alone' = IF beside THEN Nil ELSE h
         /\ apart' = (apart \/ beside)
  /\ UNCHANGED <<active, overrides, poll, seen, form>>

\* Mutant of MergePatch: what was saved before wins.
PatchLoses(h, patch) ==
  LET over == MergeMaps(patch, overrides)
  IN  active # Nil /\ Takes(h, MergeMaps(active, over), over)

\* patchConfig: the patch into the overrides, those into the configuration.
MergePatch(h, patch) ==
  LET over == MergeMaps(overrides, patch)
  IN  active # Nil /\ Takes(h, MergeMaps(active, over), over)

SaveArrives(h) ==
  /\ save # Nil /\ save.by = Nil
  /\ MergePatch(h, save.patch)
  /\ save' = [save EXCEPT !.by = h]

\* Another client of PATCH /config ...
OthersPatch(h) ==
  /\ \E patch \in Patches : MergePatch(h, patch)
  /\ UNCHANGED save

\* Mutant of Upload: the saved overrides are not merged.
UploadAsIs(h) ==
  /\ \E doc \in Uploads : Takes(h, doc, Nil)
  /\ UNCHANGED save

\* ... and of activations and uploads: prepare() merges the overrides in.
Upload(h) ==
  /\ \E doc \in Uploads : Takes(h, MergeMaps(doc, overrides), Nil)
  /\ UNCHANGED save

\* The handler works on the save the page waits for.
Serves(h) == save # Nil /\ save.by = h

Overtaken(x) == IF x = Nil THEN Nil ELSE [x EXCEPT !.fresh = FALSE]

\* activatePrepared has installed another content: what was read is stale.
Installs(h) ==
  /\ Busy(h) /\ job[h].at = "merged"
  /\ Accepts(job[h].doc)
  /\ active' = job[h].doc
  /\ IF active' = active
       THEN UNCHANGED <<poll, seen, save>>
       ELSE /\ poll' = Overtaken(poll)
            /\ seen' = Overtaken(seen)
            /\ save' = Overtaken(save)
  /\ UNCHANGED <<overrides, form>>

Done(h) == job' = [job EXCEPT ![h] = Nil] /\ alone' = Nil

\* Who has done its work alone leaves everything in order.
Settles(h) == apart' = (apart /\ alone # h)

\* activate and updateCurrentConfig end here; so does a first activation whose core
\* cannot be started, which answers an error and leaves the file (helper.go:159).
UploadInstalls(h) ==
  /\ Installs(h)
  /\ job[h].over = Nil
  /\ Done(h) /\ Settles(h)

PatchInstalls(h) ==
  /\ Installs(h)
  /\ job[h].over # Nil
  /\ job' = [job EXCEPT ![h].at = "installed"]
  /\ UNCHANGED history

\* The end of patchConfig, and the page's onSuccess: the query is invalidated, and
\* asked anew if it is under way.
WriteOverrides(h) ==
  /\ Busy(h) /\ job[h].at = "installed"
  /\ overrides' = job[h].over
  /\ Done(h) /\ Settles(h)
  /\ IF Serves(h) THEN save' = Nil /\ poll' = Nil ELSE UNCHANGED <<save, poll>>
  /\ UNCHANGED <<active, seen, form>>

\* The configuration is refused or its core cannot be started, the overrides
\* cannot be written, or the helper ends: the page shows an error.
JobFails(h) ==
  /\ Busy(h)
  /\ Done(h)
  /\ apart' = (apart \/ job[h].at = "installed")
  /\ save' = IF Serves(h) THEN Nil ELSE save
  /\ UNCHANGED <<active, overrides, poll, seen, form>>

\* The patch is refused, or its answer is lost while the handler goes on.
SaveFails ==
  /\ save # Nil
  /\ save' = Nil
  /\ UNCHANGED <<active, overrides, poll, seen, form, job, history>>

SettingsNext ==
  \/ Edit \/ StartSave \/ Poll \/ Answered \/ PollFails \/ SaveFails
  \/ \E h \in Handlers :
       \/ SaveArrives(h) \/ OthersPatch(h) \/ Upload(h)
       \/ UploadInstalls(h) \/ PatchInstalls(h) \/ WriteOverrides(h) \/ JobFails(h)

SettingsSpec == SettingsInit /\ [][SettingsNext]_settingsVars

-------------------------------------------------------------------------------
(* Properties.                                                             *)

\* Types of the files, of the answers and of the form.
SettingsTypeOK ==
  /\ active \in Maps \cup {Nil}
  /\ overrides \in Maps
  /\ poll \in Status \cup {Nil}
  /\ seen \in Status \cup {Nil}
  /\ form \in Form
  /\ save \in Save \cup {Nil}
  /\ job \in [Handlers -> Job \cup {Nil}]
  /\ alone \in Handlers \cup {Nil}
  /\ apart \in BOOLEAN

\* Whatever is merged in which order, by uploads and by patches: in the active
\* configuration the controller, the secret and the UI are the helper's, and
\* no provider path leaves the runtime directory.
ActiveIsPrepared ==
  active # Nil =>
    /\ \A k \in FixedKeys : active[k] = Fixed(k)
    /\ ~LeavesRuntimeDir(active)

\* What a value sets, the other one has.
InForce(value, other) ==
  \/ value = Unset
  \/ value \in Leaves /\ other = value
  \/ /\ value \in Flat /\ other \in Flat
     /\ \A s \in SubKeys : value[s] # Unset => other[s] = value[s]

\* What a value sets, the other one sets too, or has replaced altogether.
StillSet(value, other) ==
  \/ value = Unset
  \/ other \in Leaves
  \/ /\ other \in Flat
     /\ value \in Flat => \A s \in SubKeys : value[s] # Unset => other[s] # Unset

\* Saved settings stay in force over every later upload and patch, also where a
\* document or a patch has a map in the place of a leaf (README.md:132); but for
\* the moment between an installation and the write of its overrides, and unless
\* handlers were at work at once or overrides were not written and none has done
\* its work alone since.
OverridesApplied ==
  (active # Nil /\ ~apart /\ \A h \in Handlers : Busy(h) => job[h].at = "merged") =>
    \A k \in Keys \ FixedKeys : InForce(overrides[k], active[k])

\* A patch that no other request was beside drops nothing that was saved, whatever
\* was refused, failed or lost before; it may only give it another value.
SavedStaysSaved ==
  [][alone # Nil => \A k \in Keys : StillSet(overrides[k], overrides'[k])]_settingsVars

\* When a save is done the overrides show what it sent, whoever else was at work,
\* and if nobody was, so does the configuration in force.
SavedIsInForce ==
  [][\A h \in Handlers :
       (Serves(h) /\ WriteOverrides(h))
         => /\ FromConfig(overrides') = FromConfig(save.patch)
            /\ alone = h => FromConfig(active') = FromConfig(save.patch)]_settingsVars

\* What a save writes for a field the user has not touched.
SentBack(f, value) == Sent(f, Shown(f, value))

\* What the user has not touched: a value the form shows as it is stays, another
\* one becomes what the form shows of it (an empty bind-address becomes "*").
KeepsPlain(k) ==
  (active[k] \in Leaves /\ k \notin save.plain) => active'[k] = SentBack(k, active[k])

KeepsGroup(k, s) ==
  (Under(active[k], s) # Unset /\ <<k, s>> \notin save.group) =>
    /\ active'[k] \in Flat
    /\ active'[k][s] = IF s \in Formed THEN SentBack(s, active[k][s]) ELSE active[k][s]

\* A save sends every field, but of what is set it changes only what was edited
\* and what the form does not show as it is; if the status it was made from had
\* the helper's part and nobody has changed the configuration since.
SaveKeepsRest ==
  [][\A h \in Handlers :
       (Serves(h) /\ save.fresh /\ PatchInstalls(h))
         => /\ \A k \in Plain : KeepsPlain(k)
            /\ \A k \in Groups, s \in SubKeys : KeepsGroup(k, s)]_settingsVars

\* Polls do not take away what the user has entered while nothing changes: the
\* form is filled again only when the configuration has changed, the core
\* reports something else, or an answer lacked the helper's part (App.tsx:225).
EditSurvives ==
  [][(/\ poll # Nil /\ seen # Nil
      /\ poll' = Nil /\ seen' = poll
      /\ seen.fresh /\ poll.fresh /\ seen.report = poll.report)
       => form' = form]_settingsVars
===============================================================================
