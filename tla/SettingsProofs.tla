---------------------------- MODULE SettingsProofs ----------------------------
(***************************************************************************)
(* Settings for all configurations, patches, uploads and answers.          *)
(***************************************************************************)
EXTENDS Settings, TLAPS

USE MergeAssumption

-------------------------------------------------------------------------------
(* Merging.                                                                *)

\* The result of a merge is a configuration.
LEMMA MergeValueTyped ==
  ASSUME NEW t \in Values \cup {Unset}, NEW p \in Values \cup {Unset}
  PROVE  MergeValue(t, p) \in Values \cup {Unset}
BY DEF MergeValue, MergeFlat, Values, Flat

LEMMA MergeTyped ==
  ASSUME NEW t \in Maps, NEW p \in Maps
  PROVE  /\ MergeMaps(t, p) \in Maps
         /\ \A k \in Keys : MergeMaps(t, p)[k] = MergeValue(t[k], p[k])
BY MergeValueTyped DEF MergeMaps, Maps

LEMMA FixTyped ==
  ASSUME NEW d \in Maps
  PROVE  /\ FixKeys(d) \in Maps
         /\ \A k \in Keys : FixKeys(d)[k] = IF k \in FixedKeys THEN Fixed(k) ELSE d[k]
BY DEF FixKeys, Maps, Values

LEMMA SettingsTyped ==
  ASSUME NEW d \in Maps
  PROVE  /\ SettingsOf(d) \in Maps
         /\ \A k \in Keys : SettingsOf(d)[k] = IF k \in SettingKeys THEN d[k] ELSE Unset
BY DEF SettingsOf, Maps

LEMMA EmptyTyped == Empty \in Maps
BY DEF Empty, Maps

\* What is in a map.
LEMMA AtKey ==
  ASSUME NEW d \in Maps, NEW k \in Keys
  PROVE  d[k] \in Values \cup {Unset}
BY DEF Maps

\* What a patch sets is in the result.
LEMMA PatchWins ==
  ASSUME NEW t \in Values \cup {Unset}, NEW p \in Values \cup {Unset}
  PROVE  InForce(p, MergeValue(t, p))
<1>1. CASE p = Unset
  BY <1>1 DEF InForce
<1>2. CASE p \in Leaves
  BY <1>2 DEF InForce, MergeValue
<1>3. CASE p \in Flat /\ t \in Flat
  BY <1>3 DEF InForce, MergeValue, MergeFlat, Flat
<1>4. CASE p \in Flat /\ t \notin Flat
  BY <1>4 DEF InForce, MergeValue
<1> QED
  BY <1>1, <1>2, <1>3, <1>4 DEF Values

\* What was set stays set.
LEMMA TargetStays ==
  ASSUME NEW t \in Values \cup {Unset}, NEW p \in Values \cup {Unset}
  PROVE  StillSet(t, MergeValue(t, p))
<1>1. CASE p = Unset
  BY <1>1 DEF StillSet, MergeValue, Values
<1>2. CASE p \in Leaves
  BY <1>2 DEF StillSet, MergeValue
<1>3. CASE p \in Flat /\ t \in Flat
  BY <1>3 DEF StillSet, MergeValue, MergeFlat, Flat
<1>4. CASE p \in Flat /\ t \notin Flat
  BY <1>4 DEF StillSet, MergeValue
<1> QED
  BY <1>1, <1>2, <1>3, <1>4 DEF Values

LEMMA MergeWins ==
  ASSUME NEW t \in Maps, NEW p \in Maps, NEW k \in Keys
  PROVE  InForce(p[k], MergeMaps(t, p)[k]) /\ StillSet(t[k], MergeMaps(t, p)[k])
<1>1. t[k] \in Values \cup {Unset} /\ p[k] \in Values \cup {Unset}
  BY AtKey
<1>2. MergeMaps(t, p)[k] = MergeValue(t[k], p[k])
  BY MergeTyped
<1> QED
  BY <1>1, <1>2, PatchWins, TargetStays

\* What is in force in one value that is in force in another is in force there.
LEMMA InForceTransitive ==
  ASSUME NEW u \in Values \cup {Unset}, NEW v \in Values \cup {Unset},
         NEW w \in Values \cup {Unset}, InForce(u, v), InForce(v, w)
  PROVE  InForce(u, w)
BY DEF InForce, Values, Flat

-------------------------------------------------------------------------------
(* The form and the patch made from it.                                    *)

USE SettingsAssumption, NilIsNoRecord

LEMMA UnderTyped ==
  ASSUME NEW v \in Values \cup {Unset}, NEW s \in SubKeys
  PROVE  Under(v, s) \in Leaves \cup {Unset}
BY DEF Under, Flat

LEMMA FormTyped ==
  ASSUME NEW conf \in Maps
  PROVE  FromConfig(conf) \in Form
<1>1. ASSUME NEW k \in Plain PROVE Shown(k, conf[k]) \in Leaves
  BY <1>1, AtKey
<1>2. ASSUME NEW k \in Groups, NEW s \in Formed
      PROVE  Shown(s, Under(conf[k], s)) \in Leaves
  <2>1. Under(conf[k], s) \in Values \cup {Unset}
    BY AtKey, UnderTyped DEF Values
  <2> QED
    BY <2>1
<1> QED
  BY <1>1, <1>2 DEF FromConfig, Form

\* What a patch has under each setting.
LEMMA PatchTyped ==
  ASSUME NEW f \in Form, NEW conf \in Maps
  PROVE  /\ PatchOf(f, conf) \in Maps
         /\ \A k \in Plain : /\ PatchOf(f, conf)[k] = Sent(k, f.plain[k])
                             /\ PatchOf(f, conf)[k] \in Leaves
         /\ \A k \in Groups :
              /\ PatchOf(f, conf)[k] \in Flat
              /\ \A s \in Formed : /\ PatchOf(f, conf)[k][s] = Sent(s, f.group[k][s])
                                   /\ PatchOf(f, conf)[k][s] \in Leaves
              /\ \A s \in SubKeys \ Formed :
                   PatchOf(f, conf)[k][s] = Under(conf[k], s)
<1> DEFINE P == PatchOf(f, conf)
<1>1. ASSUME NEW k \in Plain PROVE P[k] = Sent(k, f.plain[k]) /\ P[k] \in Leaves
  BY <1>1 DEF PatchOf, Form
<1>2. ASSUME NEW k \in Groups
      PROVE  /\ P[k] \in Flat
             /\ \A s \in Formed : P[k][s] = Sent(s, f.group[k][s]) /\ P[k][s] \in Leaves
             /\ \A s \in SubKeys \ Formed : P[k][s] = Under(conf[k], s)
  <2>1. P[k] = [s \in SubKeys |-> IF s \in Formed THEN Sent(s, f.group[k][s])
                                                  ELSE Under(conf[k], s)]
    <3>1. k \in Keys /\ k \notin Plain
      OBVIOUS
    <3> QED
      BY <3>1 DEF PatchOf
  <2>2. \A s \in Formed : P[k][s] = Sent(s, f.group[k][s]) /\ P[k][s] \in Leaves
    BY <2>1 DEF Form
  <2>3. \A s \in SubKeys \ Formed :
          P[k][s] = Under(conf[k], s) /\ P[k][s] \in Leaves \cup {Unset}
    BY <2>1, AtKey, UnderTyped
  <2>4. \A s \in SubKeys : P[k][s] \in Leaves \cup {Unset}
    BY <2>2, <2>3
  <2> QED
    BY <2>1, <2>2, <2>3, <2>4 DEF Flat
<1>3. ASSUME NEW k \in Keys \ (Plain \cup Groups) PROVE P[k] = Unset
  BY <1>3 DEF PatchOf
<1>4. P = [k \in Keys |-> P[k]]
  BY DEF PatchOf
<1>5. \A k \in Keys : P[k] \in Values \cup {Unset}
  BY <1>1, <1>2, <1>3 DEF Values
<1>6. P \in Maps
  BY <1>4, <1>5 DEF Maps
<1> QED
  BY <1>1, <1>2, <1>6

-------------------------------------------------------------------------------
(* The invariant: the page.                                                *)

\* Every field of a patch under way has a value.
SaveFilled ==
  save # Nil =>
    /\ \A k \in Plain : save.patch[k] \in Leaves
    /\ \A k \in Groups : /\ save.patch[k] \in Flat
                         /\ \A s \in Formed : save.patch[k][s] \in Leaves

\* A fresh status is the report with the settings of the configuration in force.
FreshStatus(x) ==
  x.fresh => active # Nil /\ x.conf = MergeMaps(x.report, SettingsOf(active))

FreshAnswers ==
  /\ seen # Nil => FreshStatus(seen)
  /\ poll # Nil => FreshStatus(poll)

\* What a save sends for a sub-key the user has not touched.
Repeats(k, s) ==
  save.patch[k][s] = IF s \in Formed THEN SentBack(s, active[k][s]) ELSE active[k][s]

\* A patch made from a fresh status repeats what was not edited, as it was shown.
FreshSave ==
  (save # Nil /\ save.fresh) =>
    /\ active # Nil
    /\ \A k \in Plain : (active[k] \in Leaves /\ k \notin save.plain)
                          => save.patch[k] = SentBack(k, active[k])
    /\ \A k \in Groups, s \in SubKeys :
         (Under(active[k], s) # Unset /\ <<k, s>> \notin save.group) => Repeats(k, s)

PageInv ==
  /\ poll \in Status \cup {Nil} /\ seen \in Status \cup {Nil}
  /\ form \in Form /\ save \in Save \cup {Nil}
  /\ SaveFilled /\ FreshAnswers /\ FreshSave

-------------------------------------------------------------------------------
(* The invariant: the helper.                                              *)

\* What is merged and fixed in a configuration.
Ready(doc) ==
  /\ \A k \in FixedKeys : doc[k] = Fixed(k)
  /\ ~LeavesRuntimeDir(doc)

Within(over, doc) == \A k \in Keys \ FixedKeys : InForce(over[k], doc[k])

\* What a handler holds is ready, and of a patch the overrides are in it.
JobsReady ==
  \A h \in Handlers : Busy(h) =>
    /\ Ready(job[h].doc)
    /\ job[h].over # Nil => Within(job[h].over, job[h].doc)
    /\ job[h].at = "installed" => job[h].over # Nil

\* What a handler that is alone holds is not stale.
AloneHolds ==
  alone # Nil =>
    /\ Busy(alone) /\ \A g \in Handlers : Busy(g) => g = alone
    /\ job[alone].over = Nil => Within(overrides, job[alone].doc)
    /\ job[alone].over # Nil =>
         \A k \in Keys : StillSet(overrides[k], job[alone].over[k])
    /\ job[alone].at = "installed" => active = job[alone].doc

WorkInv ==
  /\ active \in Maps \cup {Nil} /\ overrides \in Maps
  /\ job \in [Handlers -> Job \cup {Nil}]
  /\ alone \in Handlers \cup {Nil} /\ apart \in BOOLEAN
  /\ ActiveIsPrepared /\ OverridesApplied
  /\ JobsReady /\ AloneHolds
  /\ ~apart => \A h \in Handlers : Busy(h) => alone = h

\* The handler at work on the save holds what the save sends.
Served ==
  \A h \in Handlers : Serves(h) =>
    /\ Busy(h) /\ job[h].over # Nil
    /\ \A k \in Keys : InForce(save.patch[k], job[h].over[k])

SettingsInv == PageInv /\ WorkInv /\ Served

LEMMA InvTypes == SettingsInv => SettingsTypeOK
BY DEF SettingsInv, PageInv, WorkInv, SettingsTypeOK

-------------------------------------------------------------------------------
(* What the page does.                                                     *)

\* What the form shows of a fresh status is what is in force.
LEMMA FreshShows ==
  ASSUME NEW a \in Maps, NEW r \in Maps
  PROVE  LET conf == MergeMaps(r, SettingsOf(a)) IN
         /\ \A k \in Plain :
              a[k] \in Leaves => FromConfig(conf).plain[k] = Shown(k, a[k])
         /\ \A k \in Groups, s \in SubKeys :
              Under(a[k], s) # Unset =>
                 /\ a[k] \in Flat /\ Under(conf[k], s) = a[k][s]
                 /\ s \in Formed => FromConfig(conf).group[k][s] = Shown(s, a[k][s])
<1> DEFINE conf == MergeMaps(r, SettingsOf(a))
<1>1. conf \in Maps /\ \A k \in SettingKeys : conf[k] = MergeValue(r[k], a[k])
  BY SettingsTyped, MergeTyped
<1>2. ASSUME NEW k \in Plain, a[k] \in Leaves
      PROVE  FromConfig(conf).plain[k] = Shown(k, a[k])
  <2>1. conf[k] = a[k]
    BY <1>1, <1>2 DEF MergeValue
  <2> QED
    BY <1>2, <2>1 DEF FromConfig
<1>3. ASSUME NEW k \in Groups, NEW s \in SubKeys, Under(a[k], s) # Unset
      PROVE  /\ a[k] \in Flat /\ Under(conf[k], s) = a[k][s]
             /\ s \in Formed => FromConfig(conf).group[k][s] = Shown(s, a[k][s])
  <2>1. r[k] \in Values \cup {Unset} /\ a[k] \in Values \cup {Unset}
    BY AtKey
  <2>2. InForce(a[k], conf[k])
    BY <1>1, <2>1, PatchWins
  <2>3. a[k] \in Flat /\ a[k][s] # Unset
    BY <1>3 DEF Under
  <2>4. conf[k] \in Flat /\ conf[k][s] = a[k][s]
    BY <2>2, <2>3 DEF InForce
  <2> QED
    BY <1>3, <2>3, <2>4 DEF FromConfig, Under
<1> QED
  BY <1>2, <1>3

\* The form is the user's.
LEMMA EditStep ==
  ASSUME form \in Form, Edit
  PROVE  form' \in Form
<1>1. ASSUME NEW k \in Plain, NEW v \in Choices(k),
             form' = [form EXCEPT !.plain[k] = v]
      PROVE  form' \in Form
  BY <1>1 DEF Form
<1>2. ASSUME NEW k \in Groups, NEW s \in Formed, NEW v \in Choices(s),
             form' = [form EXCEPT !.group[k][s] = v]
      PROVE  form' \in Form
  <2> DEFINE g == [form.group EXCEPT ![k][s] = v]
  <2>1. /\ form.group \in [Groups -> [Formed -> Leaves]]
        /\ form.plain \in [Plain -> Leaves]
        /\ v \in Leaves
    BY DEF Form
  <2>2. g \in [Groups -> [Formed -> Leaves]]
    BY <2>1
  <2>3. form' = [plain |-> form.plain, group |-> g]
    BY <1>2 DEF Form
  <2> QED
    BY <2>1, <2>2, <2>3 DEF Form
<1> QED
  BY <1>1, <1>2 DEF Edit

LEMMA SaveStep ==
  ASSUME SettingsInv, StartSave
  PROVE  save' \in Save /\ save'.by = Nil /\ SaveFilled' /\ FreshSave'
<1> DEFINE P == PatchOf(form, seen.conf)
<1>1. /\ seen \in Status /\ seen.conf \in Maps /\ form \in Form
      /\ active \in Maps \cup {Nil} /\ FreshAnswers
  BY DEF SettingsInv, PageInv, WorkInv, StartSave, Status
<1>2. save' = [by |-> Nil, patch |-> P, plain |-> EditedPlain,
               group |-> EditedGroup, fresh |-> seen.fresh]
  BY DEF StartSave
<1>3. /\ P \in Maps
      /\ \A k \in Plain : P[k] = Sent(k, form.plain[k]) /\ P[k] \in Leaves
      /\ \A k \in Groups :
           /\ P[k] \in Flat
           /\ \A s \in Formed : P[k][s] = Sent(s, form.group[k][s]) /\ P[k][s] \in Leaves
           /\ \A s \in SubKeys \ Formed : P[k][s] = Under(seen.conf[k], s)
  BY <1>1, PatchTyped
<1> HIDE DEF P
<1>4. save' \in Save /\ save'.by = Nil
  <2>1. EditedPlain \in SUBSET Plain /\ EditedGroup \in SUBSET (Groups \X Formed)
    BY DEF EditedPlain, EditedGroup
  <2>2. seen.fresh \in BOOLEAN
    BY <1>1 DEF Status
  <2> QED
    BY <1>2, <1>3, <2>1, <2>2 DEF Save
<1>5. SaveFilled'
  BY <1>2, <1>3 DEF SaveFilled
<1>6. FreshSave'
  <2> SUFFICES ASSUME seen.fresh
      PROVE  /\ active # Nil
             /\ \A k \in Plain : (active[k] \in Leaves /\ k \notin EditedPlain)
                                   => P[k] = SentBack(k, active[k])
             /\ \A k \in Groups, s \in SubKeys :
                  (Under(active[k], s) # Unset /\ <<k, s>> \notin EditedGroup) =>
                    P[k][s] = IF s \in Formed THEN SentBack(s, active[k][s])
                                              ELSE active[k][s]
    BY <1>2 DEF FreshSave, StartSave, Repeats
  <2>1. /\ active \in Maps /\ active # Nil /\ seen.report \in Maps
        /\ seen.conf = MergeMaps(seen.report, SettingsOf(active))
    BY <1>1 DEF FreshAnswers, FreshStatus, StartSave, Status
  <2>2. ASSUME NEW k \in Plain, active[k] \in Leaves, k \notin EditedPlain
        PROVE  P[k] = SentBack(k, active[k])
    BY <1>3, <2>1, <2>2, FreshShows DEF EditedPlain, SentBack
  <2>3. ASSUME NEW k \in Groups, NEW s \in SubKeys, Under(active[k], s) # Unset,
               <<k, s>> \notin EditedGroup
        PROVE  P[k][s] = IF s \in Formed THEN SentBack(s, active[k][s])
                                         ELSE active[k][s]
    <3>1. /\ Under(seen.conf[k], s) = active[k][s]
          /\ s \in Formed => FromConfig(seen.conf).group[k][s] = Shown(s, active[k][s])
      BY <2>1, <2>3, FreshShows
    <3>2. s \in Formed => form.group[k][s] = FromConfig(seen.conf).group[k][s]
      BY <2>3 DEF EditedGroup
    <3> QED
      BY <1>3, <3>1, <3>2 DEF SentBack
  <2> QED
    BY <2>1, <2>2, <2>3
<1> QED
  BY <1>4, <1>5, <1>6

\* What the core and the helper answer.
LEMMA PollStep ==
  ASSUME SettingsInv, Poll
  PROVE  poll' \in Status /\ FreshAnswers'
<1>1. PICK core \in CoreAnswers, fresh \in BOOLEAN :
        /\ fresh => active # Nil
        /\ poll' = [online |-> core.online, report |-> core.report, fresh |-> fresh,
                    conf |-> IF fresh THEN WithSettings(core.report) ELSE core.report]
  BY DEF Poll
<1>2. core.online \in BOOLEAN /\ core.report \in Maps
  OBVIOUS
<1>3. fresh => WithSettings(core.report) \in Maps
  BY <1>1, <1>2, SettingsTyped, MergeTyped DEF WithSettings, SettingsInv, WorkInv
<1>4. poll' \in Status
  BY <1>1, <1>2, <1>3 DEF Status
<1>5. UNCHANGED <<active, seen>>
  BY DEF Poll
<1> QED
  BY <1>1, <1>4, <1>5
     DEF SettingsInv, PageInv, FreshAnswers, FreshStatus, WithSettings

\* Steps that leave the helper alone.
Untouched == UNCHANGED <<active, overrides, job, history>>

LEMMA WorkUntouched == WorkInv /\ Untouched => WorkInv'
BY DEF WorkInv, Untouched, history, ActiveIsPrepared, OverridesApplied, JobsReady,
   AloneHolds, Busy, LeavesRuntimeDir, Ready, Within

\* Every step of the page.
LEMMA PageStep ==
  ASSUME SettingsInv, Edit \/ StartSave \/ Poll \/ Answered \/ PollFails \/ SaveFails
  PROVE  SettingsInv'
<1>1. Untouched
  BY DEF Untouched, Edit, StartSave, Poll, Answered, PollFails, SaveFails
<1>2. WorkInv'
  BY <1>1, WorkUntouched DEF SettingsInv
<1>3. PageInv /\ Served
  BY DEF SettingsInv
<1>4. UNCHANGED save \/ save' = Nil =>
        save' \in Save \cup {Nil} /\ SaveFilled' /\ FreshSave' /\ Served'
  BY <1>1, <1>3
     DEF Untouched, PageInv, SaveFilled, FreshSave, Served, Serves, Busy, Repeats
<1>5. UNCHANGED <<seen, poll>> =>
        /\ poll' \in Status \cup {Nil} /\ seen' \in Status \cup {Nil}
        /\ FreshAnswers'
  BY <1>1, <1>3 DEF Untouched, PageInv, FreshAnswers, FreshStatus
<1>6. CASE Edit
  BY <1>2, <1>3, <1>4, <1>5, <1>6, EditStep DEF Edit, SettingsInv, PageInv
<1>7. CASE StartSave
  <2>1. save' \in Save /\ save'.by = Nil /\ SaveFilled' /\ FreshSave'
    BY <1>7, SaveStep
  <2>2. Served'
    BY <2>1 DEF Served, Serves
  <2> QED
    BY <1>2, <1>3, <1>5, <1>7, <2>1, <2>2 DEF StartSave, SettingsInv, PageInv
<1>8. CASE Poll
  BY <1>2, <1>3, <1>4, <1>8, PollStep DEF Poll, SettingsInv, PageInv
<1>9. CASE Answered
  <2>1. /\ UNCHANGED save /\ poll' = Nil /\ poll # Nil /\ seen' = poll
        /\ form' \in {form, FromConfig(poll.conf)}
    BY <1>9 DEF Answered
  <2>2. seen' \in Status /\ poll.conf \in Maps
    BY <1>3, <2>1 DEF PageInv, Status
  <2>3. form' \in Form
    BY <1>3, <2>1, <2>2, FormTyped DEF PageInv
  <2>4. FreshAnswers'
    BY <1>1, <1>3, <2>1 DEF PageInv, FreshAnswers, FreshStatus, Untouched
  <2> QED
    BY <1>2, <1>4, <2>1, <2>2, <2>3, <2>4 DEF SettingsInv, PageInv
<1>10. CASE PollFails
  <2>1. UNCHANGED <<save, seen, form>> /\ poll' = Nil
    BY <1>10 DEF PollFails
  <2>2. FreshAnswers'
    BY <1>1, <1>3, <2>1 DEF PageInv, FreshAnswers, FreshStatus, Untouched
  <2> QED
    BY <1>2, <1>3, <1>4, <2>1, <2>2 DEF SettingsInv, PageInv
<1>11. CASE SaveFails
  BY <1>2, <1>3, <1>4, <1>5, <1>11 DEF SaveFails, SettingsInv, PageInv
<1> QED
  BY <1>6, <1>7, <1>8, <1>9, <1>10, <1>11

-------------------------------------------------------------------------------
(* What the helper does.                                                   *)

LEMMA InvInit == SettingsInit => SettingsInv
<1> SUFFICES ASSUME SettingsInit PROVE SettingsInv
  OBVIOUS
<1>1. form \in Form
  BY EmptyTyped, FormTyped DEF SettingsInit
<1>2. PageInv
  BY <1>1 DEF SettingsInit, PageInv, SaveFilled, FreshAnswers, FreshSave
<1>3. WorkInv
  BY EmptyTyped DEF SettingsInit, WorkInv, ActiveIsPrepared, OverridesApplied,
     JobsReady, AloneHolds, Busy
<1> QED
  BY <1>2, <1>3 DEF SettingsInit, SettingsInv, Served, Serves

\* The page does not see what a handler takes or ends before it is installed.
LEMMA PageUntouched ==
  ASSUME PageInv, UNCHANGED <<active, poll, seen, form>>,
         \/ save' \in {save, Nil}
         \/ save # Nil /\ \E h \in Handlers : save' = [save EXCEPT !.by = h]
  PROVE  PageInv'
<1>1. FreshAnswers'
  BY DEF PageInv, FreshAnswers, FreshStatus
<1>2. CASE save' \in {save, Nil}
  BY <1>1, <1>2 DEF PageInv, SaveFilled, FreshSave, Repeats
<1>3. ASSUME NEW h \in Handlers, save # Nil, save' = [save EXCEPT !.by = h]
      PROVE  PageInv'
  <2>1. save \in Save
    BY <1>3 DEF PageInv
  <2>2. /\ save' \in Save /\ save'.patch = save.patch /\ save'.plain = save.plain
        /\ save'.group = save.group /\ save'.fresh = save.fresh
    BY <1>3, <2>1 DEF Save
  <2> QED
    BY <1>1, <1>3, <2>2 DEF PageInv, SaveFilled, FreshSave, Repeats
<1> QED
  BY <1>2, <1>3

\* What is prepared is ready, and what was in it still is.
LEMMA PreparedReady ==
  ASSUME NEW doc \in Maps, ~LeavesRuntimeDir(doc)
  PROVE  /\ Prepared(doc) \in Maps /\ Ready(Prepared(doc))
         /\ \A k \in Keys \ FixedKeys : Prepared(doc)[k] = doc[k]
<1>1. \A k \in ProviderKeys : Prepared(doc)[k] = doc[k]
  BY FixTyped DEF Prepared
<1>2. ~LeavesRuntimeDir(Prepared(doc))
  BY <1>1 DEF LeavesRuntimeDir
<1> QED
  BY <1>2, FixTyped DEF Prepared, Ready

\* A handler takes what it has merged.
LEMMA TakesStep ==
  ASSUME SettingsInv, NEW h \in Handlers, NEW doc \in Maps, NEW over \in Maps \cup {Nil},
         Takes(h, doc, over),
         over = Nil => Within(overrides, doc),
         over # Nil => /\ Within(over, doc)
                       /\ \A k \in Keys : StillSet(overrides[k], over[k])
  PROVE  WorkInv'
<1> DEFINE new == [at |-> "merged", over |-> over, doc |-> Prepared(doc)]
           beside == \E g \in Handlers : Busy(g)
<1>1. /\ ~Busy(h) /\ UNCHANGED <<active, overrides>>
      /\ job' = [job EXCEPT ![h] = new]
      /\ alone' = (IF beside THEN Nil ELSE h) /\ apart' = (apart \/ beside)
  BY DEF Takes
<1>2. /\ Prepared(doc) \in Maps /\ Ready(Prepared(doc))
      /\ \A k \in Keys \ FixedKeys : Prepared(doc)[k] = doc[k]
  BY PreparedReady DEF Takes
<1>3. new \in Job /\ new # Nil
  BY <1>2 DEF Job
<1>4. WorkInv
  BY DEF SettingsInv
<1>5. /\ job' \in [Handlers -> Job \cup {Nil}]
      /\ job'[h] = new /\ \A g \in Handlers \ {h} : job'[g] = job[g]
  BY <1>1, <1>3, <1>4 DEF WorkInv
<1>6. /\ over # Nil => Within(over, Prepared(doc))
      /\ over = Nil => Within(overrides, Prepared(doc))
  BY <1>2 DEF Within
<1> HIDE DEF new
<1>7. new.at = "merged" /\ new.over = over /\ new.doc = Prepared(doc)
  BY DEF new
<1>8. ActiveIsPrepared'
  BY <1>1, <1>4 DEF WorkInv, ActiveIsPrepared, LeavesRuntimeDir
<1>9. OverridesApplied'
  <2>1. apart' \/ \A g \in Handlers : ~Busy(g)
    BY <1>1
  <2> QED
    BY <1>1, <1>4, <2>1 DEF WorkInv, OverridesApplied
<1>10. JobsReady'
  <2> SUFFICES ASSUME NEW g \in Handlers, Busy(g)'
      PROVE  /\ Ready(job'[g].doc)
             /\ job'[g].over # Nil => Within(job'[g].over, job'[g].doc)
             /\ job'[g].at = "installed" => job'[g].over # Nil
    BY DEF JobsReady, Ready, Within, LeavesRuntimeDir
  <2>1. CASE g = h
    BY <1>2, <1>5, <1>6, <1>7, <2>1
  <2>2. CASE g # h
    BY <1>4, <1>5, <2>2 DEF WorkInv, JobsReady, Busy
  <2> QED
    BY <2>1, <2>2
<1>11. AloneHolds'
  <2> SUFFICES ASSUME ~beside
      PROVE  AloneHolds'
    BY <1>1 DEF AloneHolds
  <2>1. alone' = h /\ Busy(h)' /\ \A g \in Handlers : Busy(g)' => g = h
    BY <1>1, <1>3, <1>5 DEF Busy
  <2> QED
    BY <1>1, <1>5, <1>6, <1>7, <2>1 DEF AloneHolds, Within
<1>12. ~apart' => \A g \in Handlers : Busy(g)' => alone' = g
  BY <1>1, <1>5 DEF Busy
<1> QED
  BY <1>1, <1>4, <1>5, <1>8, <1>9, <1>10, <1>11, <1>12 DEF WorkInv

\* What a patch merges: it is in the overrides, those are in the configuration,
\* and nothing that was saved is dropped.
LEMMA PatchMerges ==
  ASSUME active \in Maps, overrides \in Maps, NEW patch \in Maps
  PROVE  LET over == MergeMaps(overrides, patch)
             doc  == MergeMaps(active, over)
         IN  /\ over \in Maps /\ doc \in Maps
             /\ Within(over, doc)
             /\ \A k \in Keys : InForce(patch[k], over[k])
             /\ \A k \in Keys : StillSet(overrides[k], over[k])
<1> DEFINE over == MergeMaps(overrides, patch)
           doc  == MergeMaps(active, over)
<1>1. over \in Maps
  BY MergeTyped
<1>2. \A k \in Keys : InForce(patch[k], over[k]) /\ StillSet(overrides[k], over[k])
  BY MergeWins
<1> HIDE DEF over
<1>3. doc \in Maps
  BY <1>1, MergeTyped
<1>4. Within(over, doc)
  BY <1>1, MergeWins DEF Within
<1> QED
  BY <1>1, <1>2, <1>3, <1>4 DEF over

\* Steps that keep the jobs of the handlers the save is served by.
LEMMA ServedKept ==
  ASSUME SettingsInv, NEW h \in Handlers, UNCHANGED save,
         job'[h] = Nil \/ ~Busy(h), ~Serves(h) \/ ~Busy(h),
         \A g \in Handlers \ {h} : job'[g] = job[g]
  PROVE  Served'
BY DEF SettingsInv, Served, Serves, Busy

LEMMA TakingStep ==
  ASSUME SettingsInv, NEW h \in Handlers, SaveArrives(h) \/ OthersPatch(h) \/ Upload(h)
  PROVE  SettingsInv'
<1>1. /\ active \in Maps \cup {Nil} /\ overrides \in Maps /\ save \in Save \cup {Nil}
      /\ PageInv /\ Served /\ job \in [Handlers -> Job \cup {Nil}]
  BY DEF SettingsInv, WorkInv, PageInv
<1>2. ASSUME NEW patch \in Maps, MergePatch(h, patch)
      PROVE  /\ WorkInv' /\ Busy(h)' /\ job'[h].over # Nil
             /\ \A k \in Keys : InForce(patch[k], job'[h].over[k])
  <2> DEFINE over == MergeMaps(overrides, patch)
  <2>1. active \in Maps /\ Takes(h, MergeMaps(active, over), over)
    BY <1>1, <1>2 DEF MergePatch
  <2>2. /\ over \in Maps /\ MergeMaps(active, over) \in Maps
        /\ Within(over, MergeMaps(active, over))
        /\ \A k \in Keys : InForce(patch[k], over[k])
        /\ \A k \in Keys : StillSet(overrides[k], over[k])
    BY <1>1, <2>1, PatchMerges
  <2> HIDE DEF over
  <2>3. over # Nil
    BY <2>2
  <2>4. WorkInv'
    BY <2>1, <2>2, <2>3, TakesStep
  <2> DEFINE new == [at |-> "merged", over |-> over,
                     doc |-> Prepared(MergeMaps(active, over))]
  <2>5. job'[h] = new
    BY <1>1, <2>1 DEF Takes
  <2>6. new \in Job
    BY <2>1, <2>2, PreparedReady DEF Job, Takes
  <2>7. Busy(h)' /\ job'[h].over = over
    BY <2>5, <2>6 DEF Busy
  <2> QED
    BY <2>2, <2>3, <2>4, <2>7 DEF over
<1>3. \A doc, over : Takes(h, doc, over) =>
         /\ ~Busy(h) /\ UNCHANGED <<active, poll, seen, form>>
         /\ \A g \in Handlers \ {h} : job'[g] = job[g]
  BY <1>1 DEF Takes
<1>4. CASE SaveArrives(h)
  <2>1. /\ save # Nil /\ save \in Save /\ save.patch \in Maps
        /\ MergePatch(h, save.patch) /\ save' = [save EXCEPT !.by = h]
    BY <1>1, <1>4 DEF SaveArrives, Save
  <2>2. PageInv'
    BY <1>1, <1>3, <2>1, PageUntouched DEF MergePatch
  <2>3. save'.by = h /\ save'.patch = save.patch
    BY <2>1 DEF Save
  <2>4. Served'
    BY <1>2, <1>3, <2>1, <2>3 DEF Served, Serves, MergePatch
  <2> QED
    BY <1>2, <2>1, <2>2, <2>4 DEF SettingsInv
<1>5. CASE OthersPatch(h)
  <2>1. PICK patch \in Patches : MergePatch(h, patch)
    BY <1>5 DEF OthersPatch
  <2>2. UNCHANGED save
    BY <1>5 DEF OthersPatch
  <2>3. PageInv'
    BY <1>1, <1>3, <2>1, <2>2, PageUntouched DEF MergePatch
  <2>4. Served'
    BY <1>3, <2>1, <2>2, ServedKept DEF MergePatch
  <2> QED
    BY <1>2, <2>1, <2>3, <2>4 DEF SettingsInv
<1>6. CASE Upload(h)
  <2>1. PICK up \in Uploads : Takes(h, MergeMaps(up, overrides), Nil)
    BY <1>6 DEF Upload
  <2> DEFINE doc == MergeMaps(up, overrides)
  <2>2. doc \in Maps
    BY <1>1, MergeTyped
  <2>3. Within(overrides, doc)
    BY <1>1, MergeWins DEF Within
  <2>4. WorkInv'
    BY <2>1, <2>2, <2>3, TakesStep
  <2>5. UNCHANGED save
    BY <1>6 DEF Upload
  <2> QED
    BY <1>1, <1>3, <2>1, <2>4, <2>5, PageUntouched, ServedKept DEF SettingsInv
<1> QED
  BY <1>4, <1>5, <1>6

\* An installation leaves what was read before it stale.
LEMMA InstallPage ==
  ASSUME SettingsInv, NEW h \in Handlers, Installs(h)
  PROVE  /\ PageInv'
         /\ save' = Nil <=> save = Nil
         /\ save # Nil => save'.by = save.by /\ save'.patch = save.patch
<1>1. PageInv /\ UNCHANGED form
  BY DEF SettingsInv, Installs
<1>2. CASE active' = active
  <2>1. UNCHANGED <<active, poll, seen, form, save>>
    BY <1>1, <1>2 DEF Installs
  <2> QED
    BY <1>1, <2>1, PageUntouched
<1>3. CASE active' # active
  <2>1. poll' = Overtaken(poll) /\ seen' = Overtaken(seen) /\ save' = Overtaken(save)
    BY <1>3 DEF Installs
  <2>2. \A x \in Status : /\ Overtaken(x) \in Status
                          /\ ~Overtaken(x).fresh
    BY DEF Overtaken, Status
  <2>3. \A x \in Save : /\ Overtaken(x) \in Save /\ ~Overtaken(x).fresh
                        /\ Overtaken(x).by = x.by /\ Overtaken(x).patch = x.patch
    BY DEF Overtaken, Save
  <2>4. /\ poll' \in Status \cup {Nil} /\ seen' \in Status \cup {Nil}
        /\ poll' # Nil => ~poll'.fresh
        /\ seen' # Nil => ~seen'.fresh
    BY <1>1, <2>1, <2>2 DEF PageInv, Overtaken
  <2>5. /\ save' \in Save \cup {Nil}
        /\ save' = Nil <=> save = Nil
        /\ save # Nil => /\ ~save'.fresh /\ save'.by = save.by
                         /\ save'.patch = save.patch
    BY <1>1, <2>1, <2>3 DEF PageInv, Overtaken
  <2> QED
    BY <1>1, <2>4, <2>5 DEF PageInv, SaveFilled, FreshAnswers, FreshStatus, FreshSave
<1> QED
  BY <1>2, <1>3

\* What is installed is what was merged.
LEMMA InstallActive ==
  ASSUME SettingsInv, NEW h \in Handlers, Installs(h)
  PROVE  /\ job[h] \in Job /\ active' = job[h].doc /\ active' \in Maps
         /\ overrides' = overrides /\ ActiveIsPrepared'
<1>1. job[h] \in Job /\ Ready(job[h].doc)
  BY DEF SettingsInv, WorkInv, JobsReady, Installs, Busy
<1>2. active' = job[h].doc /\ overrides' = overrides
  BY DEF Installs
<1> QED
  BY <1>1, <1>2 DEF Job, ActiveIsPrepared, Ready, LeavesRuntimeDir

\* Who goes on, beside a handler that is done.
LEMMA OthersGoOn ==
  ASSUME WorkInv, NEW h \in Handlers, Done(h)
  PROVE  /\ job' \in [Handlers -> Job \cup {Nil}]
         /\ job'[h] = Nil /\ \A g \in Handlers \ {h} : job'[g] = job[g]
         /\ JobsReady' /\ AloneHolds'
<1>1. /\ job' \in [Handlers -> Job \cup {Nil}]
      /\ job'[h] = Nil /\ \A g \in Handlers \ {h} : job'[g] = job[g]
  BY DEF WorkInv, Done
<1>2. JobsReady'
  BY <1>1 DEF WorkInv, JobsReady, Busy, Ready, Within, LeavesRuntimeDir
<1>3. AloneHolds'
  BY DEF Done, AloneHolds
<1> QED
  BY <1>1, <1>2, <1>3

\* Unless handlers are apart the one that is done was the only one.
LEMMA LastOne ==
  ASSUME WorkInv, NEW h \in Handlers, Busy(h), Done(h), ~apart \/ alone = h
  PROVE  alone = h /\ \A g \in Handlers : ~Busy(g)'
<1>1. alone = h /\ \A g \in Handlers : Busy(g) => g = h
  BY DEF WorkInv, AloneHolds
<1> QED
  BY <1>1 DEF WorkInv, Done, Busy

LEMMA UploadInstallsStep ==
  ASSUME SettingsInv, NEW h \in Handlers, UploadInstalls(h)
  PROVE  SettingsInv'
<1>1. /\ Installs(h) /\ Busy(h) /\ job[h].over = Nil /\ Done(h) /\ Settles(h)
      /\ WorkInv /\ Served
  BY DEF UploadInstalls, Installs, SettingsInv
<1>2. /\ active' = job[h].doc /\ active' \in Maps
      /\ overrides' = overrides /\ ActiveIsPrepared'
  BY <1>1, InstallActive
<1>3. apart' \in BOOLEAN /\ alone' \in Handlers \cup {Nil}
  BY <1>1 DEF WorkInv, Settles, Done
<1>4. ~apart' => alone = h /\ \A g \in Handlers : ~Busy(g)'
  BY <1>1, LastOne DEF Settles
<1>5. OverridesApplied'
  <2>1. ~apart' => Within(overrides, job[h].doc)
    BY <1>1, <1>4 DEF WorkInv, AloneHolds
  <2> QED
    BY <1>2, <2>1 DEF OverridesApplied, Within
<1>6. WorkInv'
  BY <1>1, <1>2, <1>3, <1>4, <1>5, OthersGoOn DEF WorkInv
<1>7. Served'
  BY <1>1, InstallPage, OthersGoOn DEF Served, Serves, Busy
<1> QED
  BY <1>1, <1>6, <1>7, InstallPage DEF SettingsInv

LEMMA PatchInstallsStep ==
  ASSUME SettingsInv, NEW h \in Handlers, PatchInstalls(h)
  PROVE  SettingsInv'
<1>1. /\ Installs(h) /\ Busy(h) /\ job[h].over # Nil /\ UNCHANGED <<alone, apart>>
      /\ job' = [job EXCEPT ![h].at = "installed"]
      /\ WorkInv /\ Served
  BY DEF PatchInstalls, Installs, SettingsInv, history
<1>2. /\ job[h] \in Job /\ active' = job[h].doc /\ active' \in Maps
      /\ overrides' = overrides /\ ActiveIsPrepared'
  BY <1>1, InstallActive
<1> DEFINE new == [job[h] EXCEPT !.at = "installed"]
<1>3. /\ new \in Job /\ new # Nil /\ new.at = "installed"
      /\ new.over = job[h].over /\ new.doc = job[h].doc
  BY <1>2 DEF Job
<1>4. /\ job' \in [Handlers -> Job \cup {Nil}]
      /\ job'[h] = new /\ \A g \in Handlers \ {h} : job'[g] = job[g]
  BY <1>1, <1>3 DEF WorkInv
<1> HIDE DEF new
<1>5. \A g \in Handlers : Busy(g)' <=> Busy(g)
  BY <1>1, <1>3, <1>4 DEF Busy
<1>6. OverridesApplied'
  BY <1>3, <1>4 DEF OverridesApplied, Busy
<1>7. JobsReady'
  <2> SUFFICES ASSUME NEW g \in Handlers, Busy(g)
      PROVE  /\ Ready(job'[g].doc)
             /\ job'[g].over # Nil => Within(job'[g].over, job'[g].doc)
             /\ job'[g].at = "installed" => job'[g].over # Nil
    BY <1>5 DEF JobsReady, Ready, Within, LeavesRuntimeDir
  <2> QED
    BY <1>1, <1>3, <1>4 DEF WorkInv, JobsReady
<1>8. AloneHolds'
  <2> SUFFICES ASSUME alone # Nil PROVE AloneHolds'
    BY <1>1 DEF AloneHolds
  <2>1. alone = h
    BY <1>1 DEF WorkInv, AloneHolds
  <2> QED
    BY <1>1, <1>2, <1>3, <1>4, <1>5, <2>1 DEF WorkInv, AloneHolds, Within
<1>9. WorkInv'
  BY <1>1, <1>2, <1>4, <1>5, <1>6, <1>7, <1>8 DEF WorkInv
<1>10. Served'
  <2>1. /\ save' = Nil <=> save = Nil
        /\ save # Nil => save'.by = save.by /\ save'.patch = save.patch
    BY <1>1, InstallPage
  <2>2. \A g \in Handlers : Serves(g)' <=> Serves(g)
    BY <2>1 DEF Serves
  <2>3. \A g \in Handlers : Busy(g) => job'[g].over = job[g].over
    BY <1>3, <1>4
  <2> QED
    BY <1>1, <1>5, <2>1, <2>2, <2>3 DEF Served, Serves
<1> QED
  BY <1>1, <1>9, <1>10, InstallPage DEF SettingsInv

LEMMA WriteStep ==
  ASSUME SettingsInv, NEW h \in Handlers, WriteOverrides(h)
  PROVE  SettingsInv'
<1>1. /\ Busy(h) /\ job[h].at = "installed" /\ Done(h) /\ Settles(h)
      /\ overrides' = job[h].over /\ UNCHANGED <<active, seen, form>>
      /\ WorkInv /\ PageInv /\ Served
  BY DEF WriteOverrides, SettingsInv
<1>2. /\ overrides' \in Maps /\ Within(job[h].over, job[h].doc)
  BY <1>1 DEF WorkInv, JobsReady, Busy, Job
<1>3. apart' \in BOOLEAN /\ alone' \in Handlers \cup {Nil}
  BY <1>1 DEF WorkInv, Settles, Done
<1>4. ~apart' => alone = h /\ \A g \in Handlers : ~Busy(g)'
  BY <1>1, LastOne DEF Settles
<1>5. OverridesApplied'
  <2>1. ~apart' => active = job[h].doc
    BY <1>1, <1>4 DEF WorkInv, AloneHolds
  <2> QED
    BY <1>1, <1>2, <2>1 DEF OverridesApplied, Within
<1>6. ActiveIsPrepared'
  BY <1>1 DEF WorkInv, ActiveIsPrepared, LeavesRuntimeDir
<1>7. WorkInv'
  BY <1>1, <1>2, <1>3, <1>4, <1>5, <1>6, OthersGoOn DEF WorkInv
<1>8. CASE Serves(h)
  <2>1. save' = Nil /\ poll' = Nil
    BY <1>8 DEF WriteOverrides
  <2>2. PageInv'
    BY <1>1, <2>1 DEF PageInv, SaveFilled, FreshSave, FreshAnswers, FreshStatus
  <2> QED
    BY <1>7, <2>1, <2>2 DEF SettingsInv, Served, Serves
<1>9. CASE ~Serves(h)
  <2>1. UNCHANGED <<save, poll>>
    BY <1>9 DEF WriteOverrides
  <2> QED
    BY <1>1, <1>7, <1>9, <2>1, PageUntouched, OthersGoOn, ServedKept DEF SettingsInv
<1> QED
  BY <1>8, <1>9

LEMMA FailStep ==
  ASSUME SettingsInv, NEW h \in Handlers, JobFails(h)
  PROVE  SettingsInv'
<1>1. /\ Busy(h) /\ Done(h) /\ apart' = (apart \/ job[h].at = "installed")
      /\ UNCHANGED <<active, overrides, poll, seen, form>>
      /\ save' = (IF Serves(h) THEN Nil ELSE save)
      /\ WorkInv /\ PageInv /\ Served
  BY DEF JobFails, SettingsInv
<1>2. apart' \in BOOLEAN /\ alone' \in Handlers \cup {Nil}
  BY <1>1 DEF WorkInv, Done
<1>3. ~apart' => /\ alone = h /\ job[h].at = "merged"
                 /\ \A g \in Handlers : ~Busy(g)'
  <2> SUFFICES ASSUME ~apart' PROVE ~apart /\ job[h].at = "merged"
    BY <1>1, LastOne
  <2>1. job[h] \in Job
    BY <1>1 DEF WorkInv, Busy
  <2> QED
    BY <1>1, <2>1 DEF Job
<1>4. OverridesApplied'
  <2>1. ~apart' => ~apart /\ \A g \in Handlers : Busy(g) => job[g].at = "merged"
    BY <1>1, <1>3 DEF WorkInv
  <2> QED
    BY <1>1, <2>1 DEF WorkInv, OverridesApplied
<1>5. ActiveIsPrepared'
  BY <1>1 DEF WorkInv, ActiveIsPrepared, LeavesRuntimeDir
<1>6. WorkInv'
  BY <1>1, <1>2, <1>3, <1>4, <1>5, OthersGoOn DEF WorkInv
<1>7. PageInv'
  BY <1>1, PageUntouched
<1>8. Served'
  BY <1>1, OthersGoOn DEF Served, Serves, Busy
<1> QED
  BY <1>6, <1>7, <1>8 DEF SettingsInv

-------------------------------------------------------------------------------
(* Every step.                                                             *)

LEMMA InvStep ==
  ASSUME SettingsInv, [SettingsNext]_settingsVars
  PROVE  SettingsInv'
<1>1. CASE UNCHANGED settingsVars
  <2>1. Untouched /\ UNCHANGED <<poll, seen, form, save>>
    BY <1>1 DEF settingsVars, page, history, Untouched
  <2>2. PageInv' /\ WorkInv'
    BY <2>1, PageUntouched, WorkUntouched DEF SettingsInv, Untouched
  <2>3. Served'
    BY <2>1 DEF SettingsInv, Served, Serves, Busy, Untouched
  <2> QED
    BY <2>2, <2>3 DEF SettingsInv
<1>2. ASSUME NEW h \in Handlers, SaveArrives(h) \/ OthersPatch(h) \/ Upload(h)
      PROVE  SettingsInv'
  BY <1>2, TakingStep
<1>3. ASSUME NEW h \in Handlers,
             \/ UploadInstalls(h) \/ PatchInstalls(h) \/ WriteOverrides(h) \/ JobFails(h)
      PROVE  SettingsInv'
  BY <1>3, UploadInstallsStep, PatchInstallsStep, WriteStep, FailStep
<1> QED
  BY <1>1, <1>2, <1>3, PageStep DEF SettingsNext

THEOREM SettingsInvariant == SettingsSpec => []SettingsInv
BY InvInit, InvStep, PTL DEF SettingsSpec

\* The types of the files, the answers, the form, the save and the jobs
\* (SettingsTypeOK).
THEOREM SettingsWellTyped == SettingsSpec => []SettingsTypeOK
BY SettingsInvariant, InvTypes, PTL

\* For any documents and patches, by any number of handlers at once: what
\* prepareDocument fixes is fixed in active.yaml, and no provider path leaves the
\* runtime directory.
THEOREM AlwaysPrepared == SettingsSpec => []ActiveIsPrepared
<1>1. SettingsInv => ActiveIsPrepared
  BY DEF SettingsInv, WorkInv
<1> QED
  BY <1>1, SettingsInvariant, PTL

\* Saved overrides are in force in the active configuration, unless handlers were
\* at work at once or overrides were not written and none has worked alone since.
THEOREM AlwaysApplied == SettingsSpec => []OverridesApplied
<1>1. SettingsInv => OverridesApplied
  BY DEF SettingsInv, WorkInv
<1> QED
  BY <1>1, SettingsInvariant, PTL

-------------------------------------------------------------------------------
(* What steps do.                                                          *)

\* Only a handler that is done writes the overrides.
LEMMA OverridesStep ==
  ASSUME [SettingsNext]_settingsVars
  PROVE  overrides' = overrides \/ \E h \in Handlers : WriteOverrides(h)
BY DEF SettingsNext, Edit, StartSave, Poll, Answered, PollFails, SaveFails, SaveArrives,
   OthersPatch, Upload, MergePatch, Takes, UploadInstalls, PatchInstalls, Installs,
   JobFails, settingsVars

\* A patch that is alone keeps what was saved, or gives it another value.
THEOREM NothingSavedIsLost == SettingsSpec => SavedStaysSaved
<1>1. ASSUME SettingsInv, [SettingsNext]_settingsVars, alone # Nil
      PROVE  \A k \in Keys : StillSet(overrides[k], overrides'[k])
  <2>t. overrides \in Maps /\ JobsReady /\ AloneHolds
    BY <1>1 DEF SettingsInv, WorkInv
  <2>1. CASE overrides' = overrides
    BY <2>1, <2>t, AtKey DEF StillSet, Values
  <2>2. ASSUME NEW h \in Handlers, WriteOverrides(h)
        PROVE  \A k \in Keys : StillSet(overrides[k], overrides'[k])
    <3>1. Busy(h) /\ job[h].at = "installed" /\ overrides' = job[h].over
      BY <2>2 DEF WriteOverrides
    <3> QED
      BY <1>1, <2>t, <3>1 DEF AloneHolds, JobsReady
  <2> QED
    BY <1>1, <2>1, <2>2, OverridesStep
<1> QED
  BY <1>1, SettingsInvariant, PTL DEF SettingsSpec, SavedStaysSaved

\* Where every field of a patch is in force the form shows the patch.
LEMMA ShowsPatch ==
  ASSUME SaveFilled, save # Nil, NEW conf,
         \A k \in SettingKeys : InForce(save.patch[k], conf[k])
  PROVE  FromConfig(conf) = FromConfig(save.patch)
<1>1. ASSUME NEW k \in Plain PROVE conf[k] = save.patch[k]
  BY DEF SaveFilled, InForce
<1>2. ASSUME NEW k \in Groups, NEW s \in Formed
      PROVE  Under(conf[k], s) = Under(save.patch[k], s)
  BY DEF SaveFilled, InForce, Under
<1>3. FromConfig(conf).plain = FromConfig(save.patch).plain
  BY <1>1 DEF FromConfig
<1>4. FromConfig(conf).group = FromConfig(save.patch).group
  BY <1>2 DEF FromConfig
<1> QED
  BY <1>3, <1>4 DEF FromConfig

\* What a save shows when it is done is what was in the form.
THEOREM SavesTakeForce == SettingsSpec => SavedIsInForce
<1>1. ASSUME SettingsInv, NEW h \in Handlers, Serves(h), WriteOverrides(h)
      PROVE  /\ FromConfig(overrides') = FromConfig(save.patch)
             /\ alone = h => FromConfig(active') = FromConfig(save.patch)
  <2>1. /\ Busy(h) /\ job[h].at = "installed" /\ overrides' = job[h].over
        /\ active' = active
    BY <1>1 DEF WriteOverrides
  <2>2. /\ SaveFilled /\ save \in Save /\ save # Nil /\ job[h] \in Job /\ job[h].over # Nil
        /\ \A k \in Keys : InForce(save.patch[k], job[h].over[k])
        /\ Within(job[h].over, job[h].doc)
    BY <1>1, <2>1 DEF SettingsInv, PageInv, WorkInv, Served, Serves, JobsReady, Busy
  <2>3. FromConfig(overrides') = FromConfig(save.patch)
    BY <2>1, <2>2, ShowsPatch
  <2>4. ASSUME alone = h PROVE FromConfig(active') = FromConfig(save.patch)
    <3>1. active' = job[h].doc
      BY <1>1, <2>1, <2>4 DEF SettingsInv, WorkInv, AloneHolds
    <3>2. \A k \in SettingKeys : InForce(save.patch[k], job[h].doc[k])
      <4>1. /\ save.patch \in Maps /\ job[h].over \in Maps /\ job[h].doc \in Maps
        BY <2>2 DEF Save, Job
      <4> QED
        BY <2>2, <4>1, AtKey, InForceTransitive DEF Within
    <3> QED
      BY <2>2, <3>1, <3>2, ShowsPatch
  <2> QED
    BY <2>3, <2>4
<1>2. SettingsInv => \A h \in Handlers : (Serves(h) /\ WriteOverrides(h)) =>
             /\ FromConfig(overrides') = FromConfig(save.patch)
             /\ alone = h => FromConfig(active') = FromConfig(save.patch)
  BY <1>1
<1> QED
  BY <1>2, SettingsInvariant, PTL DEF SettingsSpec, SavedIsInForce

\* A save made from a fresh status changes only what was edited, and what the form
\* does not show as it is.
THEOREM SavesKeepTheRest == SettingsSpec => SaveKeepsRest
<1>1. ASSUME SettingsInv, NEW h \in Handlers, Serves(h), save.fresh, PatchInstalls(h)
      PROVE  /\ \A k \in Plain : KeepsPlain(k)
             /\ \A k \in Groups, s \in SubKeys : KeepsGroup(k, s)
  <2>1. /\ Busy(h) /\ job[h].over # Nil /\ active' = job[h].doc
    BY <1>1 DEF PatchInstalls, Installs
  <2>2. /\ FreshSave /\ SaveFilled /\ save \in Save /\ save # Nil /\ job[h] \in Job
        /\ \A k \in Keys : InForce(save.patch[k], job[h].over[k])
        /\ Within(job[h].over, job[h].doc)
    BY <1>1, <2>1 DEF SettingsInv, PageInv, WorkInv, Served, Serves, JobsReady, Busy
  <2>3. \A k \in SettingKeys : InForce(save.patch[k], active'[k])
    <3>1. save.patch \in Maps /\ job[h].over \in Maps /\ job[h].doc \in Maps
      BY <2>1, <2>2 DEF Save, Job
    <3> QED
      BY <2>1, <2>2, <3>1, AtKey, InForceTransitive DEF Within
  <2>4. active \in Maps
    BY <1>1, <2>2 DEF FreshSave, SettingsInv, WorkInv
  <2>5. ASSUME NEW k \in Plain, active[k] \in Leaves, k \notin save.plain
        PROVE  active'[k] = SentBack(k, active[k])
    BY <1>1, <2>2, <2>3, <2>5 DEF FreshSave, SaveFilled, InForce
  <2>6. ASSUME NEW k \in Groups, NEW s \in SubKeys, Under(active[k], s) # Unset,
               <<k, s>> \notin save.group
        PROVE  /\ active'[k] \in Flat
               /\ active'[k][s] = IF s \in Formed THEN SentBack(s, active[k][s])
                                                  ELSE active[k][s]
    <3>1. Repeats(k, s) /\ save.patch[k] \in Flat
      BY <1>1, <2>2, <2>6 DEF FreshSave, SaveFilled
    <3>2. active[k] \in Flat /\ active[k][s] \in Leaves
      BY <2>4, <2>6 DEF Under, Flat
    <3>3. save.patch[k][s] # Unset
      <4>1. s \in Formed => save.patch[k][s] \in Leaves
        BY <2>2 DEF SaveFilled
      <4> QED
        BY <3>1, <3>2, <4>1 DEF Repeats
    <3>4. active'[k] \in Flat /\ active'[k][s] = save.patch[k][s]
      BY <2>3, <3>1, <3>3 DEF InForce
    <3> QED
      BY <3>1, <3>4 DEF Repeats
  <2> QED
    BY <2>5, <2>6 DEF KeepsPlain, KeepsGroup
<1>2. SettingsInv => \A h \in Handlers : (Serves(h) /\ save.fresh /\ PatchInstalls(h)) =>
             /\ \A k \in Plain : KeepsPlain(k)
             /\ \A k \in Groups, s \in SubKeys : KeepsGroup(k, s)
  BY <1>1
<1> QED
  BY <1>2, SettingsInvariant, PTL DEF SettingsSpec, SaveKeepsRest

\* An answer that tells nothing new leaves the form to its user.
THEOREM EditsSurvive == SettingsSpec => EditSurvives
<1>1. ASSUME SettingsInv, [SettingsNext]_settingsVars, seen # Nil, poll # Nil,
             poll' = Nil, seen' = poll, seen.fresh, poll.fresh, seen.report = poll.report
      PROVE  form' = form
  <2>1. ~Differs(poll)
    BY <1>1 DEF SettingsInv, PageInv, FreshAnswers, FreshStatus, Differs
  <2>2. CASE Answered
    BY <2>1, <2>2 DEF Answered
  <2>3. CASE Edit
    BY <1>1, <2>3 DEF Edit
  <2> QED
    BY <1>1, <2>2, <2>3 DEF SettingsNext, StartSave, Poll, PollFails, SaveFails,
       SaveArrives, OthersPatch, Upload, MergePatch, Takes, UploadInstalls,
       PatchInstalls, Installs, WriteOverrides, JobFails, settingsVars, page
<1> QED
  BY <1>1, SettingsInvariant, PTL DEF SettingsSpec, EditSurvives
===============================================================================
