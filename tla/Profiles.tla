------------------------------- MODULE Profiles -------------------------------
(***************************************************************************)
(* Profiles of the server (internal/app/server.go, store.go): create,      *)
(* update, refresh, delete and activate over the profiles table, with the  *)
(* helper on the other side of the socket.                                 *)
(*                                                                         *)
(* The store holds one connection, so each statement and the transaction   *)
(* of ActivateProfile is a step; what a handler does between two of them   *)
(* (a download, a request to the helper) takes any time.  Requests that    *)
(* are refused before they reach the store are left out, and so are names  *)
(* and time stamps.  Of the helper there is whose configuration is active  *)
(* and whose is in the backup: what two requests at work there at once     *)
(* leave behind is the subject of ConfigSwitch, and only recorded here.    *)
(***************************************************************************)
EXTENDS Naturals

CONSTANTS
  Requests,     \* goroutines of the server
  Docs,         \* contents of profiles
  Urls,         \* where remote profiles come from
  MaxId,        \* bound: how many profiles are ever created
  Nil

Ids == 1 .. MaxId

\* A row of the table, and what a handler holds of one it has read.
Row == [url : Urls \cup {Nil}, content : Docs, active : BOOLEAN]
Held == [id : Ids, url : Urls \cup {Nil}, content : Docs]

ASSUME ProfilesAssumption ==
  /\ MaxId \in Nat
  /\ Nil \notin Docs \cup Urls \cup Row \cup Held \cup Ids \cup {0} \cup Requests

VARIABLES
  rows,     \* the profiles table: a row, or Nil
  next,     \* the next AUTOINCREMENT id
  pc,       \* what a request does next
  local,    \* the Profile it has read, or Nil
  running,  \* whose configuration active.yaml holds: a profile's, 0 for no
            \* profile's, Nil for no file
  previous, \* the same of active.previous.yaml
  edit,     \* what another client's PUT or PATCH is about to install there, or Nil
  parted,   \* requests have overlapped at the helper, or one was interrupted, not
            \* marked or not undone, and no activation has succeeded alone since
            \* (history)
  alone     \* the activation sent last, if nothing has been beside it, or Nil
            \* (history)

helperVars == <<running, previous, edit>>
history    == <<parted, alone>>
profVars   == <<rows, next, pc, local, helperVars, history>>

ProfInit ==
  /\ rows = [i \in Ids |-> Nil]
  /\ next = 1
  /\ pc = [r \in Requests |-> "idle"]
  /\ local = [r \in Requests |-> Nil]
  /\ running = Nil
  /\ previous = Nil
  /\ edit = Nil
  /\ parted = FALSE
  /\ alone = Nil

Exists(i) == rows[i] # Nil

Goto(r, from, to) == pc[r] = from /\ pc' = [pc EXCEPT ![r] = to]
Forget(r)         == local' = [local EXCEPT ![r] = Nil]

\* Mutant of Read: the error of a missing row is ignored, and its zero id kept.
ReadAnyway(r, i) ==
  local' = [local EXCEPT
    ![r] = IF Exists(i)
           THEN [id |-> i, url |-> rows[i].url, content |-> rows[i].content]
           ELSE [id |-> 0, url |-> Nil, content |-> Nil]]

\* store.Profile(i): the row as it is now; a missing one ends the request.
Read(r, i) ==
  /\ Exists(i)
  /\ local' = [local EXCEPT
       ![r] = [id |-> i, url |-> rows[i].url, content |-> rows[i].content]]

\* Mutant of Save: a missing row is inserted.
SaveOrInsert(i, url, content) ==
  rows' = [rows EXCEPT ![i] = [url |-> url, content |-> content,
                               active |-> Exists(i) /\ rows[i].active]]

\* store.UpdateProfile: UPDATE ... WHERE id; the flag is not among its columns.
Save(i, url, content) ==
  IF Exists(i)
  THEN rows' = [rows EXCEPT ![i].url = url, ![i].content = content]
  ELSE UNCHANGED rows

-------------------------------------------------------------------------------
(* create, update, refresh, delete.                                        *)

\* createProfile: the content was sent or downloaded before the INSERT.
Create(r) ==
  /\ pc[r] = "idle"
  /\ next \in Ids
  /\ \E url \in Urls \cup {Nil}, content \in Docs :
       rows' = [rows EXCEPT ![next] =
                  [url |-> url, content |-> content, active |-> FALSE]]
  /\ next' = next + 1
  /\ UNCHANGED <<pc, local, helperVars, history>>

UpdateRead(r, i) ==
  /\ Goto(r, "idle", "update")
  /\ Read(r, i)
  /\ UNCHANGED <<rows, next, helperVars, history>>

UpdateWrite(r) ==
  /\ Goto(r, "update", "idle")
  /\ \E url \in Urls \cup {Nil}, content \in Docs :
       Save(local[r].id, url, content)
  /\ Forget(r)
  /\ UNCHANGED <<next, helperVars, history>>

RefreshRead(r, i) ==
  /\ Goto(r, "idle", "refresh")
  /\ Read(r, i)
  /\ local'[r].url # Nil
  /\ UNCHANGED <<rows, next, helperVars, history>>

\* The download has failed, or its content is saved with the url read before.
RefreshWrite(r) ==
  /\ Goto(r, "refresh", "idle")
  /\ \/ UNCHANGED rows
     \/ \E content \in Docs : Save(local[r].id, local[r].url, content)
  /\ Forget(r)
  /\ UNCHANGED <<next, helperVars, history>>

Delete(r, i) ==
  /\ pc[r] = "idle"
  /\ rows' = [rows EXCEPT ![i] = Nil]
  /\ UNCHANGED <<next, pc, local, helperVars, history>>

-------------------------------------------------------------------------------
(* activate: read the profile, have the helper switch, set the flag.       *)

ActivateRead(r, i) ==
  /\ Goto(r, "idle", "send")
  /\ Read(r, i)
  /\ UNCHANGED <<rows, next, helperVars, history>>

\* An activation the helper works on, or has done with.
AtHelper(r) == pc[r] \in {"wait", "gone"}
OnItsWay(r) == AtHelper(r) \/ pc[r] = "flag"

\* The helper is at work, or what it has done is not marked yet.
HelperBusy == edit # Nil \/ \E r \in Requests : OnItsWay(r)

\* What comes between parts mark and helper, if it does.
Parts(if) ==
  /\ parted' = (parted \/ if)
  /\ alone' = IF if THEN Nil ELSE alone

\* From here the helper works on the profile in local[r].
Send(r) ==
  /\ Goto(r, "send", "wait")
  /\ parted' = (parted \/ HelperBusy)
  /\ alone' = IF HelperBusy THEN Nil ELSE r
  /\ UNCHANGED <<rows, next, local, helperVars>>

\* Mutant of Flagged: the flags of the other profiles are not cleared.
FlaggedToo(i) ==
  [j \in Ids |-> IF Exists(j) /\ i = j THEN [rows[j] EXCEPT !.active = TRUE]
                                       ELSE rows[j]]

\* store.ActivateProfile: UPDATE all to 0, UPDATE i to 1, in one transaction.
Flagged(i) ==
  [j \in Ids |-> IF Exists(j) THEN [rows[j] EXCEPT !.active = (i = j)] ELSE Nil]

\* An activation that got here alone leaves everything in order.
Flag(r) ==
  /\ Goto(r, "flag", "idle")
  /\ \/ rows' = Flagged(local[r].id) /\ parted' = (parted /\ alone # r)
     \/ UNCHANGED rows /\ parted' = TRUE
  /\ alone' = Nil
  /\ Forget(r)
  /\ UNCHANGED <<next, helperVars>>

-------------------------------------------------------------------------------
(* activatePrepared of the helper, for a configuration of profile id.      *)

\* copyFile, whose error is ignored: half a file is no profile's.
BackUp(copied) ==
  previous' \in IF running = Nil THEN {previous}
                ELSE IF copied THEN {running} ELSE {previous, 0}

Switches(id) ==
  /\ running' = id
  /\ \E copied \in BOOLEAN : BackUp(copied)

\* It is not validated, or not renamed.
Stays ==
  /\ UNCHANGED running
  /\ UNCHANGED previous \/ \E copied \in BOOLEAN : BackUp(copied)

\* Its core cannot be started, or the helper ends after the rename: the backup is
\* copied back if there is one and the copy succeeds.
FailsAfterRename(id) ==
  \E copied, restored \in BOOLEAN :
    /\ BackUp(copied)
    /\ running' \in IF previous' = Nil THEN {id}
                    ELSE IF restored THEN {previous'} ELSE {id, 0}
    /\ Parts(running = Nil \/ ~copied \/ ~restored)

-------------------------------------------------------------------------------
(* What the helper answers to activate, and what comes between.            *)

\* One that nobody waits for any more just ends.
Answer(r, to) ==
  /\ \/ Goto(r, "wait", to)
     \/ Goto(r, "gone", "idle")
  /\ IF pc'[r] = "idle" THEN Forget(r) ELSE UNCHANGED local
  /\ UNCHANGED <<rows, next, edit>>

HelperSwitches(r) ==
  /\ Answer(r, "flag")
  /\ Switches(local[r].id)
  /\ UNCHANGED history

\* Mutant of HelperRefuses: any answer is taken for a success.
RefusalIgnored(r) == Answer(r, "flag") /\ Stays /\ UNCHANGED history

\* An answer with a code of 400 or more ends the request.
HelperRefuses(r) == Answer(r, "idle") /\ Stays /\ UNCHANGED history

\* So does an error after the rename, and no answer.
HelperFails(r) == Answer(r, "idle") /\ FailsAfterRename(local[r].id)

\* PUT current-config, of no profile; PATCH config, which has read active.yaml and
\* installs the same profile's with other settings.
EditBegins ==
  /\ edit = Nil
  /\ edit' \in {0, running} \ {Nil}
  /\ Parts(\E r \in Requests : AtHelper(r))
  /\ UNCHANGED <<rows, next, pc, local, running, previous>>

EditEnds ==
  /\ edit # Nil
  /\ edit' = Nil
  /\ \/ (Switches(edit) \/ Stays) /\ UNCHANGED history
     \/ FailsAfterRename(edit)
  /\ UNCHANGED <<rows, next, pc, local>>

\* The client's five minutes are over; the helper goes on.
GivesUp(r) ==
  /\ Goto(r, "wait", "gone")
  /\ Parts(TRUE)
  /\ UNCHANGED <<rows, next, local, helperVars>>

\* The server ends and starts again; what it had asked of the helper goes on.
Restart ==
  /\ pc' = [r \in Requests |-> IF AtHelper(r) THEN "gone" ELSE "idle"]
  /\ local' = [r \in Requests |-> IF AtHelper(r) THEN local[r] ELSE Nil]
  /\ Parts(\E r \in Requests : OnItsWay(r))
  /\ UNCHANGED <<rows, next, helperVars>>

-------------------------------------------------------------------------------
ProfNext ==
  \/ \E r \in Requests :
       \/ Create(r)
       \/ \E i \in Ids : UpdateRead(r, i) \/ RefreshRead(r, i)
                         \/ Delete(r, i) \/ ActivateRead(r, i)
       \/ UpdateWrite(r) \/ RefreshWrite(r) \/ Send(r) \/ Flag(r)
       \/ HelperSwitches(r) \/ HelperRefuses(r) \/ HelperFails(r) \/ GivesUp(r)
  \/ EditBegins \/ EditEnds \/ Restart

ProfSpec == ProfInit /\ [][ProfNext]_profVars

-------------------------------------------------------------------------------
(* Properties.                                                             *)

ProfLabels == {"idle", "update", "refresh", "send", "wait", "gone", "flag"}

\* Types of the table and of what a handler has read.
ProfTypeOK ==
  /\ rows \in [Ids -> Row \cup {Nil}]
  /\ next \in 1 .. MaxId + 1
  /\ pc \in [Requests -> ProfLabels]
  /\ local \in [Requests -> Held \cup {Nil}]
  /\ \A r \in Requests : local[r] = Nil <=> pc[r] = "idle"
  /\ {running, previous, edit} \subseteq Ids \cup {0, Nil}
  /\ parted \in BOOLEAN
  /\ alone \in Requests \cup {Nil}

\* However activations, updates, refreshes and deletions interleave, one profile
\* at most is marked active.
AtMostOneActive ==
  \A i, j \in Ids :
    (Exists(i) /\ rows[i].active /\ Exists(j) /\ rows[j].active) => i = j

\* A deleted profile stays deleted: a refresh or an update that read it before
\* does not write it back, and its id names no later profile, so an activation
\* still on its way cannot mark another one.
DeletedStaysDeleted ==
  [][\A i \in Ids : (i < next /\ ~Exists(i)) => ~Exists(i)']_profVars

\* The profile marked active is the one the helper runs, if any's, but for the
\* moment between the helper's answer and the mark (activateProfile): refused
\* switches, undone ones, edits, deletions and refreshes meanwhile never part
\* them.  What does (requests at work at the helper at once, an interrupted
\* activation, a mark that fails, a failed start that is not undone) is over with
\* the next activation that succeeds alone.
FlagMatchesHelper ==
  (~parted /\ \A r \in Requests : pc[r] # "flag") =>
    \A i \in Ids : Exists(i) =>
      /\ rows[i].active => running \in {i, 0}
      /\ running = i => rows[i].active
===============================================================================
