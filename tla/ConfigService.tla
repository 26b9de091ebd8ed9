----------------------------- MODULE ConfigService -----------------------------
(***************************************************************************)
(* What the helper's configuration handlers promise together               *)
(* (internal/helper/helper.go: activate, updateCurrentConfig, patchConfig; *)
(* README.md:18 calls the switch atomic): one configuration is in force,   *)
(* an upload or a patch replaces it in one step or not at all, and the     *)
(* saved settings are part of whatever replaces it.                        *)
(***************************************************************************)
CONSTANTS
  Keys, Vals, Unset,
  Uploads,  \* records whose field opts has values of the settings
  Nil

VARIABLES
  current,  \* the configuration in force, or Nil
  saved     \* the settings that were saved

serviceVars == <<current, saved>>

Settings == [Keys -> Vals \cup {Unset}]

\* The settings of the first under those of the second.
Under(target, patch) ==
  [k \in Keys |-> IF patch[k] = Unset THEN target[k] ELSE patch[k]]

ConfigServiceInit ==
  /\ current = Nil
  /\ saved = [k \in Keys |-> Unset]

Activate ==
  /\ \E content \in Uploads :
       current' = [content EXCEPT !.opts = Under(content.opts, saved)]
  /\ UNCHANGED saved

PatchSettings ==
  /\ current # Nil
  /\ \E patch \in Settings :
       /\ saved' = Under(saved, patch)
       /\ current' = [current EXCEPT !.opts = Under(current.opts, saved')]

ConfigServiceNext == Activate \/ PatchSettings

ConfigServiceSpec ==
  ConfigServiceInit /\ [][ConfigServiceNext]_serviceVars
===============================================================================
