------------------------------ MODULE ConfigMerge ------------------------------
(***************************************************************************)
(* Configurations as nested maps: how settings are merged into them and    *)
(* what is fixed in a configuration before it is installed                 *)
(* (internal/helper/helper.go: mergeMaps, prepareDocument,                 *)
(* sanitizeProviderPaths, currentSettings; internal/app/server.go:         *)
(* mergeConfigMaps).                                                       *)
(*                                                                         *)
(* A map has Keys; a value under a key is a leaf or a flat map of SubKeys. *)
(* That is as deep as the settings of the panel go (tun and dns); deeper   *)
(* values are leaves here.  A key that is not there is Unset.              *)
(***************************************************************************)
CONSTANTS
  Keys, SubKeys,   \* of the map, and of the maps in it
  Leaves,          \* values that are no maps
  Unset,
  SettingKeys,     \* the keys the helper reports as settings
  FixedKeys,       \* those prepareDocument writes or deletes: controller, secret, UI
  Fixed(_),        \* what it writes there, Unset where it deletes
  ProviderKeys,    \* proxy-providers and rule-providers; their paths are leaves
  Outside          \* paths that leave the runtime directory

Flat   == [SubKeys -> Leaves \cup {Unset}]
Values == Leaves \cup Flat
Maps   == [Keys -> Values \cup {Unset}]

ASSUME MergeAssumption ==
  /\ Unset \notin Leaves \cup Flat
  /\ Leaves \cap Flat = {}
  /\ SettingKeys \subseteq Keys
  /\ FixedKeys \subseteq Keys
  /\ ProviderKeys \subseteq Keys
  /\ FixedKeys \cap (SettingKeys \cup ProviderKeys) = {}
  /\ \A k \in FixedKeys : Fixed(k) \in Leaves \cup {Unset}

Empty == [k \in Keys |-> Unset]

MergeFlat(target, patch) ==
  [s \in SubKeys |-> IF patch[s] = Unset THEN target[s] ELSE patch[s]]

\* Mutant of MergeValue: a map replaces the map that was there.
ReplaceValue(target, patch) == IF patch = Unset THEN target ELSE patch

MergeValue(target, patch) ==
  CASE patch = Unset                    -> target
    [] patch \in Flat /\ target \in Flat -> MergeFlat(target, patch)
    [] OTHER                             -> patch

\* mergeMaps and mergeConfigMaps, which are the same function.
MergeMaps(target, patch) == [k \in Keys |-> MergeValue(target[k], patch[k])]

\* sanitizeProviderPaths: the error it returns.
LeavesRuntimeDir(doc) ==
  \E k \in ProviderKeys : doc[k] \in Flat /\ \E s \in SubKeys : doc[k][s] \in Outside

\* The rest of prepareDocument.
FixKeys(doc) == [k \in Keys |-> IF k \in FixedKeys THEN Fixed(k) ELSE doc[k]]

\* currentSettings of a configuration.
SettingsOf(doc) == [k \in Keys |-> IF k \in SettingKeys THEN doc[k] ELSE Unset]
===============================================================================
