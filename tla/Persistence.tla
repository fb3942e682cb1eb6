----------------------------- MODULE Persistence -----------------------------
(***************************************************************************)
(* All that Nextdeck keeps under ~/.nextdeck: the values of the xtask      *)
(* arguments (module XtaskPreferences) and the settings (module Settings). *)
(* They are two files, written by two paths of the UI loop, and no handler *)
(* of one touches the other, so that either is checked in every state of   *)
(* its own while the other rests as it began.                              *)
(* Sources: xtask.rs, xtask/preferences.rs, xtask/persistence.rs,          *)
(* config.rs, settings.rs, app.rs, runner.rs.                              *)
(***************************************************************************)
EXTENDS XtaskPreferences, Settings

ASSUME ConfigAssumption == SettingsAssumption

persistence == <<vars, settingsVars>>

PreferencesRest == Init /\ ~file.readable
ConfigRests == SettingsInit /\ home /\ config = NoFile

PersistenceInit ==
  \/ Init /\ ConfigRests
  \/ SettingsInit /\ PreferencesRest

PersistenceNext ==
  \/ ConfigRests /\ Next /\ UNCHANGED settingsVars
  \/ PreferencesRest /\ SettingsNext /\ UNCHANGED vars

PersistenceSpec == PersistenceInit /\ [][PersistenceNext]_persistence /\ Fairness

=============================================================================
