------------------------------- MODULE Settings ------------------------------
(***************************************************************************)
(* The settings of Nextdeck: held by every running process, kept in one    *)
(* file for all of them, changed by keys that arrive in batches.  Within a *)
(* batch only the last of several width keys in a row, and only the last   *)
(* resize of the terminal, is handled.  A change is written at once, with  *)
(* a plain fs::write; the theme and the opener take effect after that.     *)
(* Sources: config.rs, settings.rs, app.rs, runner.rs, main.rs.  The width *)
(* of the tests pane stands for the numbers, the theme for what the UI     *)
(* loop keeps a copy of; neither is overridden on the command line.        *)
(***************************************************************************)
EXTENDS Integers, Sequences, NextdeckProcesses

CONSTANTS
  MinWidth, MaxWidth, DefaultWidth, Step,  \* of the pane
  MaxInt,      \* of a u16
  Themes, DefaultTheme,
  Torn,        \* a file that is no settings: empty, cut off or of another version
  NoFile,
  MaxBatch,    \* MAX_EVENTS_PER_FRAME
  MaxChanges   \* bound: changes of the settings

SettingsAssumption ==
  /\ {MinWidth, MaxWidth, DefaultWidth, Step, MaxInt, MaxBatch, MaxChanges} \subseteq Nat
  /\ MinWidth <= DefaultWidth /\ DefaultWidth <= MaxWidth /\ MaxWidth <= MaxInt
  /\ DefaultTheme \in Themes
  /\ Torn # NoFile /\ {Torn, NoFile} \intersect [width : 0..MaxInt, theme : Themes] = {}
  /\ Overlap \in BOOLEAN

VARIABLES
  running,    \* the processes
  settings,   \* App.settings
  applied,    \* RuntimeSettings: the theme that is drawn
  modal,      \* GlobalSettingsState.modal_open
  selected,   \* GlobalSettingsState.selected
  batch,      \* the events drained and not handled yet
  home,       \* HOME is set
  config,     \* config.json
  writable,   \* the disk works
  \* history
  changes,
  behind,     \* the last save of the process failed
  intended,   \* the width that the keys so far ask for
  base        \* the width before the width keys that came last in a row

processVars == <<running, settings, applied, modal, selected, batch>>
historyVars == <<changes, behind, intended, base>>
settingsVars == <<processVars, home, config, writable, historyVars>>

Value(w, t) == [width |-> w, theme |-> t]
Default == Value(DefaultWidth, DefaultTheme)

(* Written by the program, or by hand.                                     *)
Stored == [width : 0..MaxInt, theme : Themes]

Clamp(x, low, high) == IF x < low THEN low ELSE IF x > high THEN high ELSE x
ClampTreeWidth(w) == Clamp(w, MinWidth, MaxWidth)

Normalized(s) == [s EXCEPT !.width = ClampTreeWidth(@)]

(* resize_tree_width: saturating_add_signed, then the range.               *)
ResizeTreeWidth(w, delta) == ClampTreeWidth(Clamp(w + delta, 0, MaxInt))

(* config::load.                                                           *)
Load(f) == IF home /\ f \notin {Torn, NoFile} THEN Normalized(f) ELSE Default

SettingsInit ==
  /\ running = {}
  /\ settings = [p \in Processes |-> Default]
  /\ applied = [p \in Processes |-> DefaultTheme]
  /\ modal = [p \in Processes |-> FALSE] /\ selected = [p \in Processes |-> "theme"]
  /\ batch = [p \in Processes |-> <<>>]
  /\ home \in BOOLEAN /\ config \in Stored \union {Torn, NoFile} /\ writable = TRUE
  /\ changes = 0 /\ behind = [p \in Processes |-> FALSE]
  /\ intended = [p \in Processes |-> DefaultWidth] /\ base = [p \in Processes |-> DefaultWidth]

-----------------------------------------------------------------------------
(* The memory of a process that begins with these settings.                *)
Holds(p, s) ==
  /\ settings' = [settings EXCEPT ![p] = s] /\ applied' = [applied EXCEPT ![p] = s.theme]
  /\ modal' = [modal EXCEPT ![p] = FALSE] /\ selected' = [selected EXCEPT ![p] = "theme"]
  /\ batch' = [batch EXCEPT ![p] = <<>>]
  /\ behind' = [behind EXCEPT ![p] = FALSE]
  /\ intended' = [intended EXCEPT ![p] = s.width] /\ base' = [base EXCEPT ![p] = s.width]
  /\ UNCHANGED <<home, writable, changes>>

Launch(p) ==
  /\ p \notin running /\ (Overlap \/ running = {})
  /\ running' = running \union {p} /\ Holds(p, Load(config))
  /\ UNCHANGED config

(* Left and Right are pressed with Shift.  Down and Esc stand for all that *)
(* has nothing to do with this where the panel is not open; the quit key   *)
(* drops the rest of the batch, as dying does.                             *)
Events == {"left", "right", "comma", "esc", "down", "resize"}

(* The events waiting when a frame has been drawn.                         *)
Drain(p, b) ==
  /\ p \in running /\ batch[p] = <<>>
  /\ batch' = [batch EXCEPT ![p] = b]
  /\ base' = [base EXCEPT ![p] = intended[p]]
  /\ UNCHANGED <<running, settings, applied, modal, selected, home, config, writable,
                 changes, behind, intended>>

-----------------------------------------------------------------------------
WidthKeys == {"left", "right"}

(* latest_only_event: the class of an event in the context of the first.   *)
LatestOnly(p, e) ==
  CASE e = "resize" -> "TerminalResize"
    [] e \in WidthKeys /\ ~modal[p] -> "TestsPaneWidth"
    [] OTHER -> "None"

ShouldSkip_AnyLater(p) ==
  LET class(i) == LatestOnly(p, batch[p][i]) IN
  class(1) # "None" /\ \E j \in 2..Len(batch[p]) : class(j) = class(1)

(* should_skip_stale_event: a resize looks at the whole rest of the batch, *)
(* a width key only as far as there are resizes and width keys.            *)
ShouldSkip(p) ==
  LET class(i) == LatestOnly(p, batch[p][i]) IN
  \/ class(1) = "TerminalResize" /\ \E j \in 2..Len(batch[p]) : class(j) = class(1)
  \/ /\ class(1) = "TestsPaneWidth"
     /\ \E j \in 2..Len(batch[p]) : class(j) = class(1) /\ \A k \in 2..j : class(k) # "None"

Delta(e) == IF e = "left" THEN -Step ELSE Step

(* What the keys up to this one ask for: of width keys in a row, with      *)
(* nothing between them but resizes, only the last counts.                 *)
Intends(p, e) ==
  /\ intended' = [intended EXCEPT ![p] =
       IF e \in WidthKeys /\ (~modal[p] \/ selected[p] = "width")
       THEN ResizeTreeWidth(IF modal[p] THEN @ ELSE base[p], Delta(e)) ELSE @]
  /\ base' = [base EXCEPT ![p] =
       IF e = "resize" \/ (e \in WidthKeys /\ ~modal[p]) THEN @ ELSE intended'[p]]

Takes(p, e) ==
  /\ p \in running /\ batch[p] # <<>> /\ Head(batch[p]) = e
  /\ batch' = [batch EXCEPT ![p] = Tail(@)]
  /\ Intends(p, e)
  /\ UNCHANGED <<running, home, writable>>

Skip(p, e) ==
  /\ Takes(p, e) /\ ShouldSkip(p)
  /\ UNCHANGED <<settings, applied, modal, selected, config, changes, behind>>

(* Keys that leave the settings as they are.                               *)
Walk(p, e) ==
  /\ Takes(p, e) /\ ~ShouldSkip(p)
  /\ e \notin WidthKeys
  /\ modal' = [modal EXCEPT ![p] = (@ /\ e # "esc") \/ (~@ /\ e = "comma")]
  /\ selected' = [selected EXCEPT ![p] =
       IF modal[p] /\ e = "down" THEN (IF @ = "width" THEN "theme" ELSE "width") ELSE @]
  /\ UNCHANGED <<settings, applied, config, changes, behind>>

(* SettingsAdjustLeft and SettingsAdjustRight, or the width of the pane.   *)
Adjusted(p, e) ==
  IF modal[p] /\ selected[p] = "theme"
  THEN {Value(settings[p].width, t) : t \in Themes \ {settings[p].theme}}
  ELSE {Value(ResizeTreeWidth(settings[p].width, Delta(e)), settings[p].theme)}

Changes(p, e) ==
  /\ Takes(p, e) /\ ~ShouldSkip(p)
  /\ e \in WidthKeys
  /\ settings' \in {[settings EXCEPT ![p] = s] : s \in Adjusted(p, e)}
  /\ UNCHANGED <<modal, selected>>

(* resize_tests_pane at the end of the range: nothing to save.             *)
AtLimit(p, e) ==
  /\ Changes(p, e) /\ settings' = settings
  /\ UNCHANGED <<applied, config, changes, behind>>

MakesChange == settings' # settings /\ changes < MaxChanges /\ changes' = changes + 1

Saved_Unapplied(p, e) ==
  /\ Changes(p, e) /\ MakesChange /\ (writable \/ ~home)
  /\ config' = IF home THEN Normalized(settings'[p]) ELSE config
  /\ behind' = [behind EXCEPT ![p] = FALSE]
  /\ UNCHANGED applied

(* SaveSettings: config::save, then apply_runtime_settings.                *)
Saved(p, e) ==
  /\ Changes(p, e) /\ MakesChange /\ (writable \/ ~home)
  /\ config' = IF home THEN Normalized(settings'[p]) ELSE config
  /\ applied' = [applied EXCEPT ![p] = settings'[p].theme]
  /\ behind' = [behind EXCEPT ![p] = FALSE]

(* The file could not be opened, or was emptied and then not written.      *)
NotSaved(p, e) ==
  /\ Changes(p, e) /\ MakesChange /\ ~writable /\ home
  /\ config' \in {config, Torn}
  /\ behind' = [behind EXCEPT ![p] = TRUE]
  /\ UNCHANGED applied

-----------------------------------------------------------------------------
Stops(p) ==
  /\ p \in running
  /\ running' = running \ {p} /\ Holds(p, Default)

(* The process leaves, or dies at any moment, also while it writes: what   *)
(* it held is gone.                                                        *)
Die(p) == Stops(p) /\ UNCHANGED config

DieWriting(p) ==
  /\ Stops(p) /\ batch[p] # <<>> /\ home /\ writable
  /\ \E s \in Adjusted(p, Head(batch[p])) : s # settings[p]
  /\ Head(batch[p]) \in WidthKeys /\ ~ShouldSkip(p)
  /\ config' = Torn

DiskChanges ==
  /\ changes < MaxChanges /\ changes' = changes + 1
  /\ writable' = ~writable
  /\ UNCHANGED <<processVars, home, config, behind, intended, base>>

Batches == UNION {[1..n -> Events] : n \in 1..MaxBatch}

SettingsNext ==
  \/ \E p \in Processes :
       \/ Launch(p) \/ Die(p) \/ DieWriting(p)
       \/ \E b \in Batches : Drain(p, b)
       \/ \E e \in Events :
            Skip(p, e) \/ Walk(p, e) \/ AtLimit(p, e) \/ Saved(p, e) \/ NotSaved(p, e)
  \/ DiskChanges

SettingsSpec == SettingsInit /\ [][SettingsNext]_settingsVars

-----------------------------------------------------------------------------
Valid == [width : MinWidth..MaxWidth, theme : Themes]

SettingsTypeOK ==
  /\ running \subseteq Processes
  /\ settings \in [Processes -> Valid] /\ applied \in [Processes -> Themes]
  /\ modal \in [Processes -> BOOLEAN] /\ selected \in [Processes -> {"width", "theme"}]
  /\ batch \in [Processes -> Batches \union {<<>>}]
  /\ home \in BOOLEAN /\ config \in Stored \union {Torn, NoFile} /\ writable \in BOOLEAN
  /\ changes \in 0..MaxChanges /\ behind \in [Processes -> BOOLEAN]
  /\ intended \in [Processes -> MinWidth..MaxWidth] /\ base \in [Processes -> MinWidth..MaxWidth]

(* Unless a save has just failed, what the settings panel shows is what    *)
(* the next start will find, whatever was in the file before, and what is  *)
(* drawn.                                                                  *)
SettingsAreKept ==
  \A p \in running : ~behind[p] =>
    /\ home => Load(config) = settings[p]
    /\ applied[p] = settings[p].theme

(* However keys and resizes are batched, the pane ends with the width that *)
(* the last key of each row asks for, and keys between rows find it so.    *)
WidthIsAsIntended ==
  \A p \in running : batch[p] = <<>> \/ Head(batch[p]) \notin WidthKeys \union {"resize"} =>
    settings[p].width = intended[p]

-----------------------------------------------------------------------------
(* Not guaranteed.  Every press moves the width by a step: of a row that   *)
(* arrives in one batch only the last press counts.                        *)
EveryPressCounts ==
  [][\A p \in Processes, e \in WidthKeys : ~Skip(p, e)]_settingsVars

(* Not guaranteed.  Settings outlive a crash: the file is written in       *)
(* place, and one that is cut off counts as none.                          *)
NeverLost == [][config' # Torn]_config
=============================================================================
