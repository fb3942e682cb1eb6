-------------------------- MODULE XtaskPreferences ---------------------------
(***************************************************************************)
(* The argument values that Nextdeck remembers for each workspace: held by *)
(* every running process for its own workspace, kept in one file for all   *)
(* of them.  A process handles a batch of events, then flushes; a save     *)
(* reads the file, replaces the entry of the workspace, writes a temporary *)
(* file and renames it.  Processes may overlap, crash between any two of   *)
(* these steps, be restarted and meet a disk that does not work.           *)
(* Sources: xtask.rs, xtask/preferences.rs, xtask/persistence.rs,          *)
(* runner.rs.  An argument stands for a command and an argument of it.     *)
(***************************************************************************)
EXTENDS Naturals, NextdeckProcesses

CONSTANTS
  Workspaces, Args, Values,
  Unset,         \* no value: the argument is not in the map
  WorkspaceOf,   \* the workspace of a process
  Manifests,     \* the manifests a load may find
  Remembered,    \* the overrides an earlier version may have left in the file
  FlakyDisk,     \* whether the disk may fail while a process restores
  MaxRevision,   \* bound: changes of one process
  MaxFaults      \* bound: times the disk stops working

ASSUME PreferencesAssumption ==
  /\ Unset \notin Values
  /\ WorkspaceOf \in [Processes -> Workspaces]
  /\ \A m \in Manifests : \A a \in Args :
       m[a].allowed \subseteq Values /\ (m[a].allowed # {} => m[a].default \in m[a].allowed)
  /\ Remembered \subseteq [Args -> Values \union {Unset}]
  /\ Overlap \in BOOLEAN /\ FlakyDisk \in BOOLEAN
  /\ MaxRevision \in Nat /\ MaxFaults \in Nat

VARIABLES
  up,         \* the processes that run
  prefs,      \* XtaskState.preferences
  manifest,   \* XtaskState.manifest, as a set of at most one
  revision, persisted, \* the counters of changes made and changes saved
  attempt,    \* the revision of the last save that failed, 0 if none
  cooling,    \* the retry interval has not passed
  phase,      \* "idle", "batch", "read", "write", "rename"
  leaving,    \* should_quit
  image,      \* what the save is about to write
  file,       \* xtask-state.json
  working,    \* the disk works
  faults,
  \* history
  touched,    \* the overrides this process has changed since it started
  chosen,     \* the overrides of a workspace as last shown to the user
  certain     \* and whether they reached the disk

procVars == <<up, prefs, manifest, revision, persisted, attempt, cooling, phase, leaving, image>>
diskVars == <<file, working, faults>>
histVars == <<touched, chosen, certain>>
vars == <<procVars, diskVars, histVars>>

Prefs == [Args -> Values \union {Unset}]
NoPrefs == [a \in Args |-> Unset]

-----------------------------------------------------------------------------
(* XtaskPreferences::reconcile: a value that the manifest allows stays,    *)
(* the others become its defaults.                                         *)
Reconcile(m, ps) ==
  [a \in Args |-> IF m[a].allowed = {} THEN Unset
                  ELSE IF ps[a] \in m[a].allowed THEN ps[a]
                  ELSE m[a].default]

(* XtaskPreferences::overrides_for: what differs from the defaults.        *)
Overrides(m, ps) ==
  [a \in Args |-> IF m[a].allowed # {} /\ ps[a] # m[a].default THEN ps[a] ELSE Unset]

(* persistable_preferences.                                                *)
PersistableOf(ms, ps) == IF ms = {} THEN ps ELSE Overrides(CHOOSE m \in ms : TRUE, ps)
Persistable(p) == PersistableOf(manifest[p], prefs[p])

Pending(p) == revision[p] # persisted[p]

Unreadable == [readable |-> FALSE, entries |-> [w \in Workspaces |-> NoPrefs]]

Init ==
  /\ up = {} /\ prefs = [p \in Processes |-> NoPrefs] /\ manifest = [p \in Processes |-> {}]
  /\ revision = [p \in Processes |-> 0] /\ persisted = [p \in Processes |-> 0]
  /\ attempt = [p \in Processes |-> 0] /\ cooling = [p \in Processes |-> FALSE]
  /\ phase = [p \in Processes |-> "idle"] /\ leaving = [p \in Processes |-> FALSE]
  /\ image = [p \in Processes |-> [w \in Workspaces |-> NoPrefs]]
  /\ file \in {Unreadable} \union [readable : {TRUE}, entries : [Workspaces -> Remembered]]
  /\ working = TRUE /\ faults = 0
  /\ touched = [p \in Processes |-> {}]
  /\ chosen = file.entries
  /\ certain = [w \in Workspaces |-> file.readable]

-----------------------------------------------------------------------------
(* A process starts: it restores the entry of its workspace, or starts     *)
(* from nothing and says so when the file cannot be read.                  *)
Start(p) ==
  /\ p \notin up
  /\ Overlap \/ up = {}
  /\ working \/ FlakyDisk
  /\ up' = up \union {p}
  /\ prefs' = [prefs EXCEPT ![p] = IF working /\ file.readable
                                   THEN file.entries[WorkspaceOf[p]] ELSE NoPrefs]
  /\ manifest' = [manifest EXCEPT ![p] = {}]
  /\ revision' = [revision EXCEPT ![p] = 0]
  /\ persisted' = [persisted EXCEPT ![p] = 0]
  /\ attempt' = [attempt EXCEPT ![p] = 0]
  /\ phase' = [phase EXCEPT ![p] = "idle"]
  /\ leaving' = [leaving EXCEPT ![p] = FALSE]
  /\ touched' = [touched EXCEPT ![p] = {}]
  /\ UNCHANGED <<cooling, image, diskVars, chosen, certain>>

(* An event of the batch: it may only be the first or follow another.      *)
Handles(p) ==
  /\ p \in up /\ phase[p] \in {"idle", "batch"} /\ ~leaving[p]
  /\ phase' = [phase EXCEPT ![p] = "batch"]
  /\ UNCHANGED <<up, persisted, attempt, cooling, leaving, image, diskVars>>

Dirty(p) == revision[p] < MaxRevision /\ revision' = [revision EXCEPT ![p] = @ + 1]

Shows(p) == chosen' = [chosen EXCEPT ![WorkspaceOf[p]] = PersistableOf(manifest'[p], prefs'[p])]

ChangedBy_Nothing(p, m) == {}

(* The overrides that a new manifest changes: those it drops, and those    *)
(* that were defaults of the old one.                                      *)
ChangedBy(p, m) ==
  {a \in Args : Overrides(m, Reconcile(m, prefs[p]))[a] # Persistable(p)[a]}

(* InfoLoaded with a manifest: set_manifest.                               *)
InfoLoaded(p, m) ==
  /\ Handles(p)
  /\ prefs' = [prefs EXCEPT ![p] = Reconcile(m, @)]
  /\ manifest' = [manifest EXCEPT ![p] = {m}]
  /\ IF ChangedBy(p, m) # {} THEN Dirty(p) ELSE UNCHANGED revision
  /\ touched' = [touched EXCEPT ![p] = @ \union ChangedBy(p, m)]
  /\ Shows(p)
  /\ certain' = [certain EXCEPT ![WorkspaceOf[p]] = file.readable]

LoadFailed_KeepsDefaults(p) ==
  /\ Handles(p)
  /\ manifest' = [manifest EXCEPT ![p] = {}]
  /\ UNCHANGED <<prefs, revision, histVars>>

(* InfoLoaded with an error: only the overrides outlive the manifest.      *)
LoadFailed(p) ==
  /\ Handles(p)
  /\ prefs' = [prefs EXCEPT ![p] = Persistable(p)]
  /\ manifest' = [manifest EXCEPT ![p] = {}]
  /\ UNCHANGED <<revision, histVars>>

(* adjust_selected_arg and commit_edit of an argument of the manifest.     *)
SetArg(p, a, v) ==
  /\ Handles(p)
  /\ \E m \in manifest[p] : v \in m[a].allowed
  /\ v # prefs[p][a]
  /\ prefs' = [prefs EXCEPT ![p][a] = v]
  /\ Dirty(p)
  /\ touched' = [touched EXCEPT ![p] = @ \union {a}]
  /\ UNCHANGED manifest
  /\ Shows(p)
  /\ certain' = [certain EXCEPT ![WorkspaceOf[p]] = file.readable]

(* A tick of the UI ticker, or any event that has nothing to do with this. *)
Tick(p) ==
  /\ Handles(p)
  /\ UNCHANGED <<prefs, manifest, revision, histVars>>

(* The quit key ends its batch; the flush still follows.                   *)
Quit(p) ==
  /\ p \in up /\ phase[p] \in {"idle", "batch"} /\ ~leaving[p]
  /\ phase' = [phase EXCEPT ![p] = "batch"]
  /\ leaving' = [leaving EXCEPT ![p] = TRUE]
  /\ UNCHANGED <<up, prefs, manifest, revision, persisted, attempt, cooling, image,
                 diskVars, histVars>>

-----------------------------------------------------------------------------
flushOnly == <<up, prefs, manifest, revision, leaving, histVars, working, faults>>

CoolingDown_SameRevision(p) == attempt[p] = revision[p]
CoolingDown(p) == attempt[p] = revision[p] /\ cooling[p]

(* flush_at: nothing to do, too early to retry, or a save begins.          *)
Flush(p) ==
  /\ p \in up /\ phase[p] = "batch"
  /\ \/ /\ ~Pending(p)
        /\ attempt' = [attempt EXCEPT ![p] = 0]
        /\ phase' = [phase EXCEPT ![p] = "idle"]
        /\ UNCHANGED cooling
     \/ /\ Pending(p) /\ CoolingDown(p)
        /\ phase' = [phase EXCEPT ![p] = "idle"]
        /\ UNCHANGED <<attempt, cooling>>
     \/ /\ Pending(p) /\ ~CoolingDown(p)
        /\ attempt' = [attempt EXCEPT ![p] = revision[p]]
        /\ cooling' = [cooling EXCEPT ![p] = TRUE]
        /\ phase' = [phase EXCEPT ![p] = "read"]
  /\ UNCHANGED <<flushOnly, persisted, image, file>>

ReadFile_OwnEntryOnly(p) ==
  /\ p \in up /\ phase[p] = "read" /\ working /\ file.readable
  /\ image' = [image EXCEPT ![p] = [[w \in Workspaces |-> NoPrefs]
                                       EXCEPT ![WorkspaceOf[p]] = Persistable(p)]]
  /\ phase' = [phase EXCEPT ![p] = "write"]
  /\ UNCHANGED <<flushOnly, persisted, attempt, cooling, file>>

(* save: a file that cannot be read is never replaced.                     *)
ReadFile(p) ==
  /\ p \in up /\ phase[p] = "read" /\ working /\ file.readable
  /\ image' = [image EXCEPT ![p] = [file.entries EXCEPT ![WorkspaceOf[p]] = Persistable(p)]]
  /\ phase' = [phase EXCEPT ![p] = "write"]
  /\ UNCHANGED <<flushOnly, persisted, attempt, cooling, file>>

WriteTemporary_InPlace(p) ==
  /\ p \in up /\ phase[p] = "write" /\ working
  /\ file' = Unreadable
  /\ phase' = [phase EXCEPT ![p] = "rename"]
  /\ UNCHANGED <<flushOnly, persisted, attempt, cooling, image>>

(* write_atomic, up to the rename; the temporary file is the process's own.*)
WriteTemporary(p) ==
  /\ p \in up /\ phase[p] = "write" /\ working
  /\ phase' = [phase EXCEPT ![p] = "rename"]
  /\ UNCHANGED <<flushOnly, persisted, attempt, cooling, image, file>>

Rename(p) ==
  /\ p \in up /\ phase[p] = "rename" /\ working
  /\ file' = [readable |-> TRUE, entries |-> image[p]]
  /\ persisted' = [persisted EXCEPT ![p] = revision[p]]
  /\ attempt' = [attempt EXCEPT ![p] = 0]
  /\ phase' = [phase EXCEPT ![p] = "idle"]
  /\ UNCHANGED <<flushOnly, cooling, image>>

(* Any of the three may fail; the temporary file is removed and the error  *)
(* becomes the status line.                                                *)
SaveFails(p) ==
  /\ p \in up /\ phase[p] \in {"read", "write", "rename"}
  /\ ~working \/ (phase[p] = "read" /\ ~file.readable)
  /\ phase' = [phase EXCEPT ![p] = "idle"]
  /\ UNCHANGED <<flushOnly, persisted, attempt, cooling, image, file>>

Save(p) == ReadFile(p) \/ WriteTemporary(p) \/ Rename(p) \/ SaveFails(p)

(* SAVE_RETRY_INTERVAL passes.                                             *)
CooldownEnds(p) ==
  /\ cooling[p]
  /\ cooling' = [cooling EXCEPT ![p] = FALSE]
  /\ UNCHANGED <<up, prefs, manifest, revision, persisted, attempt, phase, leaving, image,
                 diskVars, histVars>>

-----------------------------------------------------------------------------
stop(p) ==
  /\ up' = up \ {p}
  /\ phase' = [phase EXCEPT ![p] = "idle"]
  /\ certain' = [certain EXCEPT ![WorkspaceOf[p]] = @ /\ ~Pending(p)]
  /\ UNCHANGED <<prefs, manifest, revision, persisted, attempt, cooling, leaving, image,
                 diskVars, touched, chosen>>

(* The loop is left once the flush of the last batch is over.              *)
Leave(p) == p \in up /\ leaving[p] /\ phase[p] = "idle" /\ stop(p)

Crash(p) == p \in up /\ stop(p)

DiskFails ==
  /\ working /\ faults < MaxFaults
  /\ working' = FALSE /\ faults' = faults + 1
  /\ UNCHANGED <<procVars, file, histVars>>

DiskRecovers ==
  /\ ~working /\ working' = TRUE
  /\ UNCHANGED <<procVars, file, faults, histVars>>

Next ==
  \/ \E p \in Processes :
       \/ Start(p) \/ LoadFailed(p) \/ Tick(p) \/ Quit(p) \/ Flush(p) \/ Save(p)
       \/ CooldownEnds(p) \/ Leave(p) \/ Crash(p)
       \/ \E m \in Manifests : InfoLoaded(p, m)
       \/ \E a \in Args, v \in Values : SetArg(p, a, v)
  \/ DiskFails \/ DiskRecovers

Spec == Init /\ [][Next]_vars

(* The ticker never stops, a batch has at most 256 events, time passes,    *)
(* and the UI thread runs on.                                              *)
Fairness ==
  \A p \in Processes :
    /\ WF_vars(Tick(p)) /\ WF_vars(Flush(p)) /\ WF_vars(Save(p))
    /\ WF_vars(CooldownEnds(p)) /\ WF_vars(Leave(p))

FairSpec == Spec /\ Fairness

-----------------------------------------------------------------------------
TypeOK ==
  /\ up \subseteq Processes
  /\ prefs \in [Processes -> Prefs]
  /\ manifest \in [Processes -> {{}} \union {{m} : m \in Manifests}]
  /\ revision \in [Processes -> 0..MaxRevision] /\ persisted \in [Processes -> 0..MaxRevision]
  /\ attempt \in [Processes -> 0..MaxRevision] /\ cooling \in [Processes -> BOOLEAN]
  /\ phase \in [Processes -> {"idle", "batch", "read", "write", "rename"}]
  /\ leaving \in [Processes -> BOOLEAN]
  /\ image \in [Processes -> [Workspaces -> Prefs]]
  /\ file \in [readable : BOOLEAN, entries : [Workspaces -> Prefs]]
  /\ working \in BOOLEAN /\ faults \in 0..MaxFaults
  /\ touched \in [Processes -> SUBSET Args]
  /\ chosen \in [Workspaces -> Prefs] /\ certain \in [Workspaces -> BOOLEAN]
  /\ \A p \in Processes : \A m \in manifest[p] : \A a \in Args :
       prefs[p][a] \in (IF m[a].allowed = {} THEN {Unset} ELSE m[a].allowed)

(* A process that has nothing left to save has on disk what its panel      *)
(* shows: every path that changes an override counts as a change, through  *)
(* reloads that fail, reloads that prune and saves that are retried.       *)
SavedIsOnDisk ==
  \A p \in up :
    ~Pending(p) /\ file.readable => file.entries[WorkspaceOf[p]] = Persistable(p)

(* A save touches nothing but what its own process changed: neither the    *)
(* other workspaces nor the other arguments of its own.                    *)
SaveLeavesTheRest ==
  [][\A p \in Processes : Rename(p) =>
       \A w \in Workspaces, a \in Args :
         (w # WorkspaceOf[p] \/ a \notin touched[p]) =>
            file'.entries[w][a] = file.entries[w][a]]_file

(* A file in a schema this version does not know is left alone, and one it *)
(* wrote is whole at every moment, whenever the process dies.              *)
NeverTorn == [][file'.readable = file.readable]_file

(* After a restart or a failed reload the panel shows what the user had    *)
(* chosen where the manifest still allows it, and the manifest's own       *)
(* default everywhere else, even where the default has changed meanwhile.  *)
ReturnsAsChosen ==
  [][\A p \in Processes, m \in Manifests :
       (InfoLoaded(p, m) /\ manifest[p] = {} /\ certain[WorkspaceOf[p]])
         => \A a \in Args : m[a].allowed # {} =>
              prefs'[p][a] = IF chosen[WorkspaceOf[p]][a] \in m[a].allowed
                             THEN chosen[WorkspaceOf[p]][a] ELSE m[a].default]_manifest

(* A change is saved in the end: a failed save is tried again, without the *)
(* user doing anything, unless the process ends or the file is unreadable. *)
ChangesAreSaved ==
  \A p \in Processes :
    (p \in up /\ Pending(p)) ~> (p \notin up \/ ~Pending(p) \/ ~file.readable \/ ~working)

=============================================================================
