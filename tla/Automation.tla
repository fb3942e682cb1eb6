------------------------------ MODULE Automation -----------------------------
(***************************************************************************)
(* The commands of `cargo xtask` that leave something on the developer's   *)
(* machine beside a release (module Release): the helper packaged for      *)
(* other projects and the program installed.  They share the worktree with *)
(* a release and none of its files, so that either is checked in every     *)
(* state of its own while the other rests.                                 *)
(* Source: xtask/src/main.rs.                                              *)
(***************************************************************************)
EXTENDS Release

VARIABLES
  \* target/package-verify/nextdeck-helper/package, by version
  crates,     \* nextdeck-helper-<version>.crate: packages that were verified
  unpacked,   \* nextdeck-helper-<version>: what cargo unpacks to verify it
  local,      \* target/local-publish/nextdeck-helper-<version>, by version
  installed,  \* the program in the directory of CARGO_INSTALL_ROOT or CARGO_HOME
  elsewhere,  \* cargo is configured to install to another directory
  onPath,     \* what PATH resolves `nextdeck` to: "installed", "other" or "none"
  task,       \* the command that runs and how far it is
  expected,   \* the version that package_crate has read from Cargo.toml
  dirtyToo,   \* its --allow-dirty
  \* history
  package,    \* the source that cargo packaged for the command
  trees       \* what the worktree held since the command began

packageVars == <<crates, unpacked, local, expected, package>>
installVars == <<installed, elsewhere, onPath>>
taskVars == <<packageVars, installVars, task, dirtyToo, trees>>

Tasks == {"none", "package", "versioned", "packaging", "packaged", "checked", "copying",
          "copied", "published", "install", "installing", "verified"}

TasksInit ==
  /\ crates = {} /\ unpacked = [v \in Versions |-> Nothing]
  /\ local = [v \in Versions |-> Nothing]
  /\ installed = Nothing /\ elsewhere = FALSE /\ onPath = "installed"
  /\ task = "none" /\ expected = Nothing /\ dirtyToo = FALSE
  /\ package = Nothing /\ trees = {}

-----------------------------------------------------------------------------
(* The user edits or commits at any time, and changes the configuration of *)
(* cargo and of the shell between two commands.                            *)
ChangeWorktree ==
  /\ Commit \/ \E s \in Sources : EditSource(s)
  /\ trees' = IF task = "none" THEN {} ELSE trees \union {tree'}
  /\ UNCHANGED <<packageVars, installVars, task, dirtyToo>>

Configure ==
  /\ task = "none"
  /\ elsewhere' \in BOOLEAN /\ onPath' \in {"installed", "other", "none"}
  /\ UNCHANGED <<packageVars, installed, task, dirtyToo, trees>>

Begin(t, allow) ==
  /\ task = "none" /\ task' = t
  /\ dirtyToo' = allow /\ trees' = {tree}
  /\ UNCHANGED <<packageVars, installVars>>

Does(from, to) == task = from /\ task' = to /\ UNCHANGED <<elsewhere, onPath, dirtyToo, trees>>

(* package_crate reads the version first and fixes by it what it will look *)
(* for when cargo is done.                                                 *)
ReadVersion ==
  /\ Does("package", "versioned")
  /\ expected' = VersionOf[tree]
  /\ UNCHANGED <<crates, unpacked, local, package, installed>>

(* cargo package refuses a dirty worktree, reads the version itself, puts  *)
(* the unpacked package in the place of an earlier one of that version and *)
(* has its .crate file in place when it is verified.                       *)
BeginPackage ==
  /\ Does("versioned", "packaging")
  /\ dirtyToo \/ ~Dirty
  /\ package' = tree
  /\ unpacked' = [unpacked EXCEPT ![VersionOf[tree]] = Torn]
  /\ UNCHANGED <<crates, local, expected, installed>>

FinishPackage ==
  /\ Does("packaging", "packaged")
  /\ unpacked' = [unpacked EXCEPT ![VersionOf[package]] = package]
  /\ crates' = crates \union {VersionOf[package]}
  /\ UNCHANGED <<local, expected, package, installed>>

(* The file and the directory looked for must exist, of this or of an      *)
(* earlier command.                                                        *)
CheckPackage ==
  /\ Does("packaged", "checked")
  /\ expected \in crates /\ unpacked[expected] # Nothing
  /\ UNCHANGED <<packageVars, installed>>

(* helper_publish_local: the directory of this version goes, copy_dir      *)
(* fills a new one, and a project that depends on it is tested.            *)
RemoveLocal ==
  /\ Does("checked", "copying")
  /\ local' = [local EXCEPT ![expected] = Torn]
  /\ UNCHANGED <<crates, unpacked, expected, package, installed>>

CopyDir ==
  /\ Does("copying", "copied")
  /\ local' = [local EXCEPT ![expected] = unpacked[expected]]
  /\ UNCHANGED <<crates, unpacked, expected, package, installed>>

SmokeTest == Does("copied", "published") /\ UNCHANGED <<packageVars, installed>>

(* install_tui_workspace and verify_local_install.                         *)
CargoInstall ==
  /\ Does("install", "installing")
  /\ installed' = IF elsewhere THEN installed ELSE tree
  /\ UNCHANGED packageVars

VerifyInstall ==
  /\ Does("installing", "verified")
  /\ installed # Nothing /\ onPath = "installed"
  /\ UNCHANGED <<packageVars, installed>>

(* The command returns, fails or is killed.                                *)
EndTask ==
  /\ task # "none" /\ task' = "none"
  /\ dirtyToo' = FALSE /\ trees' = {} /\ package' = Nothing /\ expected' = Nothing
  /\ UNCHANGED <<crates, unpacked, local, installVars>>

TasksNext ==
  \/ ChangeWorktree
  \/ /\ \/ Configure \/ Begin("install", TRUE) \/ \E allow \in BOOLEAN : Begin("package", allow)
        \/ ReadVersion \/ BeginPackage \/ FinishPackage \/ CheckPackage
        \/ RemoveLocal \/ CopyDir \/ SmokeTest
        \/ CargoInstall \/ VerifyInstall \/ EndTask
     /\ UNCHANGED releaseVars

-----------------------------------------------------------------------------
TasksRest == TasksInit
ReleaseRests == commands = 0

AutomationInit == ReleaseInit /\ TasksInit

AutomationNext ==
  \/ TasksRest /\ ReleaseNext /\ UNCHANGED taskVars
  \/ ReleaseRests /\ TasksNext

AutomationSpec == AutomationInit /\ [][AutomationNext]_<<releaseVars, taskVars>>

-----------------------------------------------------------------------------
TasksTypeOK ==
  /\ crates \subseteq Versions
  /\ unpacked \in [Versions -> Sources \union {Nothing, Torn}]
  /\ local \in [Versions -> Sources \union {Nothing, Torn}]
  /\ installed \in Sources \union {Nothing}
  /\ elsewhere \in BOOLEAN /\ onPath \in {"installed", "other", "none"}
  /\ task \in Tasks /\ dirtyToo \in BOOLEAN
  /\ expected \in Versions \union {Nothing} /\ package \in Sources \union {Nothing}
  /\ trees \subseteq Sources

(* The helper offered to other projects is there, and is the whole of what *)
(* this command had cargo verify, edited or not, unless the edit was of    *)
(* the version itself (LocalIsPackaged).  Over a worktree that nobody      *)
(* edits it is that source, in the directory of its version and committed, *)
(* if that was asked for, whatever an earlier command left there.          *)
LocalIsTrue ==
  task = "published" =>
    /\ local[expected] # Nothing /\ package \in trees
    /\ VersionOf[package] = expected => local[expected] = package
    /\ trees = {tree} =>
         local[expected] = tree /\ VersionOf[tree] = expected /\ (~dirtyToo => tree = head)

(* The program that the user's shell finds is one just installed, of a     *)
(* source that the worktree held meanwhile; not so if cargo installs       *)
(* elsewhere and an old one lies where it is expected.                     *)
InstallIsTrue ==
  task = "verified" =>
    /\ onPath = "installed" /\ installed # Nothing
    /\ ~elsewhere => installed \in trees

(* A command that reports success has done what it says.                   *)
SuccessIsTrue ==
  ReleaseTypeOK /\ TasksTypeOK /\ ReleaseIsTrue /\ FormulaIsTrue /\ LocalIsTrue /\ InstallIsTrue

-----------------------------------------------------------------------------
(* Not guaranteed.  What is published is what cargo verified: if the       *)
(* version is edited between its two readings, package_crate takes the     *)
(* directory that an earlier command left, whole or cut off.               *)
LocalIsPackaged == task = "published" => local[expected] = package

(* Not guaranteed.  A package offered to other projects is whole at rest:  *)
(* the directory is filled in place.                                       *)
LocalIsWhole == task = "none" => \A v \in Versions : local[v] # Torn
=============================================================================
