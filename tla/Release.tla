------------------------------- MODULE Release -------------------------------
(***************************************************************************)
(* The automation of the project: `cargo xtask` builds, archives, hashes   *)
(* and signs a release into target/dist, renders a Homebrew formula from   *)
(* the checksums found there.  One command runs at a time, as a sequence   *)
(* of child processes and plain file writes; it may fail or be killed      *)
(* between any two of them and be repeated, while the worktree is edited,  *)
(* committed and released in further versions.                             *)
(* Source: xtask/src/main.rs.  The contents of files are values of their   *)
(* own: the digest of an archive is the archive.                           *)
(***************************************************************************)
EXTENDS Naturals

CONSTANTS
  Sources,         \* what the worktree may hold
  Versions, Targets,
  VersionOf,       \* the package version in the manifests of a source
  FormulaTargets,  \* FORMULA_TARGETS
  Nothing, Torn,   \* no file, and a file that was not written to its end
  MaxCommands,     \* bound: commands begun
  MaxChanges       \* bound: edits and commits

Assets == Versions \X Targets

(* release_asset_stem and the file name within a checksum.                 *)
Asset(v, t) == <<v, t>>

Archives ==
  [id : 1..MaxCommands, asset : Assets, binary : Sources, whole : BOOLEAN]
Checksums == [name : Assets, of : Archives]

Orders == [doing : {"release", "formula"}, asset : Versions \X (Targets \union {Nothing}),
           allowDirty : BOOLEAN, sign : BOOLEAN, brew : BOOLEAN]

ASSUME ReleaseAssumption ==
  /\ VersionOf \in [Sources -> Versions]
  /\ FormulaTargets \subseteq Targets
  /\ MaxCommands \in Nat /\ MaxChanges \in Nat
  /\ Nothing \notin Archives \union Checksums \union Orders

VARIABLES
  tree, head,   \* the worktree and what is committed
  binary,       \* target/<target>/release/nextdeck
  archive, sums, bundle, \* target/dist: archives, .sha256 and .sigstore.json files
  formula,      \* the formula that the last command wrote, if any
  order, step,  \* the command that runs and how far it is
  \* history
  commands,     \* how many commands were begun
  changes,
  held,         \* what the worktree held since the command began
  spoiled       \* the archive was replaced and its checksum not yet

fileVars == <<binary, archive, sums, bundle, formula, commands, spoiled>>
userVars == <<tree, head, changes, held>>
releaseVars == <<fileVars, userVars, order, step>>

Formulas ==
  UNION {[version : Versions, sums : [ts -> Archives]] : ts \in SUBSET FormulaTargets}

Steps == {"idle", "asked", "clean", "built", "archived", "hashed", "signed", "sealed", "done"}

ReleaseInit ==
  /\ tree \in Sources /\ head = tree
  /\ binary = [t \in Targets |-> Nothing]
  /\ archive = [a \in Assets |-> Nothing] /\ sums = [a \in Assets |-> Nothing]
  /\ bundle = [a \in Assets |-> [archive |-> Nothing, sums |-> Nothing]]
  /\ formula = Nothing
  /\ order = Nothing /\ step = "idle"
  /\ commands = 0 /\ changes = 0 /\ held = {} /\ spoiled = {}

-----------------------------------------------------------------------------
(* The user, at any time.                                                  *)
EditSource(s) ==
  /\ changes < MaxChanges /\ changes' = changes + 1
  /\ s # tree /\ tree' = s
  /\ held' = IF step = "idle" THEN {} ELSE held \union {s}
  /\ UNCHANGED <<fileVars, head, order, step>>

Dirty == tree # head

Commit ==
  /\ changes < MaxChanges /\ changes' = changes + 1
  /\ Dirty
  /\ head' = tree
  /\ UNCHANGED <<fileVars, tree, held, order, step>>

(* A checksum is copied over that of another asset, as by a download under *)
(* the wrong name; it says what it was made for.                           *)
Misname(a, b) ==
  /\ step = "idle" /\ commands < MaxCommands /\ commands' = commands + 1
  /\ a # b /\ sums[a] \notin {Nothing, Torn} /\ sums[a].name = a
  /\ sums' = [sums EXCEPT ![b] = sums[a]]
  /\ UNCHANGED <<userVars, order, step, binary, archive, bundle, formula, spoiled>>

-----------------------------------------------------------------------------
Starts(doing, a, allow, sign, brew, first) ==
  /\ step = "idle" /\ step' = first
  /\ commands < MaxCommands /\ commands' = commands + 1
  /\ order' = [doing |-> doing, asset |-> a, allowDirty |-> allow, sign |-> sign, brew |-> brew]
  /\ held' = {tree} /\ formula' = Nothing
  /\ UNCHANGED <<binary, archive, sums, bundle, spoiled, tree, head, changes>>

(* tui_release: the version asked for must be that of the package.         *)
StartRelease(v, t, allow, sign, brew) ==
  /\ v = VersionOf[tree]
  /\ Starts("release", Asset(v, t), allow, sign, brew, "asked")

(* tui_homebrew_formula: of any version.                                   *)
StartFormula(v) == Starts("formula", Asset(v, Nothing), TRUE, FALSE, TRUE, "sealed")

Ends ==
  /\ step' = "idle" /\ order' = Nothing /\ held' = {}
  /\ UNCHANGED <<tree, head, changes>>

Goes(from, to) == step = from /\ step' = to /\ UNCHANGED <<userVars, order>>

CheckWorktree_Skipped ==
  Goes("asked", "clean") /\ UNCHANGED fileVars

(* ensure_clean_worktree.                                                  *)
CheckWorktree ==
  /\ Goes("asked", "clean")
  /\ order.allowDirty \/ ~Dirty
  /\ UNCHANGED fileVars

version == order.asset[1]
target == order.asset[2]

(* cargo build, into the target directory of the workspace.                *)
Build ==
  /\ Goes("clean", "built")
  /\ binary' = [binary EXCEPT ![target] = tree]
  /\ UNCHANGED <<archive, sums, bundle, formula, commands, spoiled>>

archiving == <<commands, binary, sums, bundle, formula>>

(* create_release_archive: the old archive is removed and a new one        *)
(* created, which is whole when the binary and the documents are in it and *)
(* the encoder has finished.                                               *)
NewArchive(whole) ==
  [id |-> commands, asset |-> order.asset, binary |-> binary[target], whole |-> whole]

CreateArchive ==
  /\ Goes("built", "archived")
  /\ archive' = [archive EXCEPT ![order.asset] = NewArchive(TRUE)]
  /\ spoiled' = spoiled \union {order.asset}
  /\ UNCHANGED archiving

(* It fails or is killed with the old archive removed, or with a part of   *)
(* the new one written.                                                    *)
CutArchive ==
  /\ step = "built"
  /\ \E cut \in {Nothing, NewArchive(FALSE)} :
       archive' = [archive EXCEPT ![order.asset] = cut]
  /\ spoiled' = spoiled \union {order.asset}
  /\ Ends /\ UNCHANGED archiving

hashing == <<binary, archive, bundle, formula, commands>>

(* write_sha256_sidecar.                                                   *)
WriteChecksum ==
  /\ Goes("archived", "hashed")
  /\ sums' = [sums EXCEPT ![order.asset] = [name |-> order.asset, of |-> archive[order.asset]]]
  /\ spoiled' = spoiled \ {order.asset}
  /\ UNCHANGED hashing

(* fs::write empties the file before it writes it.                         *)
CutChecksum ==
  /\ step = "archived"
  /\ sums' = [sums EXCEPT ![order.asset] = Torn]
  /\ Ends /\ UNCHANGED <<hashing, spoiled>>

signing == <<binary, archive, sums, formula, commands, spoiled>>

(* sign_release_file, of the archive, then of its checksum.                *)
SignArchive ==
  /\ Goes("hashed", "signed") /\ order.sign
  /\ bundle' = [bundle EXCEPT ![order.asset].archive = archive[order.asset]]
  /\ UNCHANGED signing

SignChecksum ==
  /\ Goes("signed", "sealed")
  /\ bundle' = [bundle EXCEPT ![order.asset].sums = sums[order.asset]]
  /\ UNCHANGED signing

SkipSign == Goes("hashed", "sealed") /\ ~order.sign /\ UNCHANGED fileVars

SkipFormula == Goes("sealed", "done") /\ ~order.brew /\ UNCHANGED fileVars

-----------------------------------------------------------------------------
rendering == <<binary, archive, sums, bundle, commands, spoiled>>

Listed(w) == {t \in FormulaTargets : sums[Asset(w, t)] # Nothing}

Renderable_AnyName(w) ==
  Listed(w) # {} /\ \A t \in Listed(w) : sums[Asset(w, t)] # Torn

(* formula_target_checksum and write_formula_os_block: a missing checksum  *)
(* leaves its target out, one that is cut off or made for another asset    *)
(* is an error, and so is a formula without targets.                       *)
Renderable(w) ==
  /\ Listed(w) # {}
  /\ \A t \in Listed(w) :
       sums[Asset(w, t)] # Torn /\ sums[Asset(w, t)].name = Asset(w, t)

FormulaOf(w) == [version |-> w, sums |-> [t \in Listed(w) |-> sums[Asset(w, t)].of]]

(* write_homebrew_formula: the text is complete before the file is touched.*)
WriteFormula ==
  /\ Goes("sealed", "done")
  /\ order.brew /\ Renderable(version)
  /\ formula' = FormulaOf(version)
  /\ UNCHANGED rendering

CutFormula ==
  /\ step = "sealed" /\ order.brew /\ Renderable(version)
  /\ formula' = Torn
  /\ Ends /\ UNCHANGED rendering

-----------------------------------------------------------------------------
(* The command returns without an error.                                   *)
Succeeds == step = "done" /\ Ends /\ UNCHANGED fileVars

(* A child fails, a check refuses or the command is killed: whatever was   *)
(* written stays.                                                          *)
Aborts == step \notin {"idle", "done"} /\ Ends /\ UNCHANGED fileVars

Proceeds ==
  \/ CheckWorktree \/ Build \/ CreateArchive \/ CutArchive \/ WriteChecksum \/ CutChecksum
  \/ SignArchive \/ SignChecksum \/ SkipSign \/ SkipFormula \/ WriteFormula \/ CutFormula

ReleaseNext ==
  \/ \E s \in Sources : EditSource(s)
  \/ Commit
  \/ \E a, b \in Assets : Misname(a, b)
  \/ \E w \in Versions :
       \/ StartFormula(w)
       \/ \E t \in Targets, allow, sign, brew \in BOOLEAN :
            StartRelease(w, t, allow, sign, brew)
  \/ Proceeds
  \/ Succeeds
  \/ Aborts

ReleaseSpec == ReleaseInit /\ [][ReleaseNext]_releaseVars

-----------------------------------------------------------------------------
BundleTypeOK ==
  bundle \in [Assets -> [archive : Archives \union {Nothing},
                         sums : Checksums \union {Nothing, Torn}]]

FilesTypeOK ==
  /\ binary \in [Targets -> Sources \union {Nothing}]
  /\ archive \in [Assets -> Archives \union {Nothing}]
  /\ sums \in [Assets -> Checksums \union {Nothing, Torn}]
  /\ BundleTypeOK
  /\ formula \in Formulas \union {Nothing, Torn}

ReleaseTypeOK ==
  /\ tree \in Sources /\ head \in Sources
  /\ FilesTypeOK
  /\ step \in Steps /\ order \in Orders \union {Nothing} /\ (order = Nothing <=> step = "idle")
  /\ commands \in 0..MaxCommands /\ changes \in 0..MaxChanges
  /\ held \subseteq Sources /\ spoiled \subseteq Assets

Readable(f) == f \notin {Nothing, Torn}

(* Whatever fails or is killed on the way, a checksum is never that of an  *)
(* archive that was not finished, and no formula sends its users to an     *)
(* asset of another version or target.                                     *)
OnlyWholeIsNamed ==
  /\ \A a \in Assets :
       Readable(sums[a]) => sums[a].of.whole /\ sums[a].of.asset = sums[a].name
  /\ Readable(formula) =>
       \A t \in DOMAIN formula.sums :
         /\ formula.sums[t].whole
         /\ formula.sums[t].asset = Asset(formula.version, t)

(* A checksum that is in its place belongs to the archive beside it, from  *)
(* one release to the next; the exception is an archive that was replaced  *)
(* by a release that did not get as far as the new checksum.               *)
ChecksumFitsArchive ==
  \A a \in Assets \ spoiled :
    Readable(sums[a]) /\ sums[a].name = a => sums[a].of = archive[a]

(* Nothing that is published beside an archive is about another one: the   *)
(* checksum and the formula, over releases that fail, die and are begun    *)
(* again.                                                                  *)
ArtifactsInv == OnlyWholeIsNamed /\ ChecksumFitsArchive

(* A release that reports success has left the archive it built, whole,    *)
(* with its checksum, with the signatures of both if it was to sign, and   *)
(* with the formula naming it.  The program in it is of a source that the  *)
(* worktree held during the command, however it was edited and whatever an *)
(* earlier one had built; and if it held only one, of that and its version *)
(* and committed, if that was asked for.                                   *)
ReleaseIsTrue ==
  step = "done" /\ order.doing = "release" =>
    LET a == order.asset IN
    /\ archive[a] # Nothing /\ archive[a].id = commands
    /\ archive[a].whole /\ sums[a] = [name |-> a, of |-> archive[a]]
    /\ order.sign => bundle[a] = [archive |-> archive[a], sums |-> sums[a]]
    /\ (order.brew /\ target \in FormulaTargets) => formula.sums[target] = archive[a]
    /\ archive[a].binary \in held
    /\ held = {tree} => VersionOf[tree] = version /\ (~order.allowDirty => tree = head)

(* A formula just written agrees with every archive it names that has its  *)
(* checksum.                                                               *)
FormulaIsTrue ==
  step = "done" /\ order.brew =>
    /\ formula.version = version /\ DOMAIN formula.sums # {}
    /\ \A t \in DOMAIN formula.sums :
         Asset(version, t) \notin spoiled => formula.sums[t] = archive[Asset(version, t)]

-----------------------------------------------------------------------------
(* Not guaranteed.  A signature beside an archive is that of the archive:  *)
(* a release with --skip-sign leaves the old one.                          *)
BundleFitsArchive ==
  \A a \in Assets : bundle[a].archive # Nothing /\ archive[a] # Nothing /\ step = "idle"
    => bundle[a].archive = archive[a]
=============================================================================
