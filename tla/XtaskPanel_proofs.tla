-------------------------- MODULE XtaskPanel_proofs --------------------------
(***************************************************************************)
(* The xtask commands: the panel that loads those of a project and runs    *)
(* them, and the ones of this project, which release and install it.       *)
(***************************************************************************)
EXTENDS XtaskPanel, Automation, NaturalsInduction, WellFoundedInduction, TLAPS

-----------------------------------------------------------------------------
(***************************************************************************)
(* The automation of this project: what its commands promise, for any      *)
(* number of versions, targets, commands and edits, wherever a command     *)
(* fails or is killed.                                                     *)
(***************************************************************************)
SinceSealed == {"sealed", "done"}
SinceHashed == {"hashed", "signed"} \union SinceSealed
SinceArchived == {"archived"} \union SinceHashed
SinceBuilt == {"built"} \union SinceArchived
SinceClean == {"clean"} \union SinceBuilt

OrderInv ==
  step # "idle" =>
    /\ commands >= 1
    /\ step \in {"asked", "clean", "built", "archived", "hashed", "signed"} =>
         order.doing = "release"
    /\ order.doing = "release" => order.asset \in Assets

(* What a release has done by the step that it has reached.                *)
ProgressInv ==
  step # "idle" /\ order.doing = "release" =>
    LET a == order.asset IN
    /\ tree \in held
    /\ held = {tree} => VersionOf[tree] = version
    /\ step \in SinceClean /\ held = {tree} => order.allowDirty \/ tree = head
    /\ step \in SinceBuilt => binary[target] \in held
    /\ step \in SinceArchived => archive[a] = NewArchive(TRUE)
    /\ step \in SinceHashed => sums[a] = [name |-> a, of |-> archive[a]]
    /\ step = "signed" => order.sign /\ bundle[a].archive = archive[a]
    /\ step \in SinceSealed /\ order.sign => bundle[a] = [archive |-> archive[a], sums |-> sums[a]]
    /\ step = "done" /\ order.brew /\ target \in FormulaTargets => formula.sums[target] = archive[a]

IInv == ReleaseTypeOK /\ OrderInv /\ ProgressInv /\ ArtifactsInv /\ FormulaIsTrue

-----------------------------------------------------------------------------
LEMMA InitHolds == ReleaseInit => IInv
<1> SUFFICES ASSUME ReleaseInit PROVE IInv
  OBVIOUS
<1>1. FilesTypeOK
  BY DEF ReleaseInit, FilesTypeOK, BundleTypeOK
<1>2. ReleaseTypeOK
  <2>1. held \subseteq Sources /\ spoiled \subseteq Assets /\ order \in Orders \union {Nothing}
        /\ (order = Nothing <=> step = "idle") /\ step \in Steps
    BY Zenon DEF ReleaseInit, Steps
  <2>2. commands \in 0..MaxCommands /\ changes \in 0..MaxChanges /\ tree \in Sources /\ head \in Sources
    BY ReleaseAssumption DEF ReleaseInit
  <2> QED
    BY <1>1, <2>1, <2>2 DEF ReleaseTypeOK
<1> QED
  BY <1>2 DEF ReleaseInit, IInv, OrderInv, ProgressInv, ArtifactsInv, OnlyWholeIsNamed, ChecksumFitsArchive,
     FormulaIsTrue, Readable

LEMMA FilesStay ==
  ASSUME FilesTypeOK, UNCHANGED <<binary, archive, sums, bundle, formula>>
  PROVE  FilesTypeOK'
BY DEF FilesTypeOK, BundleTypeOK

(* Nothing on disk changes and the command, if any, stays where it is.     *)
LEMMA UserPreserves ==
  ASSUME IInv, (\E s \in Sources : EditSource(s)) \/ Commit
  PROVE  IInv'
<1> USE ReleaseAssumption DEF IInv, userVars, fileVars, EditSource, Commit
<1>1. ReleaseTypeOK'
  <2>1. held' \subseteq Sources
    BY DEF ReleaseTypeOK
  <2>2. tree' \in Sources /\ head' \in Sources /\ changes' \in 0..MaxChanges
    BY DEF ReleaseTypeOK
  <2> QED
    BY <2>1, <2>2, FilesStay DEF ReleaseTypeOK
<1>2. OrderInv' /\ ProgressInv'
  <2>1. OrderInv'
    BY DEF OrderInv
  <2>2. ASSUME NEW s \in Sources, EditSource(s), step # "idle", order.doing = "release"
        PROVE  /\ tree' \in held' /\ held' # {tree'}
               /\ step \in SinceBuilt => binary[target] \in held'
    BY <2>2 DEF ProgressInv
  <2>f. /\ UNCHANGED <<binary, archive, sums, bundle, formula, order, step>>
        /\ UNCHANGED <<NewArchive(TRUE), target, version>>
    BY DEF target, version, NewArchive
  <2>3. CASE \E s \in Sources : EditSource(s)
    BY <2>1, <2>2, <2>3, <2>f DEF ProgressInv
  <2>4. CASE Commit
    BY <2>1, <2>4, <2>f DEF ProgressInv, Dirty
  <2> QED
    BY <2>1, <2>3, <2>4
<1>3. ArtifactsInv' /\ FormulaIsTrue'
  BY DEF ArtifactsInv, OnlyWholeIsNamed, ChecksumFitsArchive, FormulaIsTrue, version
<1> QED
  BY <1>1, <1>2, <1>3

LEMMA MisnamePreserves ==
  ASSUME IInv, NEW a \in Assets, NEW b \in Assets, Misname(a, b)
  PROVE  IInv'
<1> USE ReleaseAssumption DEF IInv, userVars, Misname
<1>1. sums[a] \in Checksums
  BY DEF ReleaseTypeOK, FilesTypeOK
<1>2. ReleaseTypeOK'
  <2>1. FilesTypeOK'
    BY <1>1 DEF ReleaseTypeOK, FilesTypeOK, BundleTypeOK
  <2> QED
    BY <2>1 DEF ReleaseTypeOK
<1>3. OrderInv' /\ ProgressInv' /\ FormulaIsTrue'
  BY DEF OrderInv, ProgressInv, FormulaIsTrue
<1>4. ArtifactsInv'
  BY DEF ReleaseTypeOK, ArtifactsInv, OnlyWholeIsNamed, ChecksumFitsArchive, Readable
<1> QED
  BY <1>2, <1>3, <1>4

LEMMA StartPreserves ==
  ASSUME IInv, NEW w \in Versions, NEW t, NEW allow \in BOOLEAN, NEW sign \in BOOLEAN, NEW brew \in BOOLEAN,
         StartFormula(w) \/ (t \in Targets /\ StartRelease(w, t, allow, sign, brew))
  PROVE  IInv'
<1> USE ReleaseAssumption DEF IInv, Starts, StartFormula, StartRelease, Asset
<1>1. ReleaseTypeOK'
  <2>1. FilesTypeOK'
    BY DEF ReleaseTypeOK, FilesTypeOK, BundleTypeOK
  <2>2. step' \in Steps /\ step' # "idle" /\ order' \in Orders
    <3>1. CASE StartFormula(w)
      BY <3>1 DEF Steps, Orders
    <3>2. CASE t \in Targets /\ StartRelease(w, t, allow, sign, brew)
      BY <3>2 DEF Steps, Orders
    <3> QED
      BY <3>1, <3>2
  <2>3. held' \subseteq Sources
    BY DEF ReleaseTypeOK
  <2>4. commands' \in 0..MaxCommands
    BY DEF ReleaseTypeOK
  <2> QED
    BY <2>1, <2>2, <2>3, <2>4 DEF ReleaseTypeOK
<1>2. OrderInv'
  BY DEF ReleaseTypeOK, OrderInv, Assets
<1>3. ProgressInv'
  <2>1. CASE StartFormula(w)
    BY <2>1 DEF ProgressInv
  <2>2. CASE t \in Targets /\ StartRelease(w, t, allow, sign, brew)
    <3>1. step' = "asked" /\ order'.asset = <<w, t>> /\ VersionOf[tree'] = w
      BY <2>2 DEF StartRelease
    <3> QED
      BY <3>1 DEF ProgressInv, version, SinceClean, SinceBuilt, SinceArchived, SinceHashed, SinceSealed
  <2> QED
    BY <2>1, <2>2
<1>4. ArtifactsInv' /\ FormulaIsTrue'
  BY DEF ArtifactsInv, OnlyWholeIsNamed, ChecksumFitsArchive, FormulaIsTrue, Readable
<1> QED
  BY <1>1, <1>2, <1>3, <1>4

(* Where a command may end, it leaves what it found but for the files that *)
(* it was writing.                                                         *)
LEMMA EndPreserves ==
  ASSUME IInv, Succeeds \/ Aborts \/ CutArchive \/ CutChecksum \/ CutFormula
  PROVE  IInv'
<1> USE ReleaseAssumption DEF IInv, Ends
<1>1. OrderInv' /\ ProgressInv' /\ FormulaIsTrue'
  BY DEF OrderInv, ProgressInv, FormulaIsTrue, Succeeds, Aborts, CutArchive, CutChecksum, CutFormula
<1>2. CASE Succeeds \/ Aborts
  BY <1>1, <1>2, FilesStay DEF Succeeds, Aborts, fileVars, ReleaseTypeOK, Steps,
     ArtifactsInv, OnlyWholeIsNamed, ChecksumFitsArchive
<1>3. CASE CutArchive
  <2>1. order.asset \in Assets /\ NewArchive(FALSE) \in Archives
    BY <1>3 DEF CutArchive, ReleaseTypeOK, OrderInv, ProgressInv, NewArchive, Archives, SinceBuilt
  <2>2. ReleaseTypeOK'
    <3>1. FilesTypeOK'
      <4>1. PICK cut \in {Nothing, NewArchive(FALSE)} :
              archive' = [archive EXCEPT ![order.asset] = cut]
        BY <1>3 DEF CutArchive
      <4>2. archive' \in [Assets -> Archives \union {Nothing}]
        BY <2>1, <4>1 DEF ReleaseTypeOK, FilesTypeOK
      <4> QED
        BY <1>3, <4>2 DEF CutArchive, archiving, ReleaseTypeOK, FilesTypeOK, BundleTypeOK
    <3> QED
      BY <1>3, <2>1, <3>1 DEF CutArchive, archiving, ReleaseTypeOK, Steps
  <2>3. ArtifactsInv'
    BY <1>3, <2>1 DEF CutArchive, archiving, ReleaseTypeOK,
       ArtifactsInv, OnlyWholeIsNamed, ChecksumFitsArchive
  <2> QED
    BY <1>1, <2>2, <2>3
<1>4. CASE CutChecksum
  <2>1. ReleaseTypeOK'
    <3>1. FilesTypeOK'
      BY <1>4 DEF CutChecksum, hashing, ReleaseTypeOK, FilesTypeOK, BundleTypeOK
    <3> QED
      BY <1>4, <3>1 DEF CutChecksum, hashing, ReleaseTypeOK, Steps
  <2>2. ArtifactsInv'
    BY <1>4 DEF CutChecksum, hashing, ReleaseTypeOK,
       ArtifactsInv, OnlyWholeIsNamed, ChecksumFitsArchive, Readable
  <2> QED
    BY <1>1, <2>1, <2>2
<1>5. CASE CutFormula
  <2>1. ReleaseTypeOK'
    <3>1. FilesTypeOK'
      BY <1>5 DEF CutFormula, rendering, ReleaseTypeOK, FilesTypeOK, BundleTypeOK
    <3> QED
      BY <1>5, <3>1 DEF CutFormula, rendering, ReleaseTypeOK, Steps
  <2>2. ArtifactsInv'
    BY <1>5 DEF CutFormula, rendering,
       ArtifactsInv, OnlyWholeIsNamed, ChecksumFitsArchive, Readable
  <2> QED
    BY <1>1, <2>1, <2>2
<1> QED
  BY <1>2, <1>3, <1>4, <1>5

-----------------------------------------------------------------------------
LEMMA CheckPreserves ==
  ASSUME IInv, CheckWorktree
  PROVE  IInv'
<1> USE DEF IInv, Goes, CheckWorktree, userVars, fileVars
<1>1. ReleaseTypeOK'
  BY FilesStay DEF ReleaseTypeOK, Steps
<1>2. OrderInv'
  BY DEF OrderInv
<1>3. ProgressInv'
  BY DEF ProgressInv, target, version, NewArchive, Dirty,
     SinceClean, SinceBuilt, SinceArchived, SinceHashed, SinceSealed
<1>4. ArtifactsInv' /\ FormulaIsTrue'
  BY DEF ArtifactsInv, OnlyWholeIsNamed, ChecksumFitsArchive, FormulaIsTrue
<1> QED
  BY <1>1, <1>2, <1>3, <1>4

LEMMA BuildPreserves ==
  ASSUME IInv, Build
  PROVE  IInv'
<1> USE DEF IInv, Goes, Build, userVars
<1>1. target \in Targets
  BY DEF OrderInv, Assets, target
<1>2. ReleaseTypeOK'
  <2>1. FilesTypeOK'
    BY <1>1 DEF ReleaseTypeOK, FilesTypeOK, BundleTypeOK
  <2> QED
    BY <2>1 DEF ReleaseTypeOK, Steps
<1>3. OrderInv'
  BY DEF OrderInv
<1>4. binary'[target] = tree /\ tree \in Sources
  BY <1>1 DEF ReleaseTypeOK, FilesTypeOK
<1>5. ProgressInv'
  BY <1>4 DEF ProgressInv, target, version,
     SinceClean, SinceBuilt, SinceArchived, SinceHashed, SinceSealed
<1>6. ArtifactsInv' /\ FormulaIsTrue'
  BY DEF ArtifactsInv, OnlyWholeIsNamed, ChecksumFitsArchive, FormulaIsTrue
<1> QED
  BY <1>2, <1>3, <1>5, <1>6

LEMMA ArchivePreserves ==
  ASSUME IInv, CreateArchive
  PROVE  IInv'
<1> USE DEF IInv, Goes, CreateArchive, userVars, archiving
<1>1. order.asset \in Assets /\ order.doing = "release" /\ NewArchive(TRUE) \in Archives
  BY DEF ReleaseTypeOK, OrderInv, ProgressInv, NewArchive, Archives, SinceBuilt
<1>2. ReleaseTypeOK'
  <2>1. FilesTypeOK'
    BY <1>1 DEF ReleaseTypeOK, FilesTypeOK, BundleTypeOK
  <2> QED
    BY <2>1, <1>1 DEF ReleaseTypeOK, Steps
<1>3. OrderInv'
  BY DEF OrderInv
<1>4. archive'[order.asset] = NewArchive(TRUE) /\ NewArchive(TRUE)' = NewArchive(TRUE)
  BY <1>1 DEF ReleaseTypeOK, FilesTypeOK, NewArchive, target
<1>5. ProgressInv'
  BY <1>4 DEF ProgressInv, target, version,
     SinceClean, SinceBuilt, SinceArchived, SinceHashed, SinceSealed
<1>6. FormulaIsTrue'
  BY DEF FormulaIsTrue
<1>7. ArtifactsInv'
  BY <1>1 DEF ReleaseTypeOK, FilesTypeOK, ArtifactsInv, OnlyWholeIsNamed, ChecksumFitsArchive
<1> QED
  BY <1>2, <1>3, <1>5, <1>6, <1>7

LEMMA ChecksumPreserves ==
  ASSUME IInv, WriteChecksum
  PROVE  IInv'
<1> USE DEF IInv, Goes, WriteChecksum, userVars, hashing
<1> DEFINE a == order.asset
           c == [name |-> a, of |-> archive[a]]
<1>1. a \in Assets /\ order.doing = "release" /\ archive[a] = NewArchive(TRUE)
      /\ NewArchive(TRUE) \in Archives
  BY DEF ReleaseTypeOK, OrderInv, ProgressInv, NewArchive, Archives, SinceBuilt, SinceArchived
<1>2. c \in Checksums /\ c.of.whole /\ c.of.asset = a /\ c.name = a /\ c.of = archive[a]
  BY <1>1 DEF Checksums, NewArchive
<1>3. sums' = [sums EXCEPT ![a] = c] /\ sums'[a] = c /\ \A b \in Assets \ {a} : sums'[b] = sums[b]
  BY <1>1 DEF ReleaseTypeOK, FilesTypeOK
<1> HIDE DEF c
<1>4. ReleaseTypeOK'
  <2>1. FilesTypeOK'
    BY <1>1, <1>2, <1>3 DEF ReleaseTypeOK, FilesTypeOK, BundleTypeOK
  <2> QED
    BY <2>1 DEF ReleaseTypeOK, Steps
<1>5. OrderInv'
  BY DEF OrderInv
<1>6. ProgressInv'
  BY DEF ProgressInv, target, version, NewArchive, ReleaseTypeOK, FilesTypeOK, OrderInv,
     SinceClean, SinceBuilt, SinceArchived, SinceHashed, SinceSealed
<1>7. ArtifactsInv'
  <2>1. ASSUME NEW b \in Assets, Readable(sums'[b])
        PROVE  /\ sums'[b].of.whole /\ sums'[b].of.asset = sums'[b].name
               /\ b \notin spoiled' /\ sums'[b].name = b => sums'[b].of = archive[b]
    <3>1. CASE b = a
      BY <3>1, <1>2, <1>3
    <3>2. CASE b # a
      BY <2>1, <3>2, <1>3 DEF ArtifactsInv, OnlyWholeIsNamed, ChecksumFitsArchive
    <3> QED
      BY <3>1, <3>2
  <2> QED
    BY <2>1 DEF ArtifactsInv, OnlyWholeIsNamed, ChecksumFitsArchive, Readable
<1>8. FormulaIsTrue'
  BY DEF FormulaIsTrue
<1> QED
  BY <1>4, <1>5, <1>6, <1>7, <1>8

LEMMA SignPreserves ==
  ASSUME IInv, SignArchive \/ SignChecksum
  PROVE  IInv'
<1> USE DEF IInv, Goes, SignArchive, SignChecksum, userVars, signing
<1> DEFINE a == order.asset
<1>1. a \in Assets /\ order.doing = "release"
  BY DEF OrderInv
<1>2. archive[a] \in Archives \union {Nothing} /\ sums[a] \in Checksums \union {Nothing, Torn}
      /\ bundle[a] \in [archive : Archives \union {Nothing}, sums : Checksums \union {Nothing, Torn}]
  BY <1>1 DEF ReleaseTypeOK, FilesTypeOK, BundleTypeOK
<1>3. bundle' \in {[bundle EXCEPT ![a] = [archive |-> archive[a], sums |-> bundle[a].sums]],
                   [bundle EXCEPT ![a] = [archive |-> bundle[a].archive, sums |-> sums[a]]]}
  BY <1>1, <1>2 DEF ReleaseTypeOK, FilesTypeOK, BundleTypeOK
<1>4. ReleaseTypeOK'
  <2>1. BundleTypeOK'
    BY <1>1, <1>2, <1>3 DEF ReleaseTypeOK, FilesTypeOK, BundleTypeOK
  <2>2. FilesTypeOK'
    BY <2>1 DEF ReleaseTypeOK, FilesTypeOK
  <2> QED
    BY <2>2 DEF ReleaseTypeOK, Steps
<1>5. OrderInv'
  BY DEF OrderInv
<1>6. ProgressInv'
  <2>1. CASE SignArchive
    <3>1. bundle'[a].archive = archive[a] /\ order.sign /\ step' = "signed"
      BY <2>1, <1>1, <1>2 DEF ReleaseTypeOK, FilesTypeOK, BundleTypeOK
    <3> QED
      BY <2>1, <3>1 DEF ProgressInv, target, version, NewArchive,
         SinceClean, SinceBuilt, SinceArchived, SinceHashed, SinceSealed
  <2>2. CASE SignChecksum
    <3>1. bundle'[a] = [archive |-> bundle[a].archive, sums |-> sums[a]] /\ step' = "sealed"
      BY <2>2, <1>1, <1>2 DEF ReleaseTypeOK, FilesTypeOK, BundleTypeOK
    <3> QED
      BY <2>2, <3>1 DEF ProgressInv, target, version, NewArchive,
         SinceClean, SinceBuilt, SinceArchived, SinceHashed, SinceSealed
  <2> QED
    BY <2>1, <2>2
<1>7. ArtifactsInv' /\ FormulaIsTrue'
  BY DEF ArtifactsInv, OnlyWholeIsNamed, ChecksumFitsArchive, FormulaIsTrue
<1> QED
  BY <1>4, <1>5, <1>6, <1>7

LEMMA SkipPreserves ==
  ASSUME IInv, SkipSign \/ SkipFormula
  PROVE  IInv'
<1> USE DEF IInv, Goes, SkipSign, SkipFormula, userVars, fileVars
<1>1. ReleaseTypeOK'
  BY FilesStay DEF ReleaseTypeOK, Steps
<1>2. OrderInv'
  BY DEF OrderInv
<1>f. UNCHANGED <<NewArchive(TRUE), target, version>>
  BY DEF target, version, NewArchive
<1>3. ProgressInv'
  <2>1. CASE SkipSign
    BY <2>1, <1>f DEF ProgressInv, SinceClean, SinceBuilt, SinceArchived, SinceHashed, SinceSealed
  <2>2. CASE SkipFormula
    BY <2>2, <1>f DEF ProgressInv, SinceClean, SinceBuilt, SinceArchived, SinceHashed, SinceSealed
  <2> QED
    BY <2>1, <2>2
<1>4. ArtifactsInv' /\ FormulaIsTrue'
  BY DEF ArtifactsInv, OnlyWholeIsNamed, ChecksumFitsArchive, FormulaIsTrue
<1> QED
  BY <1>1, <1>2, <1>3, <1>4

LEMMA FormulaPreserves ==
  ASSUME IInv, WriteFormula
  PROVE  IInv'
<1> USE ReleaseAssumption DEF IInv, Goes, WriteFormula, userVars, rendering
<1> DEFINE ts == Listed(version)
<1>1. version \in Versions /\ order \in Orders
  BY DEF ReleaseTypeOK, Orders, version
<1>2. ASSUME NEW t \in ts
      PROVE  LET a == Asset(version, t) IN
             /\ a \in Assets /\ sums[a] \in Checksums /\ sums[a].name = a
             /\ Readable(sums[a]) /\ sums[a].of.whole /\ sums[a].of.asset = a
             /\ a \notin spoiled => sums[a].of = archive[a]
  <2> DEFINE a == Asset(version, t)
  <2>1. a \in Assets
    BY <1>1, <1>2 DEF Listed, Assets, Asset
  <2>2. sums[a] \notin {Nothing, Torn} /\ sums[a].name = a
    BY <1>2 DEF Renderable, Listed
  <2> QED
    BY <2>1, <2>2 DEF ReleaseTypeOK, FilesTypeOK, ArtifactsInv, OnlyWholeIsNamed, ChecksumFitsArchive, Readable
<1>3. /\ formula' = FormulaOf(version)
      /\ formula'.version = version
      /\ formula'.sums = [t \in ts |-> sums[Asset(version, t)].of]
      /\ DOMAIN formula'.sums = ts /\ ts # {}
  BY DEF FormulaOf, Renderable
<1>4. ReleaseTypeOK'
  <2>1. formula'.sums \in [ts -> Archives] /\ ts \in SUBSET FormulaTargets
    BY <1>2, <1>3 DEF Checksums, Listed
  <2>2. formula' \in [version : Versions, sums : [ts -> Archives]]
    BY <1>1, <1>3, <2>1 DEF FormulaOf
  <2>3. formula' \in Formulas
    BY <2>1, <2>2 DEF Formulas
  <2>4. FilesTypeOK'
    BY <2>3 DEF ReleaseTypeOK, FilesTypeOK, BundleTypeOK
  <2> QED
    BY <2>4 DEF ReleaseTypeOK, Steps
<1>5. OrderInv'
  BY DEF OrderInv
<1>6. ProgressInv'
  <2>1. SUFFICES ASSUME order.doing = "release" PROVE ProgressInv'
    BY DEF ProgressInv
  <2>2. order.asset \in Assets /\ Asset(version, target) = order.asset
    BY <2>1 DEF OrderInv, Assets, Asset, version, target
  <2>3. archive[order.asset] = NewArchive(TRUE) /\ sums[order.asset] = [name |-> order.asset, of |-> archive[order.asset]]
    BY <2>1 DEF ProgressInv, SinceArchived, SinceHashed, SinceSealed
  <2>4. target \in FormulaTargets => formula'.sums[target] = archive[order.asset]
    <3>1. NewArchive(TRUE) \in Archives
      BY <2>1 DEF ReleaseTypeOK, NewArchive, Archives,
         OrderInv, ProgressInv, SinceBuilt, SinceArchived, SinceHashed, SinceSealed
    <3>2. sums[order.asset] \in Checksums
      <4> DEFINE x == archive[order.asset]
      <4>1. x \in Archives
        BY <2>3, <3>1
      <4>2. sums[order.asset] = [name |-> order.asset, of |-> x]
        BY <2>3
      <4> HIDE DEF x
      <4> QED
        BY <2>2, <4>1, <4>2 DEF Checksums
    <3>3. target \in FormulaTargets => target \in ts
      BY <3>2, <2>2 DEF Listed
    <3>4. target \in ts => formula'.sums[target] = sums[order.asset].of
      BY <1>3, <2>2
    <3>5. sums[order.asset].of = archive[order.asset]
      BY <2>3
    <3> QED
      BY <3>3, <3>4, <3>5
  <2> QED
    BY <2>1, <2>4 DEF ProgressInv, target, version, NewArchive,
       SinceClean, SinceBuilt, SinceArchived, SinceHashed, SinceSealed
<1>7. ArtifactsInv'
  BY <1>2, <1>3 DEF ArtifactsInv, OnlyWholeIsNamed, ChecksumFitsArchive
<1>8. FormulaIsTrue'
  BY <1>2, <1>3 DEF FormulaIsTrue, version
<1> QED
  BY <1>4, <1>5, <1>6, <1>7, <1>8

-----------------------------------------------------------------------------
(* Whatever a release or its user does, the worktree holds a source.       *)
LEMMA ReleaseKeepsTree ==
  ASSUME tree \in Sources, ReleaseNext
  PROVE  tree' \in Sources
BY DEF ReleaseNext, EditSource, Commit, Misname, StartFormula, StartRelease, Starts, Proceeds, Goes, Ends,
   CheckWorktree, Build, CreateArchive, CutArchive, WriteChecksum, CutChecksum, SignArchive,
   SignChecksum, SkipSign, SkipFormula, WriteFormula, CutFormula, Succeeds, Aborts, userVars

LEMMA StepPreserves == IInv /\ [ReleaseNext]_releaseVars => IInv'
<1> SUFFICES ASSUME IInv, [ReleaseNext]_releaseVars PROVE IInv'
  OBVIOUS
<1>1. CASE \E s \in Sources : EditSource(s)
  BY <1>1, UserPreserves
<1>2. CASE Commit
  BY <1>2, UserPreserves
<1>3. CASE \E a, b \in Assets : Misname(a, b)
  BY <1>3, MisnamePreserves
<1>4. CASE \E w \in Versions : StartFormula(w)
  BY <1>4, StartPreserves
<1>5. CASE \E w \in Versions, t \in Targets, allow, sign, brew \in BOOLEAN :
             StartRelease(w, t, allow, sign, brew)
  BY <1>5, StartPreserves
<1>6. CASE Proceeds
  BY <1>6, CheckPreserves, BuildPreserves, ArchivePreserves, EndPreserves, ChecksumPreserves,
     SignPreserves, SkipPreserves, FormulaPreserves DEF Proceeds
<1>7. CASE Succeeds \/ Aborts
  BY <1>7, EndPreserves
<1>8. CASE UNCHANGED releaseVars
  <2> USE <1>8 DEF IInv, releaseVars, fileVars, userVars
  <2>1. ReleaseTypeOK' /\ OrderInv' /\ FormulaIsTrue'
    BY FilesStay DEF ReleaseTypeOK, OrderInv, FormulaIsTrue, version
  <2>2. ProgressInv' /\ ArtifactsInv'
    BY DEF ProgressInv, version, target, NewArchive, ArtifactsInv, OnlyWholeIsNamed, ChecksumFitsArchive
  <2> QED
    BY <2>1, <2>2
<1> QED
  BY <1>1, <1>2, <1>3, <1>4, <1>5, <1>6, <1>7, <1>8 DEF ReleaseNext

(* The tasks beside a release touch nothing of it but the worktree, as any *)
(* user may.                                                               *)
LEMMA TasksAreUsers == AutomationNext => [ReleaseNext]_releaseVars
BY DEF AutomationNext, TasksNext, ChangeWorktree, ReleaseNext

LEMMA Invariance == AutomationSpec => []IInv
<1>1. AutomationInit => IInv
  BY InitHolds DEF AutomationInit
<1>2. IInv /\ [AutomationNext]_<<releaseVars, taskVars>> => IInv'
  <2>1. ASSUME IInv, AutomationNext PROVE IInv'
    BY <2>1, StepPreserves, TasksAreUsers
  <2>2. ASSUME IInv, UNCHANGED <<releaseVars, taskVars>> PROVE IInv'
    BY <2>2, StepPreserves
  <2> QED
    BY <2>1, <2>2
<1> QED
  BY <1>1, <1>2, PTL DEF AutomationSpec

(* Nothing in target/dist is about another archive than the one beside it  *)
(* and no formula names an archive that is cut off or another's, wherever  *)
(* earlier releases failed (ArtifactsInv).                                 *)
THEOREM Artifacts == AutomationSpec => []ArtifactsInv
BY Invariance, PTL DEF IInv

-----------------------------------------------------------------------------
(* What the commands beside a release have done by the step they reached.  *)
Checked == {"checked", "copying", "copied", "published"}
Packaged == {"packaged"} \union Checked
Packaging == {"packaging"} \union Packaged

PackageInv ==
  /\ task \in {"versioned"} \union Packaging =>
       expected \in Versions /\ (trees = {tree} => expected = VersionOf[tree])
  /\ task \in Packaging =>
       package \in trees /\ (trees = {tree} => dirtyToo \/ tree = head)
  /\ task \in Packaged => unpacked[VersionOf[package]] = package
  /\ task \in Checked => unpacked[expected] # Nothing
  /\ task \in {"copied", "published"} => local[expected] = unpacked[expected]

InstallInv ==
  /\ task \in {"installing", "verified"} /\ ~elsewhere => installed \in trees
  /\ task = "verified" => installed # Nothing /\ onPath = "installed"

TInv ==
  /\ TasksTypeOK /\ PackageInv /\ InstallInv /\ tree \in Sources
  /\ task # "none" => tree \in trees

LEMMA TasksInitHolds == AutomationInit => TInv
<1> SUFFICES ASSUME AutomationInit PROVE TInv
  OBVIOUS
<1>1. elsewhere \in BOOLEAN /\ dirtyToo \in BOOLEAN
  BY Zenon DEF AutomationInit, TasksInit
<1> QED
  BY <1>1 DEF AutomationInit, TasksInit, ReleaseInit, TInv, TasksTypeOK, PackageInv, InstallInv,
     Tasks, Checked, Packaged, Packaging

(* An edit adds what the worktree now holds to what it has held, so that   *)
(* it has held more than one source.                                       *)
LEMMA WorktreePreserves ==
  ASSUME TInv, ChangeWorktree
  PROVE  TInv'
<1>1. tree' \in Sources
  BY DEF ChangeWorktree, Commit, EditSource, TInv
<1>2. UNCHANGED <<packageVars, installVars, task, dirtyToo>> /\ trees' \subseteq Sources
  BY <1>1 DEF ChangeWorktree, TInv, TasksTypeOK
<1>3. TasksTypeOK'
  BY <1>2 DEF packageVars, installVars, TInv, TasksTypeOK
<1>4. ASSUME task # "none"
      PROVE  /\ trees \subseteq trees' /\ tree' \in trees'
             /\ trees' = {tree'} => /\ tree' = tree /\ trees = {tree}
                                   /\ (tree = head => tree' = head')
  BY <1>4 DEF ChangeWorktree, Commit, EditSource, TInv
<1>5. PackageInv'
  BY <1>2, <1>4 DEF TInv, PackageInv, packageVars, Checked, Packaged, Packaging
<1>6. InstallInv'
  BY <1>2, <1>4 DEF TInv, InstallInv, installVars
<1> QED
  BY <1>1, <1>2, <1>3, <1>4, <1>5, <1>6 DEF TInv

LEMMA BeginPreserves ==
  ASSUME TInv, Configure \/ EndTask
               \/ \E allow \in BOOLEAN : Begin("package", allow) \/ Begin("install", allow),
         tree' = tree
  PROVE  TInv'
<1>1. dirtyToo' \in BOOLEAN
  BY Zenon DEF TInv, TasksTypeOK, Configure, EndTask, Begin
<1> QED
  BY <1>1 DEF packageVars, installVars, TInv, TasksTypeOK, PackageInv, InstallInv, Tasks, Configure,
     EndTask, Begin, Checked, Packaged, Packaging

LEMMA PackagePreserves ==
  ASSUME TInv,
         ReadVersion \/ BeginPackage \/ FinishPackage \/ CheckPackage \/ RemoveLocal \/ CopyDir \/ SmokeTest,
         UNCHANGED <<tree, head>>
  PROVE  TInv'
<1> USE DEF TInv, Does, packageVars
<1>t. trees \subseteq Sources /\ tree \in Sources /\ VersionOf[tree] \in Versions
  BY ReleaseAssumption DEF TasksTypeOK
<1>1. CASE ReadVersion
  <2>1. TasksTypeOK'
    BY <1>1, <1>t DEF ReadVersion, TasksTypeOK, Tasks
  <2>2. PackageInv' /\ InstallInv'
    BY <1>1, <1>t DEF ReadVersion, PackageInv, InstallInv, Checked, Packaged, Packaging
  <2> QED
    BY <1>1, <2>1, <2>2 DEF ReadVersion
<1>2. CASE BeginPackage
  <2>1. TasksTypeOK'
    BY <1>2, <1>t DEF BeginPackage, TasksTypeOK, Tasks
  <2>2. PackageInv' /\ InstallInv'
    BY <1>2, <1>t DEF BeginPackage, Dirty, PackageInv, InstallInv, Checked, Packaged, Packaging
  <2> QED
    BY <1>2, <2>1, <2>2 DEF BeginPackage
<1>3. CASE FinishPackage
  <2>1. package \in Sources /\ VersionOf[package] \in Versions
    BY <1>3, <1>t, ReleaseAssumption DEF FinishPackage, PackageInv, Packaging
  <2>2. TasksTypeOK'
    BY <1>3, <2>1 DEF FinishPackage, TasksTypeOK, Tasks
  <2>3. unpacked'[VersionOf[package]] = package
    BY <1>3, <2>1 DEF FinishPackage, TasksTypeOK
  <2>4. PackageInv' /\ InstallInv'
    BY <1>3, <2>3 DEF FinishPackage, PackageInv, InstallInv, Checked, Packaged, Packaging
  <2> QED
    BY <1>3, <2>2, <2>4 DEF FinishPackage
<1>4. CASE CheckPackage \/ SmokeTest
  <2>1. TasksTypeOK'
    BY <1>4 DEF CheckPackage, SmokeTest, TasksTypeOK, Tasks
  <2>2. PackageInv' /\ InstallInv'
    BY <1>4 DEF CheckPackage, SmokeTest, PackageInv, InstallInv, Checked, Packaged, Packaging
  <2> QED
    BY <1>4, <2>1, <2>2 DEF CheckPackage, SmokeTest
<1>5. CASE RemoveLocal \/ CopyDir
  <2>1. expected \in Versions
    BY <1>5 DEF RemoveLocal, CopyDir, PackageInv, Checked, Packaged, Packaging
  <2>2. TasksTypeOK'
    BY <1>5, <2>1 DEF RemoveLocal, CopyDir, TasksTypeOK, Tasks
  <2>3. CopyDir => local'[expected] = unpacked[expected]
    BY <2>1 DEF CopyDir, TasksTypeOK
  <2>4. PackageInv' /\ InstallInv'
    BY <1>5, <2>3 DEF RemoveLocal, CopyDir, PackageInv, InstallInv, Checked, Packaged, Packaging
  <2> QED
    BY <1>5, <2>2, <2>4 DEF RemoveLocal, CopyDir
<1> QED
  BY <1>1, <1>2, <1>3, <1>4, <1>5

LEMMA InstallPreserves ==
  ASSUME TInv, CargoInstall \/ VerifyInstall, UNCHANGED <<tree, head>>
  PROVE  TInv'
<1> USE DEF TInv, Does, packageVars
<1>1. TasksTypeOK'
  BY DEF CargoInstall, VerifyInstall, TasksTypeOK, Tasks
<1>2. PackageInv' /\ InstallInv'
  BY DEF CargoInstall, VerifyInstall, PackageInv, InstallInv, Checked, Packaged, Packaging
<1> QED
  BY <1>1, <1>2 DEF CargoInstall, VerifyInstall

LEMMA TasksInvariance == AutomationSpec => []TInv
<1>1. TInv /\ [AutomationNext]_<<releaseVars, taskVars>> => TInv'
  <2> SUFFICES ASSUME TInv, [AutomationNext]_<<releaseVars, taskVars>> PROVE TInv'
    OBVIOUS
  <2> USE DEF taskVars, packageVars, installVars
  <2>0. (UNCHANGED taskVars /\ task = "none" /\ tree' \in Sources) => TInv'
    BY DEF TInv, TasksTypeOK, PackageInv, InstallInv, Checked, Packaged, Packaging
  <2>1. CASE TasksRest /\ ReleaseNext /\ UNCHANGED taskVars
    <3>1. tree' \in Sources
      BY <2>1, ReleaseKeepsTree DEF TInv
    <3>2. task = "none"
      BY <2>1 DEF TasksRest, TasksInit
    <3> QED
      BY <2>0, <2>1, <3>1, <3>2
  <2>2. CASE TasksNext
    <3>1. UNCHANGED releaseVars => UNCHANGED <<tree, head>>
      BY DEF releaseVars, userVars
    <3> QED
      BY <2>2, <3>1, WorktreePreserves, BeginPreserves, PackagePreserves, InstallPreserves DEF TasksNext
  <2>3. CASE UNCHANGED <<releaseVars, taskVars>>
    BY <2>3 DEF releaseVars, userVars, TInv, TasksTypeOK, PackageInv, InstallInv,
       Checked, Packaged, Packaging
  <2> QED
    BY <2>1, <2>2, <2>3 DEF AutomationNext
<1> QED
  BY <1>1, TasksInitHolds, PTL DEF AutomationSpec

(* A release, a formula, a helper published locally and an installation    *)
(* that report success have done what they say (SuccessIsTrue).            *)
THEOREM Success == AutomationSpec => []SuccessIsTrue
<1>1. IInv => ReleaseTypeOK /\ ReleaseIsTrue /\ FormulaIsTrue
  <2> SUFFICES ASSUME IInv, step = "done", order.doing = "release" PROVE ReleaseIsTrue
    BY DEF IInv, ReleaseIsTrue
  <2>1. order.asset \in Assets /\ archive[order.asset] = NewArchive(TRUE)
    BY DEF IInv, OrderInv, ProgressInv, SinceArchived, SinceHashed, SinceSealed
  <2>2. NewArchive(TRUE) \in Archives
    BY DEF IInv, ReleaseTypeOK, OrderInv, ProgressInv, NewArchive, Archives,
       SinceBuilt, SinceArchived, SinceHashed, SinceSealed
  <2>3. archive[order.asset] # Nothing
    BY <2>1, <2>2, ReleaseAssumption
  <2>4. NewArchive(TRUE).id = commands /\ NewArchive(TRUE).whole
        /\ NewArchive(TRUE).binary = binary[target]
    BY DEF NewArchive
  <2> QED
    BY <2>1, <2>3, <2>4 DEF IInv, ProgressInv, ReleaseIsTrue,
       SinceClean, SinceBuilt, SinceArchived, SinceHashed, SinceSealed
<1>2. TInv => TasksTypeOK /\ LocalIsTrue /\ InstallIsTrue
  <2> SUFFICES ASSUME TInv PROVE LocalIsTrue /\ InstallIsTrue
    BY DEF TInv
  <2>1. LocalIsTrue
    BY DEF TInv, PackageInv, LocalIsTrue, Checked, Packaged, Packaging
  <2> QED
    BY <2>1 DEF TInv, InstallInv, InstallIsTrue
<1> QED
  BY <1>1, <1>2, Invariance, TasksInvariance, PTL DEF SuccessIsTrue

-----------------------------------------------------------------------------
(***************************************************************************)
(* The safety invariants of the xtask panel, for every project, number of  *)
(* questions and runs, amount of output and capacity of pipes, channel and *)
(* queue, and for every set of words, integers and choices of an argument. *)
(***************************************************************************)
(* Appending to a queue and taking from it.                                *)
LEMMA AppendFacts ==
  ASSUME NEW S, NEW q \in Seq(S), NEW e \in S
  PROVE  /\ Append(q, e) \in Seq(S) /\ Len(Append(q, e)) = Len(q) + 1
         /\ DOMAIN Append(q, e) = 1..(Len(q) + 1) /\ DOMAIN q = 1..Len(q) /\ Len(q) \in Nat
         /\ \A i \in 1..Len(q) : Append(q, e)[i] = q[i]
         /\ Append(q, e)[Len(q) + 1] = e
  OBVIOUS

LEMMA TailFacts ==
  ASSUME NEW S, NEW q \in Seq(S), q # <<>>
  PROVE  /\ Tail(q) \in Seq(S) /\ Len(Tail(q)) = Len(q) - 1 /\ Len(q) \in Nat \ {0}
         /\ DOMAIN Tail(q) = 1..(Len(q) - 1) /\ DOMAIN q = 1..Len(q)
         /\ \A i \in 1..(Len(q) - 1) : Tail(q)[i] = q[i + 1]
         /\ Head(q) = q[1] /\ Head(q) \in S
  OBVIOUS

-----------------------------------------------------------------------------
(***************************************************************************)
(* The commands of the panel.                                              *)
(***************************************************************************)
USE XtasksAssumption DEF Streams

\* An answer on its way is what the project said to the question it answers.
AnswerInv ==
  /\ project \in said
  /\ \A id \in Loads : asked[id] # "asking" => answer[id] \in Answers
  /\ asked[loadId] # "asking" => answer[loadId] \in said
  /\ \A k \in DOMAIN queue : queue[k].kind = "info" =>
       /\ queue[k].id \in Loads /\ asked[queue[k].id] = "over"
       /\ queue[k].result = answer[queue[k].id]

\* What is over, and what is in the queue, at each point of a run.
PhaseInv ==
  /\ ~running => runTask = "none" /\ \A k \in DOMAIN queue : queue[k].kind = "info"
  /\ running => ~lastRun.ended
  /\ runTask # "streaming" =>
       child = "none" /\ channel = <<>> /\ \A s \in Streams : reader[s] # "reading"
  /\ runTask \in {"starting", "failed"} =>
       lastRun.shown = <<>> /\ \A k \in DOMAIN queue : queue[k].kind = "info"
  /\ runTask # "none" => \A k \in DOMAIN queue : queue[k].kind # "finished"
  /\ \A j, k \in DOMAIN queue : j < k /\ queue[j].kind = "finished" => queue[k].kind = "info"
  /\ \A s \in Streams : reader[s] = "over" => unread[s] = 0
  /\ \A k \in DOMAIN queue : queue[k].kind = "finished" /\ queue[k].ok =>
       \A s \in Streams : reader[s] = "over"

\* What the run has read is what will be shown of it.
InFlow ==
  \/ runTask = "streaming"
  \/ \E k \in DOMAIN queue : queue[k].kind = "finished" /\ queue[k].ok

\* Every chunk that was read is shown, queued or in the channel.
Covered ==
  \A s \in Streams : \A n \in 1..(Chunks - unread[s]) :
    \/ \E k \in DOMAIN lastRun.shown : lastRun.shown[k] = <<s, n>>
    \/ \E k \in DOMAIN queue : queue[k].kind = "output" /\ queue[k].chunk = <<s, n>>
    \/ \E k \in DOMAIN channel : channel[k] = <<s, n>>

\* And those of a stream lie in the order of their numbers.
ShownInOrder ==
  /\ \A j, k \in DOMAIN lastRun.shown : j < k => Precedes(lastRun.shown[j], lastRun.shown[k])
  /\ \A j \in DOMAIN lastRun.shown : \A k \in DOMAIN queue :
       queue[k].kind = "output" => Precedes(lastRun.shown[j], queue[k].chunk)
  /\ \A j \in DOMAIN lastRun.shown : \A k \in DOMAIN channel :
       Precedes(lastRun.shown[j], channel[k])
  /\ \A j \in DOMAIN lastRun.shown :
       lastRun.shown[j][2] <= Chunks - unread[lastRun.shown[j][1]]

QueuedInOrder ==
  /\ \A j, k \in DOMAIN queue :
       j < k /\ queue[j].kind = "output" /\ queue[k].kind = "output" =>
         Precedes(queue[j].chunk, queue[k].chunk)
  /\ \A j \in DOMAIN queue : \A k \in DOMAIN channel :
       queue[j].kind = "output" => Precedes(queue[j].chunk, channel[k])
  /\ \A j \in DOMAIN queue : queue[j].kind = "output" =>
       queue[j].chunk[2] <= Chunks - unread[queue[j].chunk[1]]

ReadInOrder ==
  /\ \A j, k \in DOMAIN channel : j < k => Precedes(channel[j], channel[k])
  /\ \A j \in DOMAIN channel : channel[j][2] <= Chunks - unread[channel[j][1]]

FlowInv == InFlow => Covered /\ ShownInOrder /\ QueuedInOrder /\ ReadInOrder

\* A run that ended well has shown every chunk.
EndedInv == lastRun.ended /\ runId > 0 => IsComplete(lastRun.shown)

XInv ==
  TypeOK /\ AnswerInv /\ ShownIsRecent /\ LoadIsUnderWay /\ PhaseInv /\ FlowInv /\ EndedInv

LEMMA EventFacts ==
  /\ \A id \in 1..MaxLoads, result \in Answers : InfoLoaded(id, result) \in Event
  /\ \A chunk \in Chunk : RunOutput(chunk) \in Event
  /\ \A ok \in BOOLEAN : RunFinished(ok) \in Event
  /\ \A e \in Event : /\ e.kind \in {"info", "output", "finished"}
                      /\ e.kind = "info" => e.id \in 1..MaxLoads /\ e.result \in Answers
                      /\ e.kind = "output" => e.chunk \in Chunk
                      /\ e.kind = "finished" => e.ok \in BOOLEAN
  BY DEF Event, InfoLoaded, RunOutput, RunFinished

LEMMA NextChunkIsChunk ==
  ASSUME TypeOK, NEW s \in Streams, unread[s] > 0
  PROVE  NextChunk(s) \in Chunk /\ NextChunk(s)[1] = s /\ NextChunk(s)[2] = Chunks - unread[s] + 1
<1>1. unread[s] \in 1..Chunks
  BY DEF TypeOK
<1> QED
  BY <1>1 DEF NextChunk, Chunk

LEMMA TypeInit == Init => TypeOK
<1> SUFFICES ASSUME Init PROVE TypeOK
  OBVIOUS
<1>1. lastRun \in [shown : Seq(Chunk), ended : BOOLEAN] /\ channel \in Seq(Chunk) /\ queue \in Seq(Event)
  BY DEF Init
<1>2. asked \in [1..loadId -> {"asking", "sending", "over"}] /\ answer \in [1..loadId -> Answers \union {None}]
  BY DEF Init
<1> QED
  <2>1. /\ modal \in BOOLEAN /\ detail \in BOOLEAN /\ editing \in BOOLEAN /\ running \in BOOLEAN
        /\ loading \in BOOLEAN
    BY DEF Init
  <2>2. Len(channel) <= ChannelCap /\ Len(queue) <= QueueCap
    BY DEF Init
  <2>3. unread \in [Streams -> 0..Chunks] /\ reader \in [Streams -> {"reading", "over", "failed"}]
    BY DEF Init
  <2> QED
    BY <1>1, <1>2, <2>1, <2>2, <2>3 DEF Init, TypeOK, Answers

LEMMA TypeNext ==
  ASSUME TypeOK, AnswerInv, [Next]_vars
  PROVE  TypeOK'
<1> USE DEF TypeOK, panelVars, loadVars, runVars, pipeVars, worldVars
<1>1. CASE Key
  <2>1. modal' \in BOOLEAN /\ detail' \in BOOLEAN /\ editing' \in BOOLEAN
    BY <1>1 DEF Key, KeyOpens, KeyCloses
  <2> QED
    BY <1>1, <2>1 DEF Key
<1>2. CASE Refresh
  <2>1. /\ asked \in Seq({"asking", "sending", "over"}) /\ Len(asked) = loadId
        /\ answer \in Seq(Answers \union {None}) /\ Len(answer) = loadId /\ loadId \in Nat
    OBVIOUS
  <2>2. /\ asked' \in [1..(loadId + 1) -> {"asking", "sending", "over"}]
        /\ answer' \in [1..(loadId + 1) -> Answers \union {None}]
    <3>1. "asking" \in {"asking", "sending", "over"} /\ None \in Answers \union {None}
      OBVIOUS
    <3>2. /\ asked' \in Seq({"asking", "sending", "over"}) /\ Len(asked') = loadId + 1
          /\ answer' \in Seq(Answers \union {None}) /\ Len(answer') = loadId + 1
      BY <1>2, <2>1, <3>1, AppendFacts DEF Refresh
    <3>3. ASSUME NEW S, NEW q \in Seq(S) PROVE q \in [1..Len(q) -> S]
      OBVIOUS
    <3> QED
      BY <3>2, <3>3
  <2>3. loading' \in BOOLEAN /\ loadId' = loadId + 1 /\ loadId' \in 1..MaxLoads
    BY <1>2 DEF Refresh
  <2> QED
    BY <1>2, <2>2, <2>3 DEF Refresh
<1>3. CASE Edit
  BY <1>3 DEF Edit
<1>4. CASE RunXtask
  <2>1. lastRun' \in [shown : Seq(Chunk), ended : BOOLEAN] /\ runId' \in 0..MaxRuns
    BY <1>4 DEF RunXtask
  <2>2. running' \in BOOLEAN
    BY <1>4 DEF RunXtask
  <2> QED
    BY <1>4, <2>1, <2>2 DEF RunXtask
<1>5. CASE Spawn
  <2>1. unread' \in [Streams -> 0..Chunks] /\ reader' \in [Streams -> {"reading", "over", "failed"}]
    BY <1>5 DEF Spawn
  <2> QED
    BY <1>5, <2>1 DEF Spawn
<1>6. CASE SpawnFails
  BY <1>6 DEF SpawnFails
<1>7. CASE ChildExits
  BY <1>7 DEF ChildExits
<1>8. CASE Forward
  <2>1. channel \in Seq(Chunk) /\ queue \in Seq(Event) /\ channel # <<>>
    BY <1>8 DEF Forward
  <2>2. Head(channel) \in Chunk /\ Tail(channel) \in Seq(Chunk) /\ Len(Tail(channel)) <= ChannelCap
    BY <2>1, TailFacts
  <2>3. /\ queue' \in Seq(Event) /\ Len(queue') <= QueueCap
    BY <1>8, <2>1, <2>2, EventFacts, AppendFacts DEF Forward, Send
  <2> QED
    BY <1>8, <2>2, <2>3 DEF Forward
<1>9. CASE Report
  <2>1. PICK ok \in BOOLEAN : Send(RunFinished(ok))
    BY <1>9 DEF Report
  <2>2. queue' \in Seq(Event) /\ Len(queue') <= QueueCap
    BY <2>1, EventFacts, AppendFacts DEF Send
  <2> QED
    BY <1>9, <2>2 DEF Report
<1>10. CASE HandleInfo
  <2>1. queue' \in Seq(Event) /\ Len(queue') <= QueueCap /\ Head(queue) \in Event
    BY <1>10, TailFacts DEF HandleInfo
  <2>2. Head(queue).result \in Answers
    BY <1>10, <2>1, EventFacts DEF HandleInfo
  <2> QED
    <3>1. /\ loading' \in BOOLEAN /\ detail' \in BOOLEAN /\ editing' \in BOOLEAN
          /\ manifest' \in Manifests \union {None} /\ error' \in {None, "load", "run"}
      BY <1>10, <2>2 DEF HandleInfo, ApplyInfo, Answers
    <3> QED
      BY <1>10, <2>1, <3>1 DEF HandleInfo
<1>11. CASE HandleOutput
  <2>1. queue' \in Seq(Event) /\ Len(queue') <= QueueCap /\ Head(queue) \in Event
    BY <1>11, TailFacts DEF HandleOutput
  <2>2. Head(queue).chunk \in Chunk
    BY <1>11, <2>1, EventFacts DEF HandleOutput
  <2>3. lastRun' \in [shown : Seq(Chunk), ended : BOOLEAN]
    BY <1>11, <2>2, AppendFacts DEF HandleOutput
  <2> QED
    <3>1. UNCHANGED <<panelVars, loadVars, runId, running, error, asked, answer, pipeVars, worldVars>>
      BY <1>11 DEF HandleOutput
    <3> QED
      BY <2>1, <2>3, <3>1
<1>12. CASE HandleFinished
  <2>1. queue' \in Seq(Event) /\ Len(queue') <= QueueCap
    BY <1>12, TailFacts DEF HandleFinished
  <2> QED
    <3>1. /\ running' \in BOOLEAN /\ error' \in {None, "load", "run"}
          /\ lastRun' \in [shown : Seq(Chunk), ended : BOOLEAN]
      BY <1>12 DEF HandleFinished
    <3> QED
      BY <1>12, <2>1, <3>1 DEF HandleFinished
<1>13. CASE \E id \in Loads : Load(id)
  BY <1>13 DEF Load, Loads
<1>14. CASE \E id \in Loads : SendInfo(id)
  <2>1. PICK id \in Loads : SendInfo(id)
    BY <1>14
  <2>a. answer[id] \in Answers
    BY <2>1, Zenon DEF SendInfo, AnswerInv
  <2>2. answer[id] \in Answers /\ id \in 1..MaxLoads
    BY <2>a DEF Loads
  <2>3. queue' \in Seq(Event) /\ Len(queue') <= QueueCap
    BY <2>1, <2>2, EventFacts, AppendFacts DEF SendInfo, Send
  <2> QED
    BY <2>1, <2>2, <2>3 DEF SendInfo, Loads
<1>15. CASE \E s \in Streams : ReadChunk(s)
  <2>1. PICK s \in Streams : ReadChunk(s)
    BY <1>15
  <2>2. channel' \in Seq(Chunk) /\ Len(channel') <= ChannelCap
    <3>1. NextChunk(s) \in Chunk
      BY <2>1, NextChunkIsChunk DEF ReadChunk
    <3> QED
      BY <2>1, <3>1, AppendFacts DEF ReadChunk
  <2>3. unread' \in [Streams -> 0..Chunks]
    BY <2>1 DEF ReadChunk
  <2> QED
    BY <2>1, <2>2, <2>3 DEF ReadChunk
<1>16. CASE \E s \in Streams : ReadEnds(s) \/ ReadFails(s)
  <2>1. PICK s \in Streams : ReadEnds(s) \/ ReadFails(s)
    BY <1>16
  <2>2. CASE ReadEnds(s)
    BY <2>2 DEF ReadEnds
  <2>3. CASE ReadFails(s)
    BY <2>3 DEF ReadFails
  <2> QED
    BY <2>1, <2>2, <2>3
<1>17. CASE UNCHANGED vars
  BY <1>17 DEF vars
<1> QED
  BY <1>1, <1>2, <1>3, <1>4, <1>5, <1>6, <1>7, <1>8, <1>9, <1>10, <1>11, <1>12, <1>13, <1>14,
     <1>15, <1>16, <1>17 DEF Next

-----------------------------------------------------------------------------
(* The queue after an event was sent, and after one was taken.             *)
LEMMA Sent ==
  ASSUME TypeOK, NEW e \in Event, Send(e)
  PROVE  /\ Len(queue) \in Nat /\ DOMAIN queue = 1..Len(queue) /\ DOMAIN queue' = 1..(Len(queue) + 1)
         /\ \A k \in 1..Len(queue) : queue'[k] = queue[k]
         /\ queue'[Len(queue) + 1] = e
  BY AppendFacts DEF TypeOK, Send

LEMMA Taken ==
  ASSUME TypeOK, queue # <<>>, queue' = Tail(queue)
  PROVE  /\ Len(queue) \in Nat \ {0} /\ DOMAIN queue = 1..Len(queue)
         /\ DOMAIN queue' = 1..(Len(queue) - 1)
         /\ \A k \in 1..(Len(queue) - 1) : queue'[k] = queue[k + 1]
         /\ Head(queue) = queue[1] /\ Head(queue) \in Event
  BY TailFacts DEF TypeOK

LoadSide == AnswerInv /\ ShownIsRecent /\ LoadIsUnderWay

\* The part of a run in the side of the questions: what it sends is no answer.
LEMMA NoAnswerSent ==
  ASSUME TypeOK, LoadSide, NEW e \in Event, e.kind # "info", Send(e),
         UNCHANGED <<loadVars, asked, answer, worldVars>>
  PROVE  LoadSide'
<1> USE DEF LoadSide, loadVars, worldVars
<1>1. AnswerInv'
  BY Sent DEF AnswerInv, Loads
<1>2. ShownIsRecent'
  BY DEF ShownIsRecent
<1>3. LoadIsUnderWay'
  BY Sent DEF LoadIsUnderWay
<1> QED
  BY <1>1, <1>2, <1>3

LEMMA NoAnswerTaken ==
  ASSUME TypeOK, LoadSide, queue # <<>>, Head(queue).kind # "info", queue' = Tail(queue),
         UNCHANGED <<loadVars, asked, answer, worldVars>>
  PROVE  LoadSide'
<1> USE DEF LoadSide, loadVars, worldVars
<1>1. AnswerInv'
  <2>1. \A k \in DOMAIN queue' : k + 1 \in DOMAIN queue /\ queue'[k] = queue[k + 1]
    BY Taken
  <2> QED
    BY <2>1 DEF AnswerInv, Loads
<1>2. ShownIsRecent'
  BY DEF ShownIsRecent
<1>3. LoadIsUnderWay'
  <2>1. \A k \in DOMAIN queue : queue[k].kind = "info" =>
          k - 1 \in DOMAIN queue' /\ queue'[k - 1] = queue[k]
    BY Taken
  <2> QED
    BY <2>1 DEF LoadIsUnderWay
<1> QED
  BY <1>1, <1>2, <1>3

LEMMA LoadSideNext ==
  ASSUME TypeOK, LoadSide, [Next]_vars
  PROVE  LoadSide'
<1>1. CASE Refresh
  <2>1. /\ asked \in Seq({"asking", "sending", "over"}) /\ Len(asked) = loadId
        /\ answer \in Seq(Answers \union {None}) /\ Len(answer) = loadId /\ loadId \in Nat
        /\ "asking" \in {"asking", "sending", "over"} /\ None \in Answers \union {None}
    BY DEF TypeOK
  <2>2. /\ DOMAIN asked' = 1..(loadId + 1) /\ DOMAIN asked = 1..loadId
        /\ \A id \in 1..loadId : asked'[id] = asked[id] /\ answer'[id] = answer[id]
        /\ asked'[loadId + 1] = "asking"
    BY <1>1, <2>1, AppendFacts DEF Refresh
  <2>3. /\ loadId' = loadId + 1 /\ loading' = TRUE /\ said' = {project} /\ project' = project
        /\ queue' = queue
    BY <1>1 DEF Refresh
  <2>4. AnswerInv'
    BY <2>1, <2>2, <2>3 DEF LoadSide, AnswerInv, Loads
  <2>5. ShownIsRecent' /\ LoadIsUnderWay'
    BY <2>2, <2>3 DEF ShownIsRecent, LoadIsUnderWay
  <2> QED
    BY <2>4, <2>5 DEF LoadSide
<1>2. CASE Edit
  BY <1>2 DEF Edit, LoadSide, AnswerInv, ShownIsRecent, LoadIsUnderWay, loadVars, Loads
<1>3. CASE \E id \in Loads : Load(id)
  <2>1. PICK id \in Loads : Load(id)
    BY <1>3
  <2>2. AnswerInv'
    BY <2>1 DEF Load, LoadSide, AnswerInv, loadVars, worldVars, Loads, TypeOK
  <2>3. ShownIsRecent' /\ LoadIsUnderWay'
    BY <2>1 DEF Load, LoadSide, ShownIsRecent, LoadIsUnderWay, loadVars, worldVars, Loads, TypeOK
  <2> QED
    BY <2>2, <2>3 DEF LoadSide
<1>4. CASE \E id \in Loads : SendInfo(id)
  <2>1. PICK id \in Loads : SendInfo(id)
    BY <1>4
  <2>2. InfoLoaded(id, answer[id]) \in Event /\ id \in 1..loadId
    <3>1. id \in 1..loadId /\ id \in 1..MaxLoads /\ answer[id] \in Answers /\ asked[id] # "asking"
      BY <2>1 DEF SendInfo, LoadSide, AnswerInv, TypeOK, Loads
    <3> QED
      BY <3>1, EventFacts
  <2>3. /\ asked' = [asked EXCEPT ![id] = "over"] /\ answer' = answer /\ DOMAIN asked' = DOMAIN asked
        /\ UNCHANGED <<loadId, loading, manifest, project, said>>
    BY <2>1 DEF SendInfo, loadVars, worldVars
  <2>4. /\ Len(queue) \in Nat /\ DOMAIN queue = 1..Len(queue) /\ DOMAIN queue' = 1..(Len(queue) + 1)
        /\ \A k \in 1..Len(queue) : queue'[k] = queue[k]
        /\ queue'[Len(queue) + 1] = InfoLoaded(id, answer[id])
    BY <2>1, <2>2, Sent DEF SendInfo
  <2>5. AnswerInv'
    <3>1. /\ \A i \in Loads : asked'[i] = IF i = id THEN "over" ELSE asked[i]
          /\ asked'[id] = "over" /\ asked[id] = "sending" /\ id \in Loads
      BY <2>1, <2>2, <2>3 DEF Loads, TypeOK, SendInfo
    <3>2. \A k \in DOMAIN queue' : queue'[k].kind = "info" =>
             /\ queue'[k].id \in Loads /\ asked'[queue'[k].id] = "over"
             /\ queue'[k].result = answer[queue'[k].id]
      BY <3>1, <2>4 DEF LoadSide, AnswerInv, InfoLoaded
    <3>3. asked'[loadId] # "asking" => asked[loadId] # "asking"
      BY <3>1, <2>2, <2>3 DEF TypeOK, Loads
    <3>4. \A i \in Loads : asked'[i] # "asking" => asked[i] # "asking"
      BY <3>1
    <3> QED
      BY <3>2, <3>3, <3>4, <2>3 DEF LoadSide, AnswerInv, Loads
  <2>6. ShownIsRecent'
    BY <2>3 DEF LoadSide, ShownIsRecent
  <2>7. LoadIsUnderWay'
    <3>1. CASE id = loadId
      BY <3>1, <2>3, <2>4 DEF LoadIsUnderWay, InfoLoaded
    <3>2. CASE id # loadId
      BY <3>2, <2>2, <2>3, <2>4 DEF LoadSide, LoadIsUnderWay, TypeOK
    <3> QED
      BY <3>1, <3>2
  <2> QED
    BY <2>5, <2>6, <2>7 DEF LoadSide
<1>5. CASE HandleInfo
  <2>1. /\ Len(queue) \in Nat \ {0} /\ DOMAIN queue = 1..Len(queue)
        /\ DOMAIN queue' = 1..(Len(queue) - 1)
        /\ \A k \in 1..(Len(queue) - 1) : queue'[k] = queue[k + 1]
        /\ Head(queue) = queue[1] /\ Head(queue).kind = "info"
    BY <1>5, Taken DEF HandleInfo
  <2>2. UNCHANGED <<loadId, asked, answer, project, said>>
    BY <1>5 DEF HandleInfo, worldVars
  <2>3. AnswerInv'
    <3>1. \A k \in DOMAIN queue' : k + 1 \in DOMAIN queue /\ queue'[k] = queue[k + 1]
      BY <2>1
    <3> QED
      BY <3>1, <2>2 DEF LoadSide, AnswerInv, Loads
  <2>4. CASE Head(queue).id # loadId
    <3>1. loading' = loading /\ manifest' = manifest
      BY <1>5, <2>4 DEF HandleInfo, ApplyInfo
    <3>2. \A k \in DOMAIN queue : queue[k].kind = "info" /\ queue[k].id = loadId =>
            k - 1 \in DOMAIN queue' /\ queue'[k - 1] = queue[k]
      BY <2>1, <2>4
    <3>3. LoadIsUnderWay'
      BY <3>1, <3>2, <2>2 DEF LoadSide, LoadIsUnderWay
    <3> QED
      BY <3>1, <3>3, <2>2, <2>3 DEF LoadSide, ShownIsRecent
  <2>5. CASE Head(queue).id = loadId
    <3>1. /\ 1 \in DOMAIN queue /\ queue[1].kind = "info" /\ queue[1].id = loadId
          /\ loadId \in Loads
      BY <2>1, <2>5 DEF TypeOK, Loads
    <3>2. asked[loadId] = "over" /\ queue[1].result = answer[loadId]
      BY <3>1 DEF LoadSide, AnswerInv
    <3>3. answer[loadId] \in said /\ answer[loadId] \in Answers
      BY <3>1, <3>2 DEF LoadSide, AnswerInv
    <3>4. loading' = FALSE /\ (IF manifest' = None THEN Broken ELSE manifest') = answer[loadId]
      BY <1>5, <2>1, <2>5, <3>2, <3>3 DEF HandleInfo, ApplyInfo, Answers
    <3> QED
      BY <3>3, <3>4, <2>2, <2>3 DEF LoadSide, ShownIsRecent, LoadIsUnderWay
  <2> QED
    BY <2>4, <2>5
<1>6. CASE Forward
  <2>1. Head(channel) \in Chunk
    BY <1>6, TailFacts DEF Forward, TypeOK
  <2>2. RunOutput(Head(channel)) \in Event /\ RunOutput(Head(channel)).kind # "info"
    BY <2>1, EventFacts DEF RunOutput
  <2> QED
    BY <1>6, <2>2, NoAnswerSent DEF Forward
<1>7. CASE Report
  <2>1. PICK ok \in BOOLEAN : Send(RunFinished(ok))
    BY <1>7 DEF Report
  <2>2. RunFinished(ok) \in Event /\ RunFinished(ok).kind # "info"
    BY EventFacts DEF RunFinished
  <2> QED
    BY <1>7, <2>1, <2>2, NoAnswerSent DEF Report
<1>8. CASE HandleOutput \/ HandleFinished
  BY <1>8, NoAnswerTaken DEF HandleOutput, HandleFinished
<1>9. CASE \/ Key \/ RunXtask \/ Spawn \/ SpawnFails \/ ChildExits \/ UNCHANGED vars
           \/ \E s \in Streams : ReadChunk(s) \/ ReadEnds(s) \/ ReadFails(s)
  <2>1. UNCHANGED <<loadVars, asked, answer, queue, worldVars>>
    <3>1. (\E s \in Streams : ReadChunk(s) \/ ReadEnds(s) \/ ReadFails(s)) =>
            UNCHANGED <<loadVars, asked, answer, queue, worldVars>>
      BY DEF ReadChunk, ReadEnds, ReadFails
    <3>2. (Key \/ RunXtask \/ Spawn \/ SpawnFails \/ ChildExits \/ UNCHANGED vars) =>
            UNCHANGED <<loadVars, asked, answer, queue, worldVars>>
      BY DEF Key, RunXtask, Spawn, SpawnFails, ChildExits, vars
    <3> QED
      BY <1>9, <3>1, <3>2
  <2> QED
    BY <2>1 DEF LoadSide, AnswerInv, ShownIsRecent, LoadIsUnderWay, loadVars, worldVars, Loads
<1> QED
  BY <1>1, <1>2, <1>3, <1>4, <1>5, <1>6, <1>7, <1>8, <1>9 DEF Next

-----------------------------------------------------------------------------
(* A run passes through its phases.                                        *)
LEMMA PhaseNext ==
  ASSUME TypeOK, AnswerInv, PhaseInv, [Next]_vars
  PROVE  PhaseInv'
<1> USE DEF PhaseInv, runVars, pipeVars
<1>1. CASE \/ Key \/ Refresh \/ Edit \/ UNCHANGED vars \/ \E id \in Loads : Load(id)
  <2>1. UNCHANGED <<runVars, pipeVars, queue>>
    BY <1>1 DEF Key, Refresh, Edit, Load, vars
  <2> QED
    BY <2>1
<1>2. CASE \E id \in Loads : SendInfo(id)
  <2>1. PICK id \in Loads : SendInfo(id)
    BY <1>2
  <2>2. id \in 1..MaxLoads /\ answer[id] \in Answers
    BY <2>1 DEF SendInfo, AnswerInv, TypeOK, Loads
  <2>3. InfoLoaded(id, answer[id]) \in Event /\ InfoLoaded(id, answer[id]).kind = "info"
    BY <2>2, EventFacts DEF InfoLoaded
  <2>4. UNCHANGED <<runVars, pipeVars>> /\ Send(InfoLoaded(id, answer[id]))
    BY <2>1 DEF SendInfo
  <2> QED
    BY <2>3, <2>4, Sent
<1>3. CASE RunXtask
  BY <1>3 DEF RunXtask
<1>4. CASE Spawn
  BY <1>4 DEF Spawn, TypeOK
<1>5. CASE SpawnFails
  BY <1>5 DEF SpawnFails
<1>6. CASE ChildExits
  BY <1>6 DEF ChildExits
<1>7. CASE \E s \in Streams : ReadChunk(s)
  <2>1. PICK s \in Streams : ReadChunk(s)
    BY <1>7
  <2>2. runTask = "streaming" /\ \A t \in Streams : t # s => unread'[t] = unread[t]
    BY <2>1 DEF ReadChunk, TypeOK
  <2>3. UNCHANGED <<running, lastRun, runTask, queue, reader, child>> /\ reader[s] = "reading"
    BY <2>1 DEF ReadChunk
  <2> QED
    BY <2>2, <2>3
<1>8. CASE \E s \in Streams : ReadEnds(s) \/ ReadFails(s)
  <2>1. PICK s \in Streams : ReadEnds(s) \/ ReadFails(s)
    BY <1>8
  <2>2. /\ runTask = "streaming" /\ \A t \in Streams : t # s => reader'[t] = reader[t]
        /\ reader'[s] # "reading" /\ (reader'[s] = "over" => unread[s] = 0)
    BY <2>1 DEF ReadEnds, ReadFails, TypeOK
  <2>3. UNCHANGED <<running, lastRun, runTask, queue, unread, child, channel>>
    BY <2>1 DEF ReadEnds, ReadFails
  <2> QED
    BY <2>2, <2>3
<1>9. CASE Forward
  <2>1. Head(channel) \in Chunk /\ runTask = "streaming"
    BY <1>9, TailFacts DEF Forward, TypeOK
  <2>2. RunOutput(Head(channel)) \in Event /\ RunOutput(Head(channel)).kind = "output"
    BY <2>1, EventFacts DEF RunOutput
  <2>3. UNCHANGED <<running, lastRun, child, unread, reader, runTask>> /\ Send(RunOutput(Head(channel)))
    BY <1>9 DEF Forward
  <2> QED
    BY <2>1, <2>2, <2>3, Sent
<1>10. CASE Report
  <2>1. PICK ok \in BOOLEAN : /\ Send(RunFinished(ok))
                              /\ ok => \A s \in Streams : reader[s] = "over"
    BY <1>10 DEF Report
  <2>2. /\ RunFinished(ok) \in Event /\ RunFinished(ok).kind = "finished"
        /\ RunFinished(ok).ok = ok
    BY EventFacts DEF RunFinished
  <2>3. /\ UNCHANGED <<running, lastRun, unread, reader, channel>> /\ runTask' = "none" /\ child' = "none"
        /\ channel = <<>> /\ \A s \in Streams : reader[s] # "reading"
    BY <1>10 DEF Report, ReadersDone
  <2>4. running /\ \A k \in DOMAIN queue : queue[k].kind # "finished"
    BY <1>10 DEF Report
  <2> QED
    BY <2>1, <2>2, <2>3, <2>4, Sent
<1>11. CASE HandleInfo \/ HandleOutput
  <2>1. queue # <<>> /\ queue' = Tail(queue) /\ UNCHANGED <<running, pipeVars>>
    BY <1>11 DEF HandleInfo, HandleOutput
  <2>2. \A k \in DOMAIN queue' : k + 1 \in DOMAIN queue /\ queue'[k] = queue[k + 1]
    BY <2>1, Taken
  <2>3. \A j, k \in DOMAIN queue' : j < k => j + 1 < k + 1
    BY <2>1, Taken
  <2>4. runTask \in {"starting", "failed"} => lastRun'.shown = <<>>
    <3>1. CASE HandleInfo
      BY <3>1 DEF HandleInfo
    <3>2. CASE HandleOutput
      <4>1. 1 \in DOMAIN queue /\ queue[1].kind = "output"
        BY <3>2, Taken DEF HandleOutput
      <4> QED
        BY <4>1
    <3> QED
      BY <1>11, <3>1, <3>2
  <2>5. lastRun'.ended = lastRun.ended
    BY <1>11 DEF HandleInfo, HandleOutput, TypeOK
  <2> QED
    BY <2>1, <2>2, <2>3, <2>4, <2>5
<1>12. CASE HandleFinished
  <2>1. queue # <<>> /\ queue' = Tail(queue) /\ running' = FALSE /\ UNCHANGED pipeVars
    BY <1>12 DEF HandleFinished
  <2>2. 1 \in DOMAIN queue /\ queue[1].kind = "finished" /\ DOMAIN queue = 1..Len(queue)
    BY <1>12, <2>1, Taken DEF HandleFinished
  <2>3. \A k \in DOMAIN queue' : k + 1 \in DOMAIN queue /\ queue'[k] = queue[k + 1] /\ 1 < k + 1
    BY <2>1, Taken
  <2>4. \A k \in DOMAIN queue' : queue'[k].kind = "info"
    BY <2>2, <2>3
  <2>5. runTask = "none"
    BY <2>2
  <2> QED
    BY <2>1, <2>4, <2>5
<1> QED
  BY <1>1, <1>2, <1>3, <1>4, <1>5, <1>6, <1>7, <1>8, <1>9, <1>10, <1>11, <1>12 DEF Next

-----------------------------------------------------------------------------
(* The chunks stay where they are.                                         *)
LEMMA CoveredStays ==
  ASSUME Covered, UNCHANGED <<lastRun, unread, channel>>,
         \A k \in DOMAIN queue : queue[k].kind = "output" =>
           \E i \in DOMAIN queue' : queue'[i] = queue[k]
  PROVE  Covered'
<1>1. ASSUME NEW s \in Streams, NEW n \in 1..(Chunks - unread[s])
      PROVE  \/ \E k \in DOMAIN lastRun.shown : lastRun.shown[k] = <<s, n>>
             \/ \E k \in DOMAIN queue' : queue'[k].kind = "output" /\ queue'[k].chunk = <<s, n>>
             \/ \E k \in DOMAIN channel : channel[k] = <<s, n>>
  <2>1. \/ \E k \in DOMAIN lastRun.shown : lastRun.shown[k] = <<s, n>>
        \/ \E k \in DOMAIN queue : queue[k].kind = "output" /\ queue[k].chunk = <<s, n>>
        \/ \E k \in DOMAIN channel : channel[k] = <<s, n>>
    BY DEF Covered
  <2> QED
    BY <2>1
<1> QED
  BY <1>1 DEF Covered

(* The chunks keep their order from the pipe to the screen.                *)
LEMMA FlowNext ==
  ASSUME TypeOK, AnswerInv, PhaseInv, FlowInv, [Next]_vars
  PROVE  FlowInv'
<1> USE DEF runVars, pipeVars
<1>1. CASE \/ Key \/ Refresh \/ Edit \/ RunXtask \/ SpawnFails \/ ChildExits \/ UNCHANGED vars
           \/ \E id \in Loads : Load(id)
           \/ \E s \in Streams : ReadEnds(s) \/ ReadFails(s)
  <2>1. UNCHANGED <<unread, channel, queue>> /\ (RunXtask \/ UNCHANGED lastRun)
    BY <1>1 DEF Key, Refresh, Edit, RunXtask, SpawnFails, ChildExits, Load, ReadEnds, ReadFails, vars
  <2>2. runTask' = "streaming" => runTask = "streaming"
    <3>1. (\E s \in Streams : ReadEnds(s) \/ ReadFails(s)) => runTask' = runTask
      BY DEF ReadEnds, ReadFails
    <3>2. (Key \/ Refresh \/ Edit \/ UNCHANGED vars \/ \E id \in Loads : Load(id)) => runTask' = runTask
      BY DEF Key, Refresh, Edit, Load, vars
    <3>3. RunXtask \/ SpawnFails \/ ChildExits => (runTask' = "streaming" => runTask = "streaming")
      BY DEF RunXtask, SpawnFails, ChildExits
    <3> QED
      BY <1>1, <3>1, <3>2, <3>3
  <2>3. CASE RunXtask
    BY <2>1, <2>3 DEF RunXtask, PhaseInv, FlowInv, InFlow
  <2>4. CASE UNCHANGED lastRun
    <3>1. InFlow' => InFlow
      BY <2>1, <2>2, <2>4 DEF InFlow
    <3>2. UNCHANGED <<unread, channel, queue, lastRun>>
      BY <2>1, <2>4
    <3>3. Covered => Covered'
      BY <3>2 DEF Covered
    <3>4. /\ ShownInOrder => ShownInOrder'
          /\ QueuedInOrder => QueuedInOrder'
          /\ ReadInOrder => ReadInOrder'
      BY <3>2 DEF ShownInOrder, QueuedInOrder, ReadInOrder
    <3> QED
      BY <3>1, <3>3, <3>4 DEF FlowInv
  <2> QED
    BY <2>1, <2>3, <2>4
<1>2. CASE Spawn
  <2>1. /\ lastRun'.shown = <<>> /\ channel' = <<>> /\ \A k \in DOMAIN queue' : queue'[k].kind = "info"
        /\ \A s \in Streams : unread'[s] = Chunks
    BY <1>2 DEF Spawn, PhaseInv
  <2> QED
    BY <2>1 DEF FlowInv, Covered, ShownInOrder, QueuedInOrder, ReadInOrder
<1>3. CASE \E id \in Loads : SendInfo(id)
  <2>1. PICK id \in Loads : SendInfo(id)
    BY <1>3
  <2>2. id \in 1..MaxLoads /\ answer[id] \in Answers
    BY <2>1 DEF SendInfo, AnswerInv, TypeOK, Loads
  <2>3. InfoLoaded(id, answer[id]) \in Event /\ InfoLoaded(id, answer[id]).kind = "info"
    BY <2>2, EventFacts DEF InfoLoaded
  <2>4. UNCHANGED <<runVars, pipeVars>> /\ Send(InfoLoaded(id, answer[id]))
    BY <2>1 DEF SendInfo
  <2>5. /\ \A k \in DOMAIN queue' : queue'[k].kind # "info" => k \in DOMAIN queue /\ queue'[k] = queue[k]
        /\ \A k \in DOMAIN queue : k \in DOMAIN queue' /\ queue'[k] = queue[k]
    BY <2>3, <2>4, Sent
  <2>6. UNCHANGED <<lastRun, unread, channel, runTask>>
    BY <2>4
  <2>7. InFlow' => InFlow
    BY <2>3, <2>5, <2>6, EventFacts DEF InFlow
  <2>8. Covered => Covered'
    BY <2>3, <2>5, <2>6, CoveredStays
  <2>9. ShownInOrder => ShownInOrder'
    BY <2>3, <2>5, <2>6 DEF ShownInOrder
  <2>10. QueuedInOrder => QueuedInOrder'
    BY <2>3, <2>5, <2>6 DEF QueuedInOrder
  <2>11. ReadInOrder => ReadInOrder'
    BY <2>6 DEF ReadInOrder
  <2> QED
    BY <2>7, <2>8, <2>9, <2>10, <2>11 DEF FlowInv
<1>4. CASE Report
  <2>1. PICK ok \in BOOLEAN : Send(RunFinished(ok)) /\ (ok => runTask = "streaming")
    BY <1>4 DEF Report
  <2>2. /\ RunFinished(ok) \in Event /\ RunFinished(ok).kind = "finished"
        /\ RunFinished(ok).ok = ok
    BY EventFacts DEF RunFinished
  <2>3. UNCHANGED <<lastRun, unread, channel>> /\ runTask' = "none"
    BY <1>4 DEF Report
  <2>4. /\ \A k \in DOMAIN queue' : \/ k \in DOMAIN queue /\ queue'[k] = queue[k]
                                    \/ queue'[k] = RunFinished(ok)
        /\ \A k \in DOMAIN queue : k \in DOMAIN queue' /\ queue'[k] = queue[k]
    BY <2>1, <2>2, Sent
  <2>5. InFlow' => InFlow
    BY <2>1, <2>2, <2>3, <2>4 DEF InFlow
  <2>6. \A k \in DOMAIN queue' : queue'[k].kind = "output" => k \in DOMAIN queue /\ queue'[k] = queue[k]
    BY <2>2, <2>4
  <2>7. Covered => Covered'
    BY <2>3, <2>4 DEF Covered
  <2>8. ShownInOrder => ShownInOrder'
    BY <2>3, <2>6 DEF ShownInOrder
  <2>9. QueuedInOrder => QueuedInOrder'
    BY <2>3, <2>6 DEF QueuedInOrder
  <2>10. ReadInOrder => ReadInOrder'
    BY <2>3 DEF ReadInOrder
  <2> QED
    BY <2>5, <2>7, <2>8, <2>9, <2>10 DEF FlowInv
<1>5. CASE HandleInfo
  <2>1. queue # <<>> /\ queue' = Tail(queue) /\ UNCHANGED <<lastRun, pipeVars>> /\ Head(queue).kind = "info"
    BY <1>5 DEF HandleInfo
  <2>2. /\ \A k \in DOMAIN queue' : k + 1 \in DOMAIN queue /\ queue'[k] = queue[k + 1]
        /\ \A j, k \in DOMAIN queue' : j < k => j + 1 < k + 1
        /\ \A k \in DOMAIN queue : queue[k].kind # "info" => k - 1 \in DOMAIN queue' /\ queue'[k - 1] = queue[k]
    BY <2>1, Taken
  <2>3. UNCHANGED <<lastRun, unread, channel, runTask>>
    BY <2>1
  <2>4. InFlow' => InFlow
    BY <2>2, <2>3 DEF InFlow
  <2>5. Covered => Covered'
    BY <2>2, <2>3, CoveredStays
  <2>6. ShownInOrder => ShownInOrder'
    BY <2>2, <2>3 DEF ShownInOrder
  <2>7. QueuedInOrder => QueuedInOrder'
    BY <2>2, <2>3 DEF QueuedInOrder
  <2>8. ReadInOrder => ReadInOrder'
    BY <2>3 DEF ReadInOrder
  <2> QED
    BY <2>4, <2>5, <2>6, <2>7, <2>8 DEF FlowInv
<1>6. CASE HandleFinished
  <2>1. queue # <<>> /\ queue' = Tail(queue) /\ UNCHANGED runTask
    BY <1>6 DEF HandleFinished
  <2>2. 1 \in DOMAIN queue /\ queue[1].kind = "finished"
    BY <1>6, <2>1, Taken DEF HandleFinished
  <2>3. \A k \in DOMAIN queue' : k + 1 \in DOMAIN queue /\ queue'[k] = queue[k + 1] /\ 1 < k + 1
    BY <2>1, Taken
  <2>4. \A k \in DOMAIN queue' : queue'[k].kind = "info"
    BY <2>2, <2>3 DEF PhaseInv
  <2>5. runTask = "none"
    BY <2>2 DEF PhaseInv, TypeOK
  <2> QED
    BY <2>1, <2>4, <2>5 DEF FlowInv, InFlow
<1>7. CASE HandleOutput
  <2>1. /\ queue # <<>> /\ queue' = Tail(queue) /\ UNCHANGED pipeVars
        /\ Head(queue).kind = "output"
    BY <1>7 DEF HandleOutput
  <2>2. /\ \A k \in DOMAIN queue' : k + 1 \in DOMAIN queue /\ queue'[k] = queue[k + 1] /\ 1 < k + 1
        /\ \A j, k \in DOMAIN queue' : j < k => j + 1 < k + 1
        /\ \A k \in DOMAIN queue : k = 1 \/ (k - 1 \in DOMAIN queue' /\ queue'[k - 1] = queue[k])
        /\ 1 \in DOMAIN queue /\ queue[1].kind = "output" /\ Head(queue) = queue[1]
    BY <2>1, Taken
  <2>3. lastRun.shown \in Seq(Chunk) /\ queue[1].chunk \in Chunk /\ Head(queue) \in Event
    BY <2>1, <2>2, Taken, EventFacts DEF TypeOK
  <2>4. lastRun'.shown = Append(lastRun.shown, queue[1].chunk)
    BY <1>7, <2>2 DEF HandleOutput, TypeOK
  <2> DEFINE m == Len(lastRun.shown)
  <2>5. /\ m \in Nat /\ DOMAIN lastRun.shown = 1..m /\ DOMAIN lastRun'.shown = 1..(m + 1)
        /\ \A k \in 1..m : lastRun'.shown[k] = lastRun.shown[k]
        /\ lastRun'.shown[m + 1] = queue[1].chunk
    BY <2>3, <2>4, AppendFacts
  <2>6. InFlow' => InFlow
    BY <2>1, <2>2 DEF InFlow
  <2> HIDE DEF m
  <2>7. Covered => Covered'
    <3> SUFFICES ASSUME Covered, NEW t \in Streams, NEW n \in 1..(Chunks - unread[t])
                 PROVE  \/ \E k \in DOMAIN lastRun'.shown : lastRun'.shown[k] = <<t, n>>
                        \/ \E k \in DOMAIN queue' : queue'[k].kind = "output" /\ queue'[k].chunk = <<t, n>>
                        \/ \E k \in DOMAIN channel : channel[k] = <<t, n>>
      BY <2>1 DEF Covered
    <3>1. CASE \E k \in DOMAIN lastRun.shown : lastRun.shown[k] = <<t, n>>
      BY <3>1, <2>5
    <3>2. ASSUME NEW k \in DOMAIN queue, queue[k].kind = "output", queue[k].chunk = <<t, n>>
          PROVE  \/ \E i \in DOMAIN lastRun'.shown : lastRun'.shown[i] = <<t, n>>
                 \/ \E i \in DOMAIN queue' : queue'[i].kind = "output" /\ queue'[i].chunk = <<t, n>>
      <4>1. CASE k = 1
        <5>1. m + 1 \in DOMAIN lastRun'.shown
          BY <2>5
        <5>2. lastRun'.shown[m + 1] = <<t, n>>
          BY <3>2, <4>1, <2>5
        <5> QED
          BY <5>1, <5>2, Zenon
      <4>2. CASE k - 1 \in DOMAIN queue' /\ queue'[k - 1] = queue[k]
        BY <3>2, <4>2
      <4> QED
        BY <4>1, <4>2, <2>2
    <3> QED
      BY <3>1, <3>2 DEF Covered
  <2>8. ShownInOrder /\ QueuedInOrder => ShownInOrder'
    <3> SUFFICES ASSUME ShownInOrder, QueuedInOrder PROVE ShownInOrder'
      OBVIOUS
    <3> USE DEF ShownInOrder, QueuedInOrder
    <3>1. \A j, k \in DOMAIN lastRun'.shown : j < k => Precedes(lastRun'.shown[j], lastRun'.shown[k])
      <4> SUFFICES ASSUME NEW j \in 1..(m + 1), NEW k \in 1..(m + 1), j < k
                   PROVE  Precedes(lastRun'.shown[j], lastRun'.shown[k])
        BY <2>5
      <4>1. j \in 1..m /\ lastRun'.shown[j] = lastRun.shown[j]
        BY <2>5
      <4>2. CASE k \in 1..m
        BY <4>1, <4>2, <2>5
      <4>3. CASE k = m + 1
        BY <4>1, <4>3, <2>2, <2>5
      <4> QED
        BY <4>2, <4>3, <2>5
    <3>2. \A j \in DOMAIN lastRun'.shown : \A k \in DOMAIN queue' :
            queue'[k].kind = "output" => Precedes(lastRun'.shown[j], queue'[k].chunk)
      <4> SUFFICES ASSUME NEW j \in 1..(m + 1), NEW k \in DOMAIN queue', queue'[k].kind = "output"
                   PROVE  Precedes(lastRun'.shown[j], queue'[k].chunk)
        BY <2>5
      <4>1. k + 1 \in DOMAIN queue /\ queue'[k] = queue[k + 1] /\ 1 < k + 1
        BY <2>2
      <4>2. CASE j \in 1..m
        BY <4>1, <4>2, <2>5
      <4>3. CASE j = m + 1
        BY <4>1, <4>3, <2>2, <2>5
      <4> QED
        BY <4>2, <4>3, <2>5
    <3>3. \A j \in DOMAIN lastRun'.shown : \A k \in DOMAIN channel : Precedes(lastRun'.shown[j], channel[k])
      <4> SUFFICES ASSUME NEW j \in 1..(m + 1), NEW k \in DOMAIN channel
                   PROVE  Precedes(lastRun'.shown[j], channel[k])
        BY <2>5
      <4>1. CASE j \in 1..m
        BY <4>1, <2>5
      <4>2. CASE j = m + 1
        BY <4>2, <2>2, <2>5
      <4> QED
        BY <4>1, <4>2, <2>5
    <3>4. \A j \in DOMAIN lastRun'.shown : lastRun'.shown[j][2] <= Chunks - unread[lastRun'.shown[j][1]]
      <4> SUFFICES ASSUME NEW j \in 1..(m + 1)
                   PROVE  lastRun'.shown[j][2] <= Chunks - unread[lastRun'.shown[j][1]]
        BY <2>5
      <4>1. CASE j \in 1..m
        BY <4>1, <2>5
      <4>2. CASE j = m + 1
        BY <4>2, <2>2, <2>5
      <4> QED
        BY <4>1, <4>2, <2>5
    <3> QED
      BY <3>1, <3>2, <3>3, <3>4, <2>1
  <2>9. QueuedInOrder => QueuedInOrder'
    BY <2>1, <2>2 DEF QueuedInOrder
  <2>10. ReadInOrder => ReadInOrder'
    BY <2>1 DEF ReadInOrder
  <2> QED
    BY <2>6, <2>7, <2>8, <2>9, <2>10 DEF FlowInv
<1>8. CASE Forward
  <2>1. /\ channel # <<>> /\ channel \in Seq(Chunk) /\ channel' = Tail(channel)
        /\ Send(RunOutput(Head(channel))) /\ UNCHANGED <<lastRun, unread, runTask>>
    BY <1>8 DEF Forward, TypeOK
  <2>2. /\ \A k \in DOMAIN channel' : k + 1 \in DOMAIN channel /\ channel'[k] = channel[k + 1] /\ 1 < k + 1
        /\ \A j, k \in DOMAIN channel' : j < k => j + 1 < k + 1
        /\ \A k \in DOMAIN channel : k = 1 \/ (k - 1 \in DOMAIN channel' /\ channel'[k - 1] = channel[k])
        /\ 1 \in DOMAIN channel /\ Head(channel) = channel[1] /\ Head(channel) \in Chunk
    BY <2>1, TailFacts
  <2>3. /\ RunOutput(Head(channel)) \in Event /\ RunOutput(Head(channel)).kind = "output"
        /\ RunOutput(Head(channel)).chunk = channel[1]
    BY <2>2, EventFacts DEF RunOutput
  <2> DEFINE m == Len(queue)
  <2>4. /\ m \in Nat /\ DOMAIN queue = 1..m /\ DOMAIN queue' = 1..(m + 1)
        /\ \A k \in 1..m : queue'[k] = queue[k]
        /\ queue'[m + 1].kind = "output" /\ queue'[m + 1].chunk = channel[1]
    BY <2>1, <2>3, Sent
  <2>5. InFlow' => InFlow
    BY <2>1, <2>4 DEF InFlow
  <2> HIDE DEF m
  <2>6. Covered => Covered'
    <3> SUFFICES ASSUME Covered, NEW t \in Streams, NEW n \in 1..(Chunks - unread[t])
                 PROVE  \/ \E k \in DOMAIN lastRun.shown : lastRun.shown[k] = <<t, n>>
                        \/ \E k \in DOMAIN queue' : queue'[k].kind = "output" /\ queue'[k].chunk = <<t, n>>
                        \/ \E k \in DOMAIN channel' : channel'[k] = <<t, n>>
      <4>1. (\A t \in Streams : \A n \in 1..(Chunks - unread[t]) :
               \/ \E k \in DOMAIN lastRun.shown : lastRun.shown[k] = <<t, n>>
               \/ \E k \in DOMAIN queue' : queue'[k].kind = "output" /\ queue'[k].chunk = <<t, n>>
               \/ \E k \in DOMAIN channel' : channel'[k] = <<t, n>>)
            => Covered'
        <5>1. lastRun' = lastRun /\ unread' = unread
          BY <2>1
        <5> QED
          BY ONLY <5>1 DEF Covered
      <4> QED
        BY <4>1
    <3>1. ASSUME NEW k \in DOMAIN channel, channel[k] = <<t, n>>
          PROVE  \/ \E i \in DOMAIN queue' : queue'[i].kind = "output" /\ queue'[i].chunk = <<t, n>>
                 \/ \E i \in DOMAIN channel' : channel'[i] = <<t, n>>
      <4>1. CASE k = 1
        BY <3>1, <4>1, <2>4
      <4>2. CASE k - 1 \in DOMAIN channel' /\ channel'[k - 1] = channel[k]
        BY <3>1, <4>2
      <4> QED
        BY <4>1, <4>2, <2>2
    <3>2. CASE \E k \in DOMAIN queue : queue[k].kind = "output" /\ queue[k].chunk = <<t, n>>
      BY <3>2, <2>4
    <3>3. \/ \E k \in DOMAIN lastRun.shown : lastRun.shown[k] = <<t, n>>
          \/ \E k \in DOMAIN queue : queue[k].kind = "output" /\ queue[k].chunk = <<t, n>>
          \/ \E k \in DOMAIN channel : channel[k] = <<t, n>>
      BY DEF Covered
    <3> QED
      BY <3>1, <3>2, <3>3
  <2>7. ShownInOrder => ShownInOrder'
    BY <2>1, <2>2, <2>4 DEF ShownInOrder
  <2>8. QueuedInOrder /\ ReadInOrder => QueuedInOrder'
    <3> SUFFICES ASSUME QueuedInOrder, ReadInOrder PROVE QueuedInOrder'
      OBVIOUS
    <3> USE DEF QueuedInOrder, ReadInOrder
    <3>1. \A j, k \in DOMAIN queue' :
            j < k /\ queue'[j].kind = "output" /\ queue'[k].kind = "output" =>
              Precedes(queue'[j].chunk, queue'[k].chunk)
      <4> SUFFICES ASSUME NEW j \in 1..(m + 1), NEW k \in 1..(m + 1), j < k,
                          queue'[j].kind = "output", queue'[k].kind = "output"
                   PROVE  Precedes(queue'[j].chunk, queue'[k].chunk)
        BY <2>4
      <4>1. j \in 1..m /\ queue'[j] = queue[j]
        BY <2>4
      <4>2. CASE k \in 1..m
        BY <4>1, <4>2, <2>4
      <4>3. CASE k = m + 1
        BY <4>1, <4>3, <2>2, <2>4
      <4> QED
        BY <4>2, <4>3, <2>4
    <3>2. \A j \in DOMAIN queue' : \A k \in DOMAIN channel' :
            queue'[j].kind = "output" => Precedes(queue'[j].chunk, channel'[k])
      <4> SUFFICES ASSUME NEW j \in 1..(m + 1), NEW k \in DOMAIN channel', queue'[j].kind = "output"
                   PROVE  Precedes(queue'[j].chunk, channel'[k])
        BY <2>4
      <4>1. k + 1 \in DOMAIN channel /\ channel'[k] = channel[k + 1] /\ 1 < k + 1
        BY <2>2
      <4>2. CASE j \in 1..m
        BY <4>1, <4>2, <2>4
      <4>3. CASE j = m + 1
        BY <4>1, <4>3, <2>2, <2>4
      <4> QED
        BY <4>2, <4>3, <2>4
    <3>3. \A j \in DOMAIN queue' : queue'[j].kind = "output" =>
            queue'[j].chunk[2] <= Chunks - unread[queue'[j].chunk[1]]
      <4> SUFFICES ASSUME NEW j \in 1..(m + 1), queue'[j].kind = "output"
                   PROVE  queue'[j].chunk[2] <= Chunks - unread[queue'[j].chunk[1]]
        BY <2>4
      <4>1. CASE j \in 1..m
        BY <4>1, <2>4
      <4>2. CASE j = m + 1
        BY <4>2, <2>2, <2>4
      <4> QED
        BY <4>1, <4>2, <2>4
    <3> QED
      BY <3>1, <3>2, <3>3, <2>1
  <2>9. ReadInOrder => ReadInOrder'
    BY <2>1, <2>2 DEF ReadInOrder
  <2> QED
    BY <2>5, <2>6, <2>7, <2>8, <2>9 DEF FlowInv
<1>9. CASE \E s \in Streams : ReadChunk(s)
  <2>1. PICK s \in Streams : ReadChunk(s)
    BY <1>9
  <2>2. /\ NextChunk(s) \in Chunk /\ NextChunk(s)[1] = s /\ NextChunk(s)[2] = Chunks - unread[s] + 1
        /\ NextChunk(s) = <<s, Chunks - unread[s] + 1>>
    BY <2>1, NextChunkIsChunk DEF ReadChunk, NextChunk
  <2>3. /\ channel \in Seq(Chunk) /\ channel' = Append(channel, NextChunk(s))
        /\ UNCHANGED <<lastRun, queue, runTask>>
        /\ \A t \in Streams : unread[t] \in Nat /\ unread[t] <= Chunks
        /\ \A t \in Streams : unread'[t] = IF t = s THEN unread[t] - 1 ELSE unread[t]
        /\ unread[s] > 0
    BY <2>1 DEF ReadChunk, TypeOK
  <2> DEFINE m == Len(channel)
  <2>4. /\ m \in Nat /\ DOMAIN channel = 1..m /\ DOMAIN channel' = 1..(m + 1)
        /\ \A k \in 1..m : channel'[k] = channel[k]
        /\ channel'[m + 1] = NextChunk(s)
    BY <2>2, <2>3, AppendFacts
  <2>5. InFlow' => InFlow
    BY <2>3 DEF InFlow
  <2> HIDE DEF m
  <2>6. /\ \A k \in DOMAIN channel : channel[k][1] \in Streams /\ channel[k][2] \in Nat
        /\ \A k \in DOMAIN lastRun.shown : lastRun.shown[k][1] \in Streams /\ lastRun.shown[k][2] \in Nat
        /\ \A k \in DOMAIN queue : queue[k].kind = "output" =>
             queue[k].chunk[1] \in Streams /\ queue[k].chunk[2] \in Nat
    <3>1. \A q \in Seq(Chunk) : \A k \in DOMAIN q : q[k] \in Chunk
      OBVIOUS
    <3>2. \A k \in DOMAIN queue : queue[k] \in Event
      BY DEF TypeOK
    <3>3. \A c \in Chunk : c[1] \in Streams /\ c[2] \in Nat
      BY DEF Chunk
    <3>4. channel \in Seq(Chunk) /\ lastRun.shown \in Seq(Chunk)
      BY DEF TypeOK
    <3> QED
      BY <3>1, <3>2, <3>3, <3>4, EventFacts
  <2>7. Covered => Covered'
    <3> SUFFICES ASSUME Covered, NEW t \in Streams, NEW n \in 1..(Chunks - unread'[t])
                 PROVE  \/ \E k \in DOMAIN lastRun.shown : lastRun.shown[k] = <<t, n>>
                        \/ \E k \in DOMAIN queue : queue[k].kind = "output" /\ queue[k].chunk = <<t, n>>
                        \/ \E k \in DOMAIN channel' : channel'[k] = <<t, n>>
      <4>1. (\A t \in Streams : \A n \in 1..(Chunks - unread'[t]) :
               \/ \E k \in DOMAIN lastRun.shown : lastRun.shown[k] = <<t, n>>
               \/ \E k \in DOMAIN queue : queue[k].kind = "output" /\ queue[k].chunk = <<t, n>>
               \/ \E k \in DOMAIN channel' : channel'[k] = <<t, n>>)
            => Covered'
        BY <2>3 DEF Covered
      <4> QED
        BY <4>1
    <3>1. CASE n \in 1..(Chunks - unread[t])
      <4>1. \/ \E k \in DOMAIN lastRun.shown : lastRun.shown[k] = <<t, n>>
            \/ \E k \in DOMAIN queue : queue[k].kind = "output" /\ queue[k].chunk = <<t, n>>
            \/ \E k \in DOMAIN channel : channel[k] = <<t, n>>
        BY <3>1 DEF Covered
      <4>2. \A k \in DOMAIN channel : k \in DOMAIN channel' /\ channel'[k] = channel[k]
        BY <2>4
      <4> QED
        BY <4>1, <4>2
    <3>2. CASE n \notin 1..(Chunks - unread[t])
      <4>0. unread[t] \in Nat /\ unread[t] <= Chunks /\ unread[s] \in Nat /\ unread[s] <= Chunks
        BY <2>3
      <4>1. t = s /\ n = Chunks - unread[s] + 1
        <5>1. unread'[t] = IF t = s THEN unread[t] - 1 ELSE unread[t]
          BY <2>3
        <5> QED
          BY <3>2, <4>0, <5>1
      <4> QED
        BY <4>1, <2>2, <2>4
    <3> QED
      BY <3>1, <3>2
  <2>a. \A c : c[1] \in Streams /\ c[2] \in Nat /\ c[2] <= Chunks - unread[c[1]] =>
           Precedes(c, NextChunk(s)) /\ c[2] <= Chunks - unread'[c[1]]
    <3> SUFFICES ASSUME NEW c, c[1] \in Streams, c[2] \in Nat, c[2] <= Chunks - unread[c[1]]
                 PROVE  Precedes(c, NextChunk(s)) /\ c[2] <= Chunks - unread'[c[1]]
      OBVIOUS
    <3>1. unread[c[1]] \in Nat /\ unread'[c[1]] \in {unread[c[1]], unread[c[1]] - 1}
      BY <2>3
    <3> QED
      BY <3>1, <2>2 DEF Precedes
  <2>b. NextChunk(s)[2] <= Chunks - unread'[NextChunk(s)[1]]
    BY <2>2, <2>3
  <2>8. ShownInOrder => ShownInOrder'
    <3> SUFFICES ASSUME ShownInOrder PROVE ShownInOrder'
      OBVIOUS
    <3> USE DEF ShownInOrder
    <3>1. \A j \in DOMAIN lastRun.shown : \A k \in DOMAIN channel' : Precedes(lastRun.shown[j], channel'[k])
      <4> SUFFICES ASSUME NEW j \in DOMAIN lastRun.shown, NEW k \in 1..(m + 1)
                   PROVE  Precedes(lastRun.shown[j], channel'[k])
        BY <2>4
      <4>1. CASE k \in 1..m
        BY <4>1, <2>4
      <4>2. CASE k = m + 1
        BY <4>2, <2>4, <2>6, <2>a
      <4> QED
        BY <4>1, <4>2, <2>4
    <3>2. \A j \in DOMAIN lastRun.shown : lastRun.shown[j][2] <= Chunks - unread'[lastRun.shown[j][1]]
      BY <2>6, <2>a
    <3> QED
      BY <3>1, <3>2, <2>3
  <2>9. QueuedInOrder => QueuedInOrder'
    <3> SUFFICES ASSUME QueuedInOrder PROVE QueuedInOrder'
      OBVIOUS
    <3> USE DEF QueuedInOrder
    <3>1. \A j \in DOMAIN queue : \A k \in DOMAIN channel' :
            queue[j].kind = "output" => Precedes(queue[j].chunk, channel'[k])
      <4> SUFFICES ASSUME NEW j \in DOMAIN queue, NEW k \in 1..(m + 1), queue[j].kind = "output"
                   PROVE  Precedes(queue[j].chunk, channel'[k])
        BY <2>4
      <4>1. CASE k \in 1..m
        BY <4>1, <2>4
      <4>2. CASE k = m + 1
        BY <4>2, <2>4, <2>6, <2>a
      <4> QED
        BY <4>1, <4>2, <2>4
    <3>2. \A j \in DOMAIN queue : queue[j].kind = "output" =>
            queue[j].chunk[2] <= Chunks - unread'[queue[j].chunk[1]]
      BY <2>6, <2>a
    <3> QED
      BY <3>1, <3>2, <2>3
  <2>10. ReadInOrder => ReadInOrder'
    <3> SUFFICES ASSUME ReadInOrder PROVE ReadInOrder'
      OBVIOUS
    <3> USE DEF ReadInOrder
    <3>1. \A j, k \in DOMAIN channel' : j < k => Precedes(channel'[j], channel'[k])
      <4> SUFFICES ASSUME NEW j \in 1..(m + 1), NEW k \in 1..(m + 1), j < k
                   PROVE  Precedes(channel'[j], channel'[k])
        BY <2>4
      <4>1. j \in 1..m /\ channel'[j] = channel[j]
        BY <2>4
      <4>2. CASE k \in 1..m
        BY <4>1, <4>2, <2>4
      <4>3. CASE k = m + 1
        BY <4>1, <4>3, <2>4, <2>6, <2>a
      <4> QED
        BY <4>2, <4>3, <2>4
    <3>2. \A j \in DOMAIN channel' : channel'[j][2] <= Chunks - unread'[channel'[j][1]]
      <4> SUFFICES ASSUME NEW j \in 1..(m + 1) PROVE channel'[j][2] <= Chunks - unread'[channel'[j][1]]
        BY <2>4
      <4>1. CASE j \in 1..m
        BY <4>1, <2>4, <2>6, <2>a
      <4>2. CASE j = m + 1
        BY <4>2, <2>4, <2>b
      <4> QED
        BY <4>1, <4>2, <2>4
    <3> QED
      BY <3>1, <3>2
  <2> QED
    BY <2>5, <2>7, <2>8, <2>9, <2>10 DEF FlowInv
<1> QED
  BY <1>1, <1>2, <1>3, <1>4, <1>5, <1>6, <1>7, <1>8, <1>9 DEF Next

LEMMA EndedNext ==
  ASSUME TypeOK, PhaseInv, FlowInv, EndedInv, [Next]_vars
  PROVE  EndedInv'
<1>1. CASE RunXtask
  BY <1>1 DEF RunXtask, EndedInv
<1>2. CASE HandleOutput
  <2>a. 1 \in DOMAIN queue /\ queue[1].kind = "output"
    BY <1>2, Taken DEF HandleOutput
  <2>b. lastRun' = [lastRun EXCEPT !.shown = Append(@, Head(queue).chunk)]
        /\ lastRun \in [shown : Seq(Chunk), ended : BOOLEAN]
    BY <1>2 DEF HandleOutput, TypeOK
  <2>1. lastRun'.ended = lastRun.ended
    BY <2>b
  <2>2. ~lastRun.ended
    BY <2>a DEF PhaseInv
  <2> QED
    BY <2>1, <2>2 DEF EndedInv
<1>3. CASE HandleFinished
  <2>1. 1 \in DOMAIN queue /\ queue[1].kind = "finished" /\ Head(queue) = queue[1] /\ DOMAIN queue = 1..Len(queue)
    BY <1>3, Taken DEF HandleFinished
  <2>2. CASE ~queue[1].ok
    BY <1>3, <2>1, <2>2 DEF HandleFinished, EndedInv, PhaseInv
  <2>3. CASE queue[1].ok
    <3>1. InFlow /\ runTask = "none" /\ channel = <<>> /\ \A s \in Streams : unread[s] = 0
      BY <2>1, <2>3 DEF InFlow, PhaseInv, TypeOK
    <3>2. \A k \in DOMAIN queue : queue[k].kind # "output"
      <4>1. \A k \in DOMAIN queue : k = 1 \/ 1 < k
        BY <2>1
      <4>2. \A k \in DOMAIN queue : 1 < k => queue[k].kind = "info"
        BY <2>1 DEF PhaseInv
      <4> QED
        BY <2>1, <4>1, <4>2
    <3>3. Covered /\ ShownInOrder
      BY <3>1 DEF FlowInv
    <3>4. \A s \in Streams : \A n \in 1..Chunks : \E k \in DOMAIN lastRun.shown : lastRun.shown[k] = <<s, n>>
      <4> SUFFICES ASSUME NEW s \in Streams, NEW n \in 1..Chunks
                   PROVE  \E k \in DOMAIN lastRun.shown : lastRun.shown[k] = <<s, n>>
        OBVIOUS
      <4>1. n \in 1..(Chunks - unread[s]) /\ DOMAIN channel = {}
        BY <3>1
      <4>2. \/ \E k \in DOMAIN lastRun.shown : lastRun.shown[k] = <<s, n>>
            \/ \E k \in DOMAIN queue : queue[k].kind = "output" /\ queue[k].chunk = <<s, n>>
            \/ \E k \in DOMAIN channel : channel[k] = <<s, n>>
        BY <3>3, <4>1 DEF Covered
      <4> QED
        BY <3>2, <4>1, <4>2
    <3>5. IsComplete(lastRun.shown)
      BY <3>3, <3>4 DEF IsComplete, ShownInOrder
    <3>6. lastRun'.shown = lastRun.shown
      BY <1>3 DEF HandleFinished, TypeOK
    <3> QED
      BY <3>5, <3>6 DEF EndedInv
  <2> QED
    BY <2>2, <2>3
<1>4. CASE \/ Key \/ Refresh \/ Edit \/ Spawn \/ SpawnFails \/ ChildExits \/ Forward \/ Report
           \/ HandleInfo \/ UNCHANGED vars
           \/ \E id \in Loads : Load(id) \/ SendInfo(id)
           \/ \E s \in Streams : ReadChunk(s) \/ ReadEnds(s) \/ ReadFails(s)
  <2>1. UNCHANGED runVars
    BY <1>4 DEF Key, Refresh, Edit, Spawn, SpawnFails, ChildExits, Forward, Report, HandleInfo, vars,
                Load, SendInfo, ReadChunk, ReadEnds, ReadFails
  <2> QED
    BY <2>1 DEF EndedInv, runVars
<1> QED
  BY <1>1, <1>2, <1>3, <1>4 DEF Next

LEMMA XInvInit == Init => XInv
<1> SUFFICES ASSUME Init PROVE XInv
  OBVIOUS
<1>1. AnswerInv
  BY DEF Init, AnswerInv, Loads
<1>2. ShownIsRecent /\ LoadIsUnderWay
  BY DEF Init, ShownIsRecent, LoadIsUnderWay
<1>3. PhaseInv
  BY DEF Init, PhaseInv
<1>4. FlowInv /\ EndedInv
  BY DEF Init, FlowInv, InFlow, EndedInv
<1> QED
  BY <1>1, <1>2, <1>3, <1>4, TypeInit DEF XInv

LEMMA XInvNext == XInv /\ [Next]_vars => XInv'
  BY TypeNext, LoadSideNext, PhaseNext, FlowNext, EndedNext DEF XInv, LoadSide

-----------------------------------------------------------------------------
(***************************************************************************)
(* The value of an argument.                                               *)
(***************************************************************************)

(* Every set of numbers that is not empty has a least one.                 *)
LEMMA Least ==
  ASSUME NEW T, T \subseteq Nat, T # {}
  PROVE  \E n \in T : \A m \in T : n <= m
<1>1. IsWellFoundedOn(OpToRel(<, Nat), Nat)
  BY NatLessThanWellFounded
<1>2. PICK n \in T : \A m \in T : ~(<<m, n>> \in OpToRel(<, Nat))
  BY <1>1, WFMin
<1>3. \A m \in T : m < n => <<m, n>> \in OpToRel(<, Nat)
  BY DEF OpToRel
<1>4. \A m \in T : ~(m < n) => n <= m
  OBVIOUS
<1> QED
  BY <1>2, <1>3, <1>4

LEMMA Remainder ==
  ASSUME NEW a \in Nat, NEW n \in Nat \ {0}
  PROVE  a % n \in 0..(n - 1)
  OBVIOUS

(* The texts of different kinds differ.                                    *)
LEMMA Texts ==
  /\ Argument!Missing.kind = "missing" /\ Argument!Blank.kind = "blank"
  /\ Argument!On.kind = "bool" /\ Argument!Off.kind = "bool" /\ Argument!On # Argument!Off
  /\ \A w : Argument!Word(w).kind = "word" /\ Argument!Word(w).word = w
  /\ \A i : Argument!Int64(i).kind = "int" /\ Argument!Int64(i).int = i
  /\ \A t \in Argument!Typed : t.kind \in {"blank", "word", "int"}
  /\ \A t \in Argument!Typed : t.kind = "int" => t.int \in MinInt..MaxInt /\ t = Argument!Int64(t.int)
  /\ \A t \in Argument!Typed : t.kind = "blank" => t = Argument!Blank
<1>2. /\ Argument!Missing.kind = "missing" /\ Argument!Blank.kind = "blank"
      /\ Argument!On.kind = "bool" /\ Argument!Off.kind = "bool"
      /\ Argument!On.word = "on" /\ Argument!Off.word = "off"
  BY DEF Argument!Missing, Argument!Blank, Argument!On, Argument!Off, Argument!Text
<1>3. \A w : Argument!Word(w).kind = "word" /\ Argument!Word(w).word = w
  BY DEF Argument!Word, Argument!Text
<1>4. \A i : Argument!Int64(i).kind = "int" /\ Argument!Int64(i).int = i
  BY DEF Argument!Int64, Argument!Text
<1>5. Argument!On # Argument!Off
  BY <1>2
<1>6. \A t \in Argument!Typed : \/ t = Argument!Blank \/ \E w \in Words : t = Argument!Word(w)
                               \/ \E i \in MinInt..MaxInt : t = Argument!Int64(i)
  BY DEF Argument!Typed
<1> QED
  BY <1>2, <1>3, <1>4, <1>5, <1>6

Declared(p) == p \in Argument!Program /\ Argument!WellFormed(p) /\ Argument!Exposed(p)

(* What the entry says of an argument that Clap accepts.                   *)
LEMMA Entries ==
  ASSUME NEW p, Declared(p)
  PROVE  LET s == Argument!ArgSpec(p) IN
         /\ s.kind \in {"Bool", "Enum", "Number", "String"} /\ s.required = p.required
         /\ s.choices \in Choices /\ p.required \in BOOLEAN
         /\ s.kind = "Bool" =>
              /\ p.choices = <<>> /\ ~p.required
              /\ \/ p.action = "SetTrue" /\ s.default = Argument!Off
                 \/ p.action = "SetFalse" /\ s.default = Argument!On
         /\ s.kind # "Bool" =>
              /\ p.action = "Set" /\ s.default = p.default /\ s.choices = p.choices
              /\ s.default \in Argument!Typed \union {Argument!Missing}
              /\ s.required => s.default = Argument!Missing
         /\ s.kind = "Enum" <=> p.choices # <<>>
         /\ s.kind = "Number" => s.default.kind = "int"
<1> DEFINE s == Argument!ArgSpec(p)
<1>1. /\ p.action \in {"SetTrue", "SetFalse", "Set"} /\ p.choices \in Choices /\ p.required \in BOOLEAN
      /\ p.default \in Argument!Typed \union {Argument!Missing}
      /\ p.action # "Set" => p.default = Argument!Missing /\ ~p.required /\ p.choices = <<>>
      /\ p.required => p.default = Argument!Missing
  BY DEF Declared, Argument!Program, Argument!WellFormed, Argument!Exposed
<1>2. <<>> \in Choices
  BY ArgumentAssumption DEF Argument!ArgumentAssumption
<1>3. CASE p.action = "SetTrue"
  BY <1>1, <1>2, <1>3 DEF Argument!ArgSpec, Argument!Spec4
<1>4. CASE p.action = "SetFalse"
  BY <1>1, <1>2, <1>4 DEF Argument!ArgSpec, Argument!Spec4
<1>5. CASE p.action = "Set" /\ p.choices # <<>>
  <2>1. s = Argument!Spec4("Enum", p.choices, p.default, p.required)
    BY <1>5 DEF Argument!ArgSpec
  <2> QED
    BY <1>1, <1>5, <2>1 DEF Argument!Spec4
<1>6. CASE p.action = "Set" /\ p.choices = <<>> /\ Argument!Parses(p.default)
  <2>1. s = Argument!Spec4("Number", <<>>, p.default, p.required)
    BY <1>6 DEF Argument!ArgSpec
  <2> QED
    BY <1>1, <1>6, <2>1 DEF Argument!Spec4, Argument!Parses
<1>7. CASE p.action = "Set" /\ p.choices = <<>> /\ ~Argument!Parses(p.default)
  <2>1. s = Argument!Spec4("String", <<>>, p.default, p.required)
    BY <1>7 DEF Argument!ArgSpec
  <2> QED
    BY <1>1, <1>7, <2>1 DEF Argument!Spec4
<1> QED
  BY <1>1, <1>3, <1>4, <1>5, <1>6, <1>7

\* A value of the kind of its entry; a refused entry has none.
Fits(s, text) ==
  /\ s.kind = "Bool" => text \in {Argument!On, Argument!Off}
  /\ s.kind = "Enum" => Argument!Offers(s, text)
  /\ s.kind = "Number" => text = Argument!Blank \/ Argument!Parses(text)
  /\ s.kind # "Bool" => text \in Argument!Typed

ArgumentInv ==
  /\ Argument!TypeOK /\ Declared(program)
  /\ IF Argument!Valid(Argument!spec) THEN Fits(Argument!spec, value)
                                      ELSE value = Argument!Missing

(* Nextdeck and Clap agree on every value of the kind of the entry, as far *)
(* as the entry says what Clap takes.                                      *)
LEMMA RequestIsTrue == ArgumentInv => ReceivedIsShown
<1> SUFFICES ASSUME ArgumentInv PROVE ReceivedIsShown
  OBVIOUS
<1> DEFINE s == Argument!spec
           r == Argument!request
<1>1. /\ s.kind \in {"Bool", "Enum", "Number", "String"} /\ s.required = program.required
      /\ program.required \in BOOLEAN
      /\ s.kind = "Bool" =>
           /\ program.choices = <<>> /\ ~program.required
           /\ \/ program.action = "SetTrue" /\ s.default = Argument!Off
              \/ program.action = "SetFalse" /\ s.default = Argument!On
      /\ s.kind # "Bool" =>
           /\ program.action = "Set" /\ s.default = program.default /\ s.choices = program.choices
           /\ s.default \in Argument!Typed \union {Argument!Missing}
           /\ s.required => s.default = Argument!Missing
      /\ s.kind = "Enum" <=> program.choices # <<>>
      /\ s.kind = "Number" => s.default.kind = "int"
  BY Entries DEF ArgumentInv, Argument!spec
<1>2. s = Argument!ArgSpec(program) /\ r = Argument!AppendArg(s, value)
  BY DEF Argument!spec, Argument!request
<1>6. /\ program.type \in {"text", "integer", "natural"}
      /\ program.choices # <<>> => program.type = "text"
  BY DEF ArgumentInv, Declared, Argument!Program, Argument!WellFormed
<1>3. ASSUME Argument!Valid(s), r.ok
      PROVE  /\ (value # Argument!Blank /\ (s.kind = "Enum" => s.default # Argument!Missing)) =>
                  Argument!Received(program, r) = value
             /\ Argument!AsDescribed(program, value) => Argument!ClapAccepts(program, r)
  <2>1. Fits(s, value)
    BY <1>3 DEF ArgumentInv
  <2> HIDE DEF s, r
  <2>2. CASE s.kind = "Bool"
    <3>1. r = [ok |-> TRUE, given |-> value # s.default, text |-> Argument!Missing]
      BY <1>2, <2>2 DEF Argument!AppendArg, Argument!Request
    <3>2. value \in {Argument!On, Argument!Off}
      BY <2>1, <2>2 DEF Fits
    <3>3. Argument!Received(program, r) = value
      BY <3>1, <3>2, <1>1, <2>2, Texts DEF Argument!Received
    <3>4. program.action # "Set"
      BY <1>1, <2>2
    <3>5. Argument!AsDescribed(program, value) => Argument!ClapAccepts(program, r)
      BY <1>1, <2>2, <3>4 DEF Argument!ClapAccepts, Argument!AsDescribed
    <3> QED
      BY <3>3, <3>5
  <2>3. CASE s.kind # "Bool"
    <3>1. r = Argument!AppendValue(s, value) /\ program.action = "Set" /\ value \in Argument!Typed
      BY <1>1, <1>2, <2>1, <2>3 DEF Argument!AppendArg, Fits
    <3>2. CASE value = Argument!Blank
      <4>1. r = [ok |-> ~s.required, given |-> FALSE, text |-> Argument!Missing]
        BY <3>1, <3>2 DEF Argument!AppendValue, Argument!Request
      <4>2. Argument!ClapAccepts(program, r)
        BY <4>1, <1>1, <1>3 DEF Argument!ClapAccepts
      <4> QED
        BY <3>2, <4>2
    <3>3. CASE /\ value # Argument!Blank /\ ~(s.kind = "Enum" /\ ~Argument!Offers(s, value))
               /\ ~s.required /\ value = Argument!DefaultValue(s)
      <4>1. r = [ok |-> TRUE, given |-> FALSE, text |-> Argument!Missing]
        BY <3>1, <3>3 DEF Argument!AppendValue, Argument!Request
      <4>2. Argument!ClapAccepts(program, r)
        BY <4>1, <1>1, <3>3 DEF Argument!ClapAccepts
      <4>3. Argument!Received(program, r) = program.default
        BY <4>1, <3>1 DEF Argument!Received
      <4>4. CASE s.default # Argument!Missing
        BY <4>2, <4>3, <4>4, <3>3, <1>1, <2>3 DEF Argument!DefaultValue
      <4>5. CASE s.default = Argument!Missing /\ s.kind # "Enum"
        <5>1. Argument!DefaultValue(s) = Argument!Blank
          BY <4>5 DEF Argument!DefaultValue
        <5> QED
          BY <5>1, <3>3
      <4> QED
        BY <4>2, <4>4, <4>5
    <3>4. CASE /\ value # Argument!Blank /\ ~(s.kind = "Enum" /\ ~Argument!Offers(s, value))
               /\ ~(~s.required /\ value = Argument!DefaultValue(s))
      <4>1. r = [ok |-> TRUE, given |-> TRUE, text |-> value]
        BY <3>1, <3>4 DEF Argument!AppendValue, Argument!Request
      <4>2. program.choices # <<>> => \E i \in DOMAIN program.choices : value = Argument!Word(program.choices[i])
        BY <3>4, <1>1, <2>3 DEF Argument!Offers
      <4>3. s.kind = "Number" => Argument!Parses(value)
        BY <2>1, <3>4 DEF Fits
      <4>4. Argument!AsDescribed(program, value) => Argument!OfType(program.type, value)
        BY <4>3, <1>1, <1>2, <1>6, <2>3 DEF Argument!AsDescribed, Argument!OfType
      <4>6. Argument!AsDescribed(program, value) => Argument!ClapAccepts(program, r)
        BY <4>1, <4>2, <4>4, <3>1 DEF Argument!ClapAccepts, Argument!AsDescribed
      <4>5. Argument!Received(program, r) = value
        BY <4>1, <3>1 DEF Argument!Received
      <4> QED
        BY <4>5, <4>6
    <3>5. CASE value # Argument!Blank /\ s.kind = "Enum" /\ ~Argument!Offers(s, value)
      BY <3>5, <2>1 DEF Fits
    <3> QED
      BY <3>2, <3>3, <3>4, <3>5
  <2> QED
    BY <2>2, <2>3
<1>4. Argument!ReceivedIsShown /\ Argument!RequestIsAccepted
  BY <1>3 DEF Argument!ReceivedIsShown, Argument!RequestIsAccepted
<1> QED
  BY <1>4 DEF ReceivedIsShown, ArgumentInv

(* The default of an entry that was accepted is a value of its kind.       *)
LEMMA DefaultFits ==
  ASSUME NEW p, Declared(p), Argument!Valid(Argument!ArgSpec(p))
  PROVE  /\ Fits(Argument!ArgSpec(p), Argument!DefaultValue(Argument!ArgSpec(p)))
         /\ Argument!DefaultValue(Argument!ArgSpec(p)) \in
              Argument!Typed \union {Argument!On, Argument!Off}
<1> DEFINE s == Argument!ArgSpec(p)
           d == Argument!DefaultValue(s)
<1>1. /\ s.kind \in {"Bool", "Enum", "Number", "String"} /\ s.choices \in Choices
      /\ s.kind = "Bool" => s.default \in {Argument!On, Argument!Off}
      /\ s.kind # "Bool" => s.default \in Argument!Typed \union {Argument!Missing}
      /\ s.kind = "Number" => s.default.kind = "int"
  BY Entries
<1>2. Argument!Blank \in Argument!Typed
  BY DEF Argument!Typed
<1>3. s.kind = "Enum" => s.choices # <<>> /\ (s.default # Argument!Missing => Argument!Offers(s, s.default))
  BY DEF Argument!Valid
<1> HIDE DEF s
<1>4. CASE s.default # Argument!Missing
  <2>1. d = s.default
    BY <1>4 DEF Argument!DefaultValue
  <2> QED
    BY <1>1, <1>3, <1>4, <2>1 DEF Fits, Argument!Parses, s
<1>5. CASE s.default = Argument!Missing /\ s.kind = "Enum"
  <2>1. d = Argument!Word(s.choices[1])
    BY <1>5 DEF Argument!DefaultValue
  <2>2. s.choices \in Seq(Words) /\ s.choices # <<>>
    BY <1>1, <1>3, <1>5, ArgumentAssumption DEF Argument!ArgumentAssumption
  <2>3. 1 \in DOMAIN s.choices /\ s.choices[1] \in Words
    BY <2>2
  <2> QED
    BY <1>5, <2>1, <2>3 DEF Fits, Argument!Offers, Argument!Typed, s
<1>6. CASE s.default = Argument!Missing /\ s.kind # "Enum"
  <2>1. d = Argument!Blank
    BY <1>6 DEF Argument!DefaultValue
  <2>2. s.kind = "String" \/ s.kind = "Number"
    BY <1>1, <1>6, Texts
  <2> QED
    BY <1>2, <2>1, <2>2, <1>6 DEF Fits, s
<1> QED
  BY <1>4, <1>5, <1>6

(* A choice is followed by a choice (cycle_enum).                          *)
LEMMA CycledIsOffered ==
  ASSUME NEW choices \in Seq(Words), choices # <<>>, NEW text, NEW delta \in {-1, 1}
  PROVE  \E i \in DOMAIN choices :
           Argument!Cycled(choices, text, delta) = Argument!Word(choices[i])
<1> DEFINE len == Len(choices)
           at == {i \in 1..len : text = Argument!Word(choices[i])}
           index == IF at = {} THEN 0 ELSE (CHOOSE i \in at : \A j \in at : i <= j) - 1
           next == IF delta < 0 THEN (index + len - 1) % len ELSE (index + 1) % len
<1>1. len \in Nat \ {0} /\ DOMAIN choices = 1..len
  OBVIOUS
<1>2. index \in Nat
  <2>1. CASE at = {}
    BY <2>1
  <2>2. CASE at # {}
    <3>1. at \subseteq Nat
      BY <1>1
    <3>2. \E i \in at : \A j \in at : i <= j
      BY <2>2, <3>1, Least
    <3>3. (CHOOSE i \in at : \A j \in at : i <= j) \in at
      BY <3>2
    <3>4. (CHOOSE i \in at : \A j \in at : i <= j) \in 1..len
      BY <3>3
    <3> HIDE DEF at
    <3> QED
      BY <2>2, <3>4, <1>1
  <2> QED
    BY <2>1, <2>2
<1>3. Argument!Cycled(choices, text, delta) = Argument!Word(choices[1 + next])
  BY DEF Argument!Cycled
<1> HIDE DEF len, index
<1>4. next \in 0..(len - 1)
  <2>1. index + len - 1 \in Nat /\ index + 1 \in Nat
    BY <1>1, <1>2
  <2>2. (index + len - 1) % len \in 0..(len - 1) /\ (index + 1) % len \in 0..(len - 1)
    BY <1>1, <2>1, Remainder
  <2> QED
    BY <2>2
<1> HIDE DEF next
<1>5. 1 + next \in DOMAIN choices
  BY <1>1, <1>4
<1> QED
  BY <1>3, <1>5

LEMMA ArgumentInit == Argument!Init => ArgumentInv
<1> SUFFICES ASSUME Argument!Init PROVE ArgumentInv
  OBVIOUS
<1>1. Declared(program)
  BY DEF Argument!Init, Declared
<1>2. CASE Argument!Valid(Argument!spec)
  <2>1. value = Argument!DefaultValue(Argument!ArgSpec(program))
    BY <1>2 DEF Argument!Init, Argument!spec
  <2> QED
    BY <1>1, <1>2, <2>1, DefaultFits DEF ArgumentInv, Argument!TypeOK, Argument!spec, Declared
<1>3. CASE ~Argument!Valid(Argument!spec)
  BY <1>1, <1>3 DEF Argument!Init, ArgumentInv, Argument!TypeOK, Declared
<1> QED
  BY <1>2, <1>3

LEMMA ArgumentNext ==
  ASSUME ArgumentInv, [Argument!Next]_(Argument!vars)
  PROVE  ArgumentInv'
<1> DEFINE s == Argument!spec
<1>1. Declared(program) /\ s = Argument!ArgSpec(program)
  BY DEF ArgumentInv, Argument!spec
<1>2. CASE Argument!Reload
  <2> DEFINE next == Argument!ArgSpec(program')
  <2>1. Declared(program') /\ Argument!Valid(s) /\ Argument!Valid(next) /\ next = s'
    BY <1>2 DEF Argument!Reload, Declared, Argument!spec
  <2>2. CASE next.kind = s.kind /\ Argument!Matches(next, value)
    <3>1. value' = value
      BY <1>2, <2>2 DEF Argument!Reload, Argument!spec
    <3>2. Fits(s, value) /\ next.kind \in {"Bool", "Enum", "Number", "String"}
      BY <2>1, Entries DEF ArgumentInv
    <3> HIDE DEF next, s
    <3>3. Fits(next, value)
      BY <2>2, <3>2 DEF Fits, Argument!Matches
    <3> QED
      BY <2>1, <3>1, <3>3 DEF ArgumentInv, Argument!TypeOK, Declared, next, s
  <2>3. CASE ~(next.kind = s.kind /\ Argument!Matches(next, value))
    <3>1. value' = Argument!DefaultValue(next)
      BY <1>2, <2>3 DEF Argument!Reload, Argument!spec
    <3>2. Fits(next, value') /\ value' \in Argument!Typed \union {Argument!On, Argument!Off}
      BY <2>1, <3>1, DefaultFits
    <3> HIDE DEF next, s
    <3> QED
      BY <2>1, <3>2 DEF ArgumentInv, Argument!TypeOK, Declared, next, s
  <2> QED
    BY <2>2, <2>3
<1>3. ASSUME program' = program, Argument!Valid(s), Fits(s, value'),
             value' \in Argument!Typed \union {Argument!Missing, Argument!On, Argument!Off}
      PROVE  ArgumentInv'
  <2>1. s' = s /\ (Argument!Valid(s)' <=> Argument!Valid(s))
    BY <1>3 DEF Argument!spec
  <2>2. Fits(s, value)' = Fits(s, value')
    BY <2>1 DEF Fits, Argument!Offers
  <2> HIDE DEF s
  <2> QED
    BY <1>3, <2>1, <2>2 DEF ArgumentInv, Argument!TypeOK, Declared, s
<1>4. CASE \E delta \in {-1, 1} : Argument!Adjust(delta)
  <2>1. PICK delta \in {-1, 1} : Argument!Adjust(delta)
    BY <1>4
  <2>2. program' = program /\ Argument!Valid(s) /\ Fits(s, value)
    BY <2>1 DEF Argument!Adjust, ArgumentInv
  <2>3. CASE s.kind = "Bool" /\ value' = IF value = Argument!On THEN Argument!Off ELSE Argument!On
    BY <1>3, <2>2, <2>3 DEF Fits
  <2>4. CASE s.kind = "Enum" /\ value' = Argument!Cycled(s.choices, value, delta)
    <3>1. s.choices \in Seq(Words) /\ s.choices # <<>>
      BY <1>1, <2>2, <2>4, Entries, ArgumentAssumption DEF Argument!ArgumentAssumption, Argument!Valid
    <3>2. PICK i \in DOMAIN s.choices : value' = Argument!Word(s.choices[i])
      BY <2>4, <3>1, CycledIsOffered
    <3>3. s.choices[i] \in Words
      BY <3>1, <3>2
    <3>4. Argument!Offers(s, value') /\ value' \in Argument!Typed
      BY <3>2, <3>3 DEF Argument!Offers, Argument!Typed
    <3> QED
      BY <1>3, <2>2, <2>4, <3>4 DEF Fits
  <2>5. CASE /\ s.kind = "Number" /\ Argument!Parses(value)
             /\ value' = Argument!Int64(Argument!Saturated(value.int + delta))
    <3>1. value \in Argument!Typed /\ value.kind = "int"
      BY <2>2, <2>5 DEF Fits, Argument!Parses
    <3>2. value.int \in MinInt..MaxInt /\ MinInt \in Int /\ MaxInt \in Int /\ MinInt <= MaxInt
      BY <3>1, Texts, ArgumentAssumption DEF Argument!ArgumentAssumption
    <3>3. Argument!Saturated(value.int + delta) \in MinInt..MaxInt
      BY <3>2 DEF Argument!Saturated
    <3>4. value' \in Argument!Typed /\ Argument!Parses(value')
      BY <2>5, <3>3, Texts DEF Argument!Typed, Argument!Parses
    <3> QED
      BY <1>3, <2>2, <2>5, <3>4 DEF Fits
  <2> QED
    BY <2>1, <2>3, <2>4, <2>5 DEF Argument!Adjust
<1>5. CASE \E text \in Argument!Typed : Argument!CommitEdit(text)
  <2>1. PICK text \in Argument!Typed : Argument!CommitEdit(text)
    BY <1>5
  <2>2. /\ program' = program /\ Argument!Valid(s) /\ Fits(s, value)
        /\ s.kind \in {"Number", "String"}
        /\ value' = IF s.kind = "Number" /\ text # Argument!Blank /\ ~Argument!Parses(text)
                    THEN value ELSE text
    BY <2>1 DEF Argument!CommitEdit, ArgumentInv
  <2>3. Fits(s, value') /\ value' \in Argument!Typed
    BY <2>2 DEF Fits
  <2> QED
    BY <1>3, <2>2, <2>3
<1>6. CASE Argument!NotAdjustable \/ UNCHANGED Argument!vars
  <2>1. UNCHANGED <<program, value>>
    BY <1>6 DEF Argument!NotAdjustable, Argument!vars
  <2> QED
    BY <2>1 DEF ArgumentInv, Argument!TypeOK, Declared, Argument!spec
<1> QED
  BY <1>2, <1>4, <1>5, <1>6 DEF Argument!Next

-----------------------------------------------------------------------------
(***************************************************************************)
(* The whole panel.                                                        *)
(***************************************************************************)

LEMMA PanelInvariance == PanelSpec => [](XInv /\ ArgumentInv)
<1>1. PanelInit => XInv /\ ArgumentInv
  BY XInvInit, ArgumentInit DEF PanelInit
<1>2. [PanelNext]_panel => [Next]_vars /\ [Argument!Next]_(Argument!vars)
  BY DEF PanelNext, panel, Argument!vars
<1>3. XInv /\ ArgumentInv /\ [PanelNext]_panel => (XInv /\ ArgumentInv)'
  BY <1>2, XInvNext, ArgumentNext
<1> QED
  BY <1>1, <1>3, PTL DEF PanelSpec

(* The panel ends with the answer to its last question, waits only for an  *)
(* answer that comes, and a command receives the values the panel shows    *)
(* (begin_load, apply_event, run_request, append_arg, reconcile).          *)
THEOREM Panel == PanelSpec => []PanelInv
<1>1. XInv /\ ArgumentInv => PanelInv
  BY RequestIsTrue DEF XInv, PanelInv
<1> QED
  BY <1>1, PanelInvariance, PTL

(* A command that has concluded has shown all that it wrote, each stream   *)
(* in its order, and has left nothing that could disturb the next one      *)
(* (start_xtask_run, read_run_stream, run_streaming).                      *)
THEOREM Concluded == PanelSpec => []ConcludedIsComplete
<1>1. XInv => ConcludedIsComplete
  BY DEF XInv, ConcludedIsComplete, EndedInv, PhaseInv
<1> QED
  BY <1>1, PanelInvariance, PTL
=============================================================================
