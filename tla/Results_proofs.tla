---------------------------- MODULE Results_proofs ---------------------------
(***************************************************************************)
(* What is shown of a run: the statuses of its tests, for any number of    *)
(* tests, targets and runs, whatever names contain one another; the logs   *)
(* of events, for logs of any number and capacity; and the output, for     *)
(* texts of any length, characters of one or two bytes, and any limit.     *)
(***************************************************************************)
EXTENDS Results, FiniteSetTheorems, SequenceTheorems, NaturalsInduction, WellFoundedInduction, TLAPS

(* A test that a run may start is one that its scope takes it for.         *)
Reached(t) == \E u \in scope.tests : LooksInto(u, t) /\ Takes(u, t)

(* What is still to be run has not run, and is reached once, but for the   *)
(* tests that the argument set of another target takes along.              *)
WorkInv ==
  /\ \A t \in queued : Reached(t) /\ (ran[t] = 0 \/ TakenAlong(t))
  /\ \A a \in todo : \A t \in SelectedBy(a) :
       Reached(t) /\ (TakenAlong(t) \/ (ran[t] = 0 /\ t \notin queued))
  /\ \A a, b \in todo : \A t \in SelectedBy(a) \cap SelectedBy(b) : a = b \/ TakenAlong(t)

(* The nextest process, and a run, that is not there has nothing left.     *)
ProcessInv ==
  /\ proc # "testing" => live = {} /\ ~broken /\ notice = 0
  /\ proc = "none" => queued = {}
  /\ ~running => proc = "none" /\ todo = {}
  /\ running => outcome = "Running"
  /\ live # {} => started

(* As long as no group and no test has failed, every test that ran has     *)
(* passed or is still running.                                             *)
StatusInv ==
  /\ \A t \in Tests : status[t] = "Ignored" => t \in Ignored
  /\ running =>
       /\ \A t \in Tests : status[t] = "Running" => started /\ (t \in live \/ firstCode = "nonzero")
       /\ firstCode = "zero" /\ ~broken =>
            \A t \in Tests : /\ status[t] # "Failed"
                             /\ ran[t] > 0 => t \in live \/ status[t] = "Passed"

Types == TypeOK /\ firstCode \in {"zero", "nonzero"} /\ broken \in BOOLEAN

IInv ==
  /\ Types /\ WorkInv /\ ProcessInv /\ StatusInv
  /\ NothingLeftRunning /\ FailureLeavesNothingOpen /\ RunsOnce
  /\ OnlyScopeRuns /\ VerdictIsTrue

-----------------------------------------------------------------------------
ScopeKinds == {"Workspace", "Package", "Binary", "Module", "Test", "Failed", "TestSet"}

LEMMA SelectedAreTests == \A a : SelectedBy(a) \subseteq Tests
BY TestsAssumption DEF SelectedBy

(* What a scope is, whichever node, failures or preset it comes from.      *)
ScopeFits(s) ==
  /\ s.tests \subseteq Tests /\ s.kind \in ScopeKinds
  /\ s.kind = "Workspace" => s.tests = Tests
  /\ s.kind = "Package" => s.tests = {t \in Tests : PackageOf[TargetOf[t]] = s.package}
  /\ s.kind = "Binary" => \E u \in s.tests : TargetOf[u] = s.target
  /\ s.kind = "Module" => \E u \in s.tests : TargetOf[u] = s.target

LEMMA ScopeShape ==
  ASSUME NEW s \in Scopes
  PROVE  ScopeFits(s)
<1> USE TestsAssumption DEF ScopeFits, ScopeKinds
<1>1. CASE s = Workspace
  BY <1>1 DEF Workspace
<1>2. ASSUME NEW t \in Tests, s = Package(PackageOf[TargetOf[t]])
      PROVE  ScopeFits(s)
  BY <1>2 DEF Package
<1>3. ASSUME NEW t \in Tests, s = Binary(TargetOf[t])
      PROVE  ScopeFits(s)
  BY <1>3 DEF Binary
<1>4. ASSUME NEW p \in Paths, NEW t \in Below[p], s = Module(TargetOf[t], p)
      PROVE  ScopeFits(s)
  BY <1>4 DEF Module
<1>5. ASSUME NEW kind \in {"Test", "Failed", "TestSet"}, NEW f \in SUBSET Tests, s = Chosen(kind, f)
      PROVE  ScopeFits(s)
  BY <1>5 DEF Chosen
<1> HIDE DEF ScopeFits
<1>6. CASE \E t \in Tests : s = Chosen("Test", {t})
  BY <1>5, <1>6
<1>7. CASE \E f \in {{t \in Tests : status[t] = "Failed"}} \ {{}} : s = Chosen("Failed", f)
  BY <1>5, <1>7
<1>8. CASE \E g \in SUBSET Ignored \ {{}} : s = Chosen("TestSet", g)
  BY <1>5, <1>8
<1> DEFINE modules == UNION {{Module(TargetOf[t], p) : t \in Below[p]} : p \in Paths}
<1>9. CASE s \in modules
  <2>1. PICK p \in Paths : s \in {Module(TargetOf[t], p) : t \in Below[p]}
    BY <1>9
  <2> QED
    BY <1>4, <2>1
<1>10. \/ s = Workspace \/ s \in modules
       \/ s \in {Package(PackageOf[TargetOf[t]]) : t \in Tests}
       \/ s \in {Binary(TargetOf[t]) : t \in Tests}
       \/ s \in {Chosen("Test", {t}) : t \in Tests}
       \/ s \in {Chosen("Failed", f) : f \in {{t \in Tests : status[t] = "Failed"}} \ {{}}}
       \/ s \in {Chosen("TestSet", g) : g \in SUBSET Ignored \ {{}}}
  BY Zenon DEF Scopes
<1> HIDE DEF modules
<1> QED
  BY <1>1, <1>2, <1>3, <1>6, <1>7, <1>8, <1>9, <1>10

(* What Takes says, of a scope that a run may be begun with.               *)
TakesIn(s, u, t) ==
  CASE s.kind \in {"Workspace", "Package", "Binary"} -> TRUE
    [] s.kind = "Module" -> t \in NameIn[s.path]
    [] OTHER -> t \in NameIn[u]

(* The groups of a scope reach what it takes, and a test twice only where  *)
(* its target is not told from that of another group.                      *)
LEMMA GroupsReach ==
  ASSUME NEW s \in Scopes, NEW option, NEW a \in ArgSets(s, option), NEW t \in SelectedBy(a)
  PROVE  /\ t \in Tests
         /\ \E u \in s.tests : LooksInto(u, t) /\ TakesIn(s, u, t)
         /\ \A b \in ArgSets(s, option) : t \in SelectedBy(b) =>
              b = a \/ \E u \in s.tests : TargetOf[u] # TargetOf[t] /\ LooksInto(u, t) /\ t \in NameIn[u]
<1> USE TestsAssumption DEF SelectedBy
<1>1. t \in Tests /\ TargetOf[t] \in Targets /\ TargetOf[t] \in a.from
      /\ (a.names = {} \/ \E n \in a.names : t \in NameIn[n])
  OBVIOUS
<1>s. s.tests \subseteq Tests /\ s.kind \in ScopeKinds
  BY ScopeShape DEF ScopeFits
<1>l. ASSUME NEW u \in Tests, TargetOf[t] \in BinaryNextestArgs(TargetOf[u])
      PROVE  LooksInto(u, t)
  BY <1>l, <1>1 DEF BinaryNextestArgs, LooksInto
<1>2. CASE s.kind = "Workspace"
  <2>1. ArgSets(s, option) = {Args(0, Targets, {}, option)} /\ s.tests = Tests
    BY <1>2, ScopeShape DEF ScopeFits, ArgSets
  <2> QED
    BY <1>1, <1>2, <2>1 DEF LooksInto, TakesIn
<1>3. CASE s.kind = "Package"
  <2>1. /\ ArgSets(s, option) = {Args(0, {g \in Targets : PackageOf[g] = s.package}, {}, option)}
        /\ s.tests = {u \in Tests : PackageOf[TargetOf[u]] = s.package}
    BY <1>3, ScopeShape DEF ScopeFits, ArgSets
  <2>2. t \in s.tests
    BY <1>1, <2>1 DEF Args
  <2> QED
    BY <1>1, <1>3, <2>1, <2>2 DEF LooksInto, TakesIn
<1>4. CASE s.kind = "Binary"
  <2>1. ArgSets(s, option) = {Args(s.target, BinaryNextestArgs(s.target), {}, option)}
    BY <1>4 DEF ArgSets
  <2>2. PICK u \in s.tests : s.target = TargetOf[u]
    BY <1>4, ScopeShape DEF ScopeFits
  <2>3. LooksInto(u, t)
    BY <1>1, <1>s, <1>l, <2>1, <2>2 DEF Args
  <2> QED
    BY <1>1, <1>4, <2>1, <2>2, <2>3 DEF TakesIn
<1>5. CASE s.kind = "Module"
  <2>1. ArgSets(s, option) = {Args(s.target, BinaryNextestArgs(s.target), {s.path}, option)}
    BY <1>5 DEF ArgSets
  <2>2. PICK u \in s.tests : s.target = TargetOf[u]
    BY <1>5, ScopeShape DEF ScopeFits
  <2>3. LooksInto(u, t) /\ t \in NameIn[s.path]
    BY <1>1, <1>s, <1>l, <2>1, <2>2 DEF Args
  <2> QED
    BY <1>1, <1>5, <2>1, <2>2, <2>3 DEF TakesIn
<1>6. CASE s.kind \in {"Test", "Failed", "TestSet"}
  <2> DEFINE Group(v) == Args(TargetOf[v], BinaryNextestArgs(TargetOf[v]),
                              {u \in s.tests : TargetOf[u] = TargetOf[v]}, option)
  <2>1. ArgSets(s, option) = {Group(v) : v \in s.tests}
    BY <1>6 DEF ArgSets
  <2>2. ASSUME NEW v \in s.tests, t \in SelectedBy(Group(v))
        PROVE  \E n \in s.tests : TargetOf[n] = TargetOf[v] /\ LooksInto(n, t) /\ t \in NameIn[n]
    <3>1. v \in {u \in s.tests : TargetOf[u] = TargetOf[v]}
      OBVIOUS
    <3>2. PICK n \in s.tests : TargetOf[n] = TargetOf[v] /\ t \in NameIn[n]
      BY <2>2, <3>1 DEF Args
    <3>3. TargetOf[t] \in BinaryNextestArgs(TargetOf[n])
      BY <2>2, <3>2 DEF Args
    <3> QED
      BY <1>s, <1>l, <3>2, <3>3
  <2>3. PICK v \in s.tests : a = Group(v)
    BY <2>1
  <2>4. \E u \in s.tests : LooksInto(u, t) /\ TakesIn(s, u, t)
    BY <1>6, <2>2, <2>3 DEF TakesIn
  <2>5. ASSUME NEW w \in s.tests, t \in SelectedBy(Group(w)), Group(w) # a
        PROVE  \E u \in s.tests : TargetOf[u] # TargetOf[t] /\ LooksInto(u, t) /\ t \in NameIn[u]
    <3>1. TargetOf[w] # TargetOf[v]
      BY <2>3, <2>5
    <3>2. CASE TargetOf[w] # TargetOf[t]
      BY <2>2, <2>5, <3>2
    <3>3. CASE TargetOf[v] # TargetOf[t]
      BY <2>2, <2>3, <3>3
    <3> QED
      BY <3>1, <3>2, <3>3
  <2> QED
    BY <1>1, <2>1, <2>4, <2>5
<1> QED
  BY <1>s, <1>2, <1>3, <1>4, <1>5, <1>6 DEF ScopeKinds

-----------------------------------------------------------------------------
LEMMA InitHolds == Init => IInv
<1> SUFFICES ASSUME Init PROVE IInv
  OBVIOUS
<1>1. broken \in BOOLEAN /\ running \in BOOLEAN /\ started \in BOOLEAN
  BY Zenon DEF Init
<1>2. Types
  BY <1>1 DEF Init, Types, TypeOK, Statuses, Workspace
<1>3. \A t \in Tests : ran[t] = 0 /\ (status[t] = "Ignored" => t \in Ignored) /\ status[t] # "Running"
  BY DEF Init
<1>4. WorkInv /\ ProcessInv /\ StatusInv
  BY <1>3 DEF Init, WorkInv, ProcessInv, StatusInv
<1>5. NothingLeftRunning /\ FailureLeavesNothingOpen /\ RunsOnce /\ OnlyScopeRuns /\ VerdictIsTrue
  BY <1>3 DEF Init, Workspace, NothingLeftRunning, FailureLeavesNothingOpen, RunsOnce, OnlyScopeRuns, VerdictIsTrue
<1> QED
  BY <1>2, <1>4, <1>5 DEF IInv

LEMMA BeginPreserves ==
  ASSUME IInv, NEW s \in Scopes, NEW option, Begin(s, option)
  PROVE  IInv'
<1> USE DEF IInv, Types, Begin
<1>1. running' \in BOOLEAN /\ started' \in BOOLEAN /\ broken' \in BOOLEAN
  BY Zenon DEF procVars
<1>2. s.tests \subseteq Tests
  BY ScopeShape DEF ScopeFits
<1>3. Types'
  BY <1>1, <1>2 DEF procVars, TypeOK, Statuses
<1>4. \A t \in Tests : status'[t] \in {"Ignored", "Pending", "Skipped"} /\ ran'[t] = 0
                       /\ (status'[t] = "Ignored" => t \in Ignored)
  OBVIOUS
<1>5. ProcessInv' /\ queued' = {} /\ live' = {}
  BY DEF procVars, ProcessInv
<1>6. WorkInv'
  <2>1. ASSUME NEW a \in todo', NEW t \in SelectedBy(a)
        PROVE  ran'[t] = 0 /\ Reached(t)'
    BY <1>4, GroupsReach DEF Reached, Takes, TakesIn, LooksInto
  <2>2. ASSUME NEW a \in todo', NEW b \in todo', NEW t \in SelectedBy(a) \cap SelectedBy(b)
        PROVE  a = b \/ TakenAlong(t)'
    BY GroupsReach DEF TakenAlong, LooksInto
  <2> QED
    BY <1>5, <2>1, <2>2 DEF WorkInv, SelectedBy
<1>7. StatusInv'
  BY <1>4 DEF StatusInv
<1>8. NothingLeftRunning' /\ FailureLeavesNothingOpen' /\ RunsOnce' /\ OnlyScopeRuns' /\ VerdictIsTrue'
  BY <1>4 DEF NothingLeftRunning, FailureLeavesNothingOpen, RunsOnce, OnlyScopeRuns, VerdictIsTrue
<1> QED
  BY <1>3, <1>5, <1>6, <1>7, <1>8

LEMMA SpawnPreserves ==
  ASSUME IInv, SpawnGroup
  PROVE  IInv'
<1> USE DEF IInv, Types, SpawnGroup, appVars
<1>1. PICK next \in todo : todo' = todo \ {next} /\ queued' = SelectedBy(next)
  OBVIOUS
<1>2. broken' \in BOOLEAN
  BY Zenon
<1>3. Types'
  BY <1>1, <1>2, SelectedAreTests DEF TypeOK
<1>4. ProcessInv'
  BY DEF ProcessInv
<1>5. WorkInv'
  <2>f. \A t : (Reached(t)' <=> Reached(t)) /\ (TakenAlong(t)' <=> TakenAlong(t))
    BY DEF Reached, LooksInto, Takes, TakenAlong
  <2>1. \A t \in queued' : Reached(t)' /\ (ran'[t] = 0 \/ TakenAlong(t)')
    BY <1>1, <2>f DEF WorkInv
  <2>2. ASSUME NEW a \in todo', NEW t \in SelectedBy(a)
        PROVE  Reached(t) /\ (TakenAlong(t) \/ (ran'[t] = 0 /\ t \notin queued'))
    <3>1. a \in todo /\ a # next
      BY <1>1
    <3>2. Reached(t) /\ (TakenAlong(t) \/ ran[t] = 0)
      BY <3>1 DEF WorkInv
    <3>3. t \in SelectedBy(next) => TakenAlong(t)
      BY <3>1 DEF WorkInv
    <3> QED
      BY <1>1, <3>2, <3>3
  <2>3. \A a, b \in todo' : \A t \in SelectedBy(a) \cap SelectedBy(b) : a = b \/ TakenAlong(t)'
    BY <1>1, <2>f DEF WorkInv
  <2> QED
    BY <2>f, <2>1, <2>2, <2>3 DEF WorkInv
<1>6. StatusInv'
  BY DEF StatusInv, ProcessInv
<1>7. NothingLeftRunning' /\ FailureLeavesNothingOpen' /\ RunsOnce' /\ OnlyScopeRuns' /\ VerdictIsTrue'
  BY DEF NothingLeftRunning, FailureLeavesNothingOpen, RunsOnce, OnlyScopeRuns, Takes, TakenAlong, VerdictIsTrue
<1> QED
  BY <1>3, <1>4, <1>5, <1>6, <1>7

LEMMA SuitePreserves ==
  ASSUME IInv, SuiteStarted
  PROVE  IInv'
<1> USE DEF IInv, Types, SuiteStarted, MarkTestsRunning
<1>1. running /\ outcome = "Running" /\ live = {} /\ ~broken /\ notice = 0
  BY DEF ProcessInv
<1>2. started' \in BOOLEAN /\ broken' \in BOOLEAN /\ (started => started')
      /\ phase' \in {"RunningTests", "Cancelling"} /\ (started' \/ phase' = phase)
  BY Zenon DEF TypeOK
<1>3. Types'
  BY <1>1, <1>2 DEF TypeOK
<1>4. WorkInv' /\ ProcessInv' /\ StatusInv'
  BY <1>1, <1>2 DEF WorkInv, Reached, Takes, TakenAlong, ProcessInv, StatusInv
<1>5. NothingLeftRunning' /\ FailureLeavesNothingOpen' /\ RunsOnce' /\ OnlyScopeRuns' /\ VerdictIsTrue'
  BY <1>1 DEF NothingLeftRunning, FailureLeavesNothingOpen, RunsOnce, OnlyScopeRuns, Takes, TakenAlong, VerdictIsTrue
<1> QED
  BY <1>3, <1>4, <1>5

LEMMA StartPreserves ==
  ASSUME IInv, NEW t \in Tests, TestStarted(t)
  PROVE  IInv'
<1> USE DEF IInv, Types, TestStarted, MarkTestsRunning
<1>1. running /\ outcome = "Running" /\ (ran[t] = 0 \/ TakenAlong(t)) /\ Reached(t)
  BY DEF ProcessInv, WorkInv
<1>2. started' \in BOOLEAN /\ broken' \in BOOLEAN
      /\ phase' \in {"RunningTests", "Cancelling"} /\ (started' \/ phase' = phase)
  BY Zenon DEF TypeOK
<1>3. started'
  BY <1>2 DEF TypeOK
<1>4. /\ status'[t] = IF t \in Ignored THEN status[t] ELSE "Running"
      /\ ran'[t] = ran[t] + 1
      /\ \A u \in Tests \ {t} : status'[u] = status[u] /\ ran'[u] = ran[u]
      /\ status' \in [Tests -> Statuses] /\ ran' \in [Tests -> Nat]
  BY <1>1 DEF TypeOK, Statuses
<1>5. Types'
  BY <1>1, <1>2, <1>3, <1>4 DEF TypeOK
<1>6. ProcessInv'
  BY <1>3 DEF ProcessInv
<1>f. \A u : (Reached(u)' <=> Reached(u)) /\ (TakenAlong(u)' <=> TakenAlong(u))
  BY DEF Reached, Takes, TakenAlong
<1>7. WorkInv'
  <2>1. ASSUME NEW a \in todo, NEW u \in SelectedBy(a)
        PROVE  u \in Tests /\ Reached(u) /\ (TakenAlong(u) \/ (ran'[u] = 0 /\ u \notin queued'))
    <3>1. u \in Tests /\ Reached(u) /\ (TakenAlong(u) \/ (ran[u] = 0 /\ u \notin queued))
      BY SelectedAreTests DEF WorkInv
    <3>2. u \notin queued => u # t
      OBVIOUS
    <3> QED
      BY <1>4, <3>1, <3>2
  <2>2. ASSUME NEW u \in queued'
        PROVE  Reached(u) /\ (ran'[u] = 0 \/ TakenAlong(u))
    BY <1>4 DEF WorkInv, TypeOK
  <2>3. \A a, b \in todo' : \A u \in SelectedBy(a) \cap SelectedBy(b) : a = b \/ TakenAlong(u)
    BY DEF WorkInv
  <2> QED
    BY <1>f, <2>1, <2>2, <2>3 DEF WorkInv
<1>8. StatusInv'
  BY <1>1, <1>3, <1>4 DEF StatusInv, TypeOK
<1>9. RunsOnce' /\ OnlyScopeRuns'
  <2>1. RunsOnce'
    <3> SUFFICES ASSUME NEW u \in Tests, ran'[u] > 1 PROVE TakenAlong(u)
      BY <1>f DEF RunsOnce
    <3> QED
      BY <1>1, <1>4 DEF RunsOnce
  <2>2. OnlyScopeRuns'
    <3> SUFFICES ASSUME NEW u \in Tests, ran'[u] > 0 PROVE Reached(u)
      BY <1>f DEF OnlyScopeRuns, Reached
    <3> QED
      BY <1>1, <1>4 DEF OnlyScopeRuns, Reached
  <2> QED
    BY <2>1, <2>2
<1>10. NothingLeftRunning' /\ FailureLeavesNothingOpen' /\ VerdictIsTrue'
  BY <1>1 DEF NothingLeftRunning, FailureLeavesNothingOpen, VerdictIsTrue
<1> QED
  BY <1>5, <1>6, <1>7, <1>8, <1>9, <1>10

LEMMA CountsAreNumbers ==
  ASSUME NEW S, S \subseteq Tests
  PROVE  Cardinality(S) \in Nat
BY TestsAssumption, FS_Subset, FS_CardinalityType

LEMMA FinishPreserves ==
  ASSUME IInv, NEW t \in Tests, NEW result \in {"Passed", "Failed"}, TestFinished(t, result)
  PROVE  IInv'
<1> USE DEF IInv, Types, TestFinished, MarkTestsRunning
<1>1. running /\ outcome = "Running" /\ started
  BY DEF ProcessInv
<1>2. started' \in BOOLEAN /\ broken' \in BOOLEAN
      /\ phase' \in {"RunningTests", "Cancelling"} /\ (started' \/ phase' = phase)
  BY Zenon DEF TypeOK
<1>3. started'
  BY <1>1, <1>2
<1>4. /\ status'[t] = result
      /\ \A u \in Tests \ {t} : status'[u] = status[u]
      /\ status' \in [Tests -> Statuses]
  BY DEF TypeOK, Statuses
<1>5. remaining' \in Nat
  <2>1. ObservedRunning(status') \in Nat
    BY CountsAreNumbers DEF ObservedRunning, TypeOK
  <2> QED
    BY <2>1 DEF TypeOK, Least
<1>6. notice' \in Nat
  BY CountsAreNumbers DEF TypeOK
<1>7. Types'
  BY <1>1, <1>2, <1>3, <1>4, <1>5, <1>6 DEF TypeOK
<1>8. ProcessInv' /\ WorkInv'
  BY <1>3 DEF ProcessInv, WorkInv, Reached, Takes, TakenAlong
<1>9. StatusInv'
  <2>1. result = "Failed" => broken'
    BY Zenon
  <2>2. ~broken' => ~broken /\ result = "Passed"
    BY <2>1, Zenon
  <2> QED
    BY <1>1, <1>3, <1>4, <2>2 DEF StatusInv, TypeOK
<1>10. RunsOnce' /\ OnlyScopeRuns' /\ NothingLeftRunning' /\ FailureLeavesNothingOpen' /\ VerdictIsTrue'
  BY <1>1 DEF RunsOnce, OnlyScopeRuns, Takes, TakenAlong, NothingLeftRunning, FailureLeavesNothingOpen, VerdictIsTrue
<1> QED
  BY <1>7, <1>8, <1>9, <1>10

LEMMA CancelPreserves ==
  ASSUME IInv, RunCancelling
  PROVE  IInv'
<1> USE DEF IInv, Types, RunCancelling
<1>1. running /\ outcome = "Running" /\ proc = "testing"
  BY DEF ProcessInv, TypeOK
<1>2. started' \in BOOLEAN /\ broken' \in BOOLEAN /\ (started => started')
  BY Zenon DEF TypeOK
<1>3. started'
  BY <1>1, <1>2 DEF TypeOK
<1>4. Types'
  BY <1>1, <1>2, <1>3 DEF TypeOK
<1>5. ProcessInv' /\ WorkInv' /\ StatusInv'
  BY <1>1, <1>3 DEF ProcessInv, WorkInv, Reached, Takes, TakenAlong, StatusInv
<1>6. RunsOnce' /\ OnlyScopeRuns' /\ NothingLeftRunning' /\ FailureLeavesNothingOpen' /\ VerdictIsTrue'
  BY <1>1 DEF RunsOnce, OnlyScopeRuns, Takes, TakenAlong, NothingLeftRunning, FailureLeavesNothingOpen, VerdictIsTrue
<1> QED
  BY <1>4, <1>5, <1>6

-----------------------------------------------------------------------------
(* The end of a run, by whichever way, gives every test of its scope a     *)
(* status that the verdict agrees with.                                    *)
LEMMA ConcludePreserves ==
  ASSUME IInv, running, NEW code \in {"zero", "nonzero", "none"}, NEW stopped \in BOOLEAN,
         Conclude(code, stopped), UNCHANGED <<ran, runs>>, firstCode' \in {"zero", "nonzero"},
         code = "zero" => ~stopped /\ firstCode = "zero" /\ ~broken /\ live = {},
         code = "nonzero" => ~stopped,
         stopped => code = "none"
  PROVE  IInv'
<1> USE DEF IInv, Types, Conclude
<1> DEFINE anyFailed == \E t \in scope.tests : status'[t] = "Failed"
<1>1. scope.tests \subseteq Tests /\ scope' = scope /\ started' = started
  BY DEF TypeOK
<1>2. running' \in BOOLEAN /\ started' \in BOOLEAN /\ broken' \in BOOLEAN
  BY Zenon DEF TypeOK
<1>3. status' \in [Tests -> Statuses]
  BY DEF TypeOK, Statuses, StopRunning, SkipUnfinished
<1>4. CASE code = "zero"
  <2>1. status' = status /\ outcome' = RunOutcome(code, anyFailed) /\ exitCode' = code
    BY <1>4 DEF LeavesUnfinished
  <2>2. \A t \in Tests : status'[t] # "Failed" /\ status'[t] # "Running" /\ (ran[t] > 0 => status'[t] = "Passed")
    BY <1>4, <2>1 DEF StatusInv
  <2>3. outcome' = "Passed"
    BY <1>1, <1>4, <2>1, <2>2 DEF RunOutcome
  <2> QED
    BY <1>1, <2>1, <2>2, <2>3 DEF NothingLeftRunning, FailureLeavesNothingOpen, VerdictIsTrue, StatusInv,
       TypeOK, WorkInv, ProcessInv, RunsOnce, OnlyScopeRuns, Reached, Takes, TakenAlong, Statuses
<1>5. CASE code # "zero" /\ ~stopped
  <2>1. outcome' = RunOutcome(code, anyFailed) /\ exitCode' = code
    BY <1>5
  <2>2. outcome' \in {"Failed", "CommandFailed"} /\ (outcome' = "CommandFailed" /\ code # "none" => ~anyFailed)
    BY <1>5, <2>1 DEF RunOutcome
  <2>3. CASE started
    <3>1. status' = SkipUnfinished(status)
      BY <1>5, <2>3 DEF LeavesUnfinished
    <3>2. \A t \in scope.tests : status'[t] \notin {"Pending", "Running"}
      BY <1>1, <3>1 DEF SkipUnfinished, TypeOK
    <3>3. \A t \in Tests : status'[t] = "Ignored" => t \in Ignored
      BY <3>1 DEF SkipUnfinished, StatusInv
    <3> QED
      BY <1>1, <1>2, <1>3, <2>1, <2>2, <3>2, <3>3 DEF NothingLeftRunning, FailureLeavesNothingOpen, VerdictIsTrue,
         StatusInv, TypeOK, WorkInv, ProcessInv, RunsOnce, OnlyScopeRuns, Reached, Takes, TakenAlong, Statuses
  <2>4. CASE ~started
    <3>1. status' = status
      BY <1>5, <2>4 DEF LeavesUnfinished
    <3>2. \A t \in Tests : status'[t] # "Running"
      BY <2>4, <3>1 DEF StatusInv
    <3>3. Types'
      BY <1>1, <1>2, <1>3, <2>2 DEF TypeOK
    <3>4. WorkInv' /\ ProcessInv' /\ StatusInv' /\ RunsOnce' /\ OnlyScopeRuns'
      BY <3>1, <3>2 DEF StatusInv, WorkInv, ProcessInv, RunsOnce, OnlyScopeRuns, Reached, Takes, TakenAlong
    <3>5. NothingLeftRunning' /\ FailureLeavesNothingOpen' /\ VerdictIsTrue'
      <4>1. FailureLeavesNothingOpen'
        <5>1. ~started'
          BY <1>1, <2>4
        <5> QED
          BY <5>1 DEF FailureLeavesNothingOpen
      <4>2. NothingLeftRunning'
        BY <1>1, <3>2 DEF NothingLeftRunning
      <4>3. VerdictIsTrue'
        BY <2>1, <2>2, <1>1 DEF VerdictIsTrue
      <4> QED
        BY <4>1, <4>2, <4>3
    <3> QED
      BY <3>3, <3>4, <3>5
  <2> QED
    BY <2>3, <2>4 DEF TypeOK
<1>6. CASE stopped
  <2>1. status' = StopRunning(status) /\ outcome' = "Stopped" /\ exitCode' = "none"
    BY <1>6
  <2>2. \A t \in Tests : status'[t] # "Running" /\ (status'[t] = "Ignored" => t \in Ignored)
    BY <2>1 DEF StopRunning, StatusInv
  <2> QED
    BY <1>1, <1>2, <1>3, <2>1, <2>2 DEF NothingLeftRunning, FailureLeavesNothingOpen, VerdictIsTrue,
       StatusInv, TypeOK, WorkInv, ProcessInv, RunsOnce, OnlyScopeRuns, Reached, Takes, TakenAlong
<1> QED
  BY <1>4, <1>5, <1>6

LEMMA EndPreserves ==
  ASSUME IInv, NEW code \in {"zero", "nonzero"}, GroupEnds(code)
  PROVE  IInv'
<1> USE DEF IInv, Types, GroupEnds
<1>1. running
  BY DEF ProcessInv
<1>2. firstCode' \in {"zero", "nonzero"} /\ (firstCode' = "zero" => code = "zero" /\ firstCode = "zero")
  BY DEF FirstFailure
<1>3. code = "zero" => ~broken /\ live = {}
  BY DEF ExitCodes
<1>4. CASE todo = {}
  BY <1>1, <1>2, <1>3, <1>4, ConcludePreserves
<1>5. CASE todo # {}
  <2>1. /\ proc' = "none" /\ queued' = {} /\ live' = {} /\ broken' = FALSE /\ notice' = 0
        /\ UNCHANGED <<appVars, todo, ran>>
    BY <1>5
  <2>2. broken' \in BOOLEAN
    BY <2>1, Zenon
  <2> USE DEF appVars
  <2>3. Types'
    BY <1>2, <2>1, <2>2 DEF TypeOK
  <2>4. ProcessInv' /\ WorkInv'
    BY <1>1, <2>1 DEF ProcessInv, WorkInv, Reached, Takes, TakenAlong
  <2>5. StatusInv'
    BY <1>1, <1>2, <1>3, <2>1 DEF StatusInv
  <2>6. RunsOnce' /\ OnlyScopeRuns' /\ NothingLeftRunning' /\ FailureLeavesNothingOpen' /\ VerdictIsTrue'
    BY <2>1 DEF RunsOnce, OnlyScopeRuns, Takes, TakenAlong, NothingLeftRunning, FailureLeavesNothingOpen, VerdictIsTrue
  <2> QED
    BY <2>3, <2>4, <2>5, <2>6
<1> QED
  BY <1>4, <1>5

-----------------------------------------------------------------------------
LEMMA Invariance == Spec => []IInv
<1>1. IInv /\ [Next]_vars => IInv'
  <2> SUFFICES ASSUME IInv, [Next]_vars PROVE IInv'
    OBVIOUS
  <2>1. CASE StoppedByUser \/ RunnerFails
    BY <2>1, ConcludePreserves DEF StoppedByUser, RunnerFails, IInv, Types
  <2>2. CASE UNCHANGED vars
    <3> USE <2>2 DEF vars, appVars, procVars, IInv, Types
    <3>1. Types'
      BY DEF TypeOK
    <3>2. WorkInv' /\ ProcessInv' /\ StatusInv'
      BY DEF WorkInv, Reached, Takes, TakenAlong, ProcessInv, StatusInv
    <3>3. RunsOnce' /\ OnlyScopeRuns' /\ NothingLeftRunning' /\ FailureLeavesNothingOpen' /\ VerdictIsTrue'
      BY DEF RunsOnce, OnlyScopeRuns, Takes, TakenAlong, NothingLeftRunning, FailureLeavesNothingOpen, VerdictIsTrue
    <3> QED
      BY <3>1, <3>2, <3>3
  <2> QED
    BY <2>1, <2>2, BeginPreserves, SpawnPreserves, SuitePreserves, StartPreserves, FinishPreserves,
       CancelPreserves, EndPreserves DEF Next
<1> QED
  BY <1>1, InitHolds, PTL DEF Spec

(* A run leaves no test of its scope spinning, after a failure none of     *)
(* them open, and runs none twice that can be told from the tests of       *)
(* another group, whichever way it ends (RunInv).                          *)
THEOREM RunIsTidy == Spec => []RunInv
BY Invariance, PTL DEF IInv, Types, RunInv

(* Only tests of the scope run, those of their targets whose names contain *)
(* a name of the scope, and where a target is of a kind that nextest has   *)
(* no flag for, such tests of its package (RunScope::nextest_arg_sets).    *)
THEOREM ScopeIsKept == Spec => []OnlyScopeRuns
BY Invariance, PTL DEF IInv

(* What the run is said to have come to agrees with what became of its     *)
(* tests, over all its groups (apply_run_event, NextestClient::run).       *)
THEOREM Verdict == Spec => []VerdictIsTrue
BY Invariance, PTL DEF IInv

-----------------------------------------------------------------------------
(***************************************************************************)
(* The logs of events.                                                     *)
(***************************************************************************)
Event == [sequence : Nat, size : Sizes]
Log == [id : Nat, status : {"running", "passed", "failed"}, events : Seq(Event), total : Nat,
        truncated : BOOLEAN]
Ids == {logs[i].id : i \in DOMAIN logs}

EventTypes ==
  /\ nextSequence \in 1..(MaxEmitted + 1)
  /\ held \in [Threads -> Event \union {None}] /\ wire \in Seq(Event)
  /\ modal \in BOOLEAN /\ unread \in BOOLEAN /\ begun \in 0..MaxEventRuns
  /\ selected \in Nat \ {0} /\ (selected > 1 => selected <= Len(logs))
  /\ logs \in Seq(Log) /\ Len(logs) <= MaxRunLogs
  /\ received \in [Ids -> Seq(Event)]

\* The run in progress is the last that began, and the last in the list.
Listed ==
  /\ active \in {None, begun} /\ Len(logs) <= begun /\ (active # None => logs # <<>>)
  /\ \A i \in DOMAIN logs :
       /\ logs[i].id = begun - Len(logs) + i
       /\ logs[i].status = "running" <=> logs[i].id = active

\* A log has the end of what its run received.
TellsTheTail(log, all) ==
  /\ log.total = Len(all) /\ Len(log.events) <= Len(all)
  /\ log.truncated <=> Len(log.events) < Len(all)
  /\ all # <<>> => log.events # <<>>
  /\ \A k \in DOMAIN log.events : log.events[k] = all[Events!Index(log, k)]
  /\ Len(log.events) <= MaxLogged /\ Events!Bytes(log) <= MaxBytes

EInv ==
  EventTypes /\ Listed /\ \A i \in DOMAIN logs : TellsTheTail(logs[i], received[logs[i].id])

-----------------------------------------------------------------------------
LEMMA Extremes ==
  ASSUME NEW a \in Int, NEW b \in Int
  PROVE  /\ Events!Min({a, b}) = IF a <= b THEN a ELSE b
         /\ Events!Max({a, b}) = IF a <= b THEN b ELSE a
<1>1. Events!Min({a, b}) = CHOOSE x \in {a, b} : \A y \in {a, b} : x <= y
  BY DEF Events!Min
<1>2. Events!Max({a, b}) = CHOOSE x \in {a, b} : \A y \in {a, b} : x >= y
  BY DEF Events!Max
<1> QED
  BY <1>1, <1>2

LEMMA NoBytes ==
  ASSUME NEW log, log.events = <<>>
  PROVE  Events!Bytes(log) = 0
<1> DEFINE Sum(f) == [k \in 0..Len(log.events) |->
                       IF k = 0 THEN 0 ELSE f[k - 1] + log.events[k].size]
           sum == CHOOSE f : f = Sum(f)
<1>1. [k \in {0} |-> 0] = Sum([k \in {0} |-> 0])
  BY Z3
<1>2. sum = Sum(sum)
  <2> HIDE DEF Sum
  <2> QED
    BY <1>1, Zenon
<1>3. sum[0] = 0
  BY <1>2
<1>4. Events!Bytes(log) = sum[Len(log.events)]
  BY DEF Events!Bytes
<1> QED
  BY <1>3, <1>4

LEMMA OnesBytes ==
  ASSUME NEW log, NEW event \in Event, log.events = <<event>>, Sizes \subseteq Nat
  PROVE  Events!Bytes(log) = event.size
<1> DEFINE Sum(f) == [k \in 0..Len(log.events) |->
                       IF k = 0 THEN 0 ELSE f[k - 1] + log.events[k].size]
           sum == CHOOSE f : f = Sum(f)
           g == [k \in 0..1 |-> IF k = 0 THEN 0 ELSE event.size]
<1>1. Len(log.events) = 1 /\ log.events[1] = event /\ event.size \in Nat
  <2>1. Len(<<event>>) = 1 /\ <<event>>[1] = event
    OBVIOUS
  <2>2. event.size \in Sizes
    BY DEF Event
  <2> QED
    BY <2>1, <2>2
<1>2. g = Sum(g)
  <2>1. \A k \in 0..1 : g[k] = IF k = 0 THEN 0 ELSE g[k - 1] + log.events[k].size
    <3>1. g[0] = 0 /\ g[1] = event.size
      OBVIOUS
    <3>2. \A k \in 0..1 : k = 0 \/ k = 1
      OBVIOUS
    <3> HIDE DEF g
    <3> QED
      BY <1>1, <3>1, <3>2
  <2> QED
    BY <1>1, <2>1
<1>3. sum = Sum(sum)
  <2> HIDE DEF Sum, g
  <2> QED
    BY <1>2, Zenon
<1>4. sum[0] = 0 /\ sum[1] = sum[0] + log.events[1].size
  <2> HIDE DEF sum
  <2>1. DOMAIN sum = 0..1 /\ \A k \in 0..1 : sum[k] = IF k = 0 THEN 0 ELSE sum[k - 1] + log.events[k].size
    BY <1>1, <1>3
  <2>2. sum[1] = sum[1 - 1] + log.events[1].size
    BY <2>1
  <2> QED
    BY <2>1, <2>2
<1>5. Events!Bytes(log) = sum[Len(log.events)]
  BY DEF Events!Bytes
<1> HIDE DEF sum
<1> QED
  BY <1>1, <1>4, <1>5

LEMMA Smallest ==
  ASSUME NEW S, S \subseteq Nat, S # {}
  PROVE  \E n \in S : \A m \in S : n <= m
<1>1. IsWellFoundedOn(OpToRel(<, Nat), Nat)
  BY NatLessThanWellFounded
<1>2. PICK n \in S : \A m \in S : ~(<<m, n>> \in OpToRel(<, Nat))
  BY <1>1, WFMin
<1>3. \A m \in S : m < n => <<m, n>> \in OpToRel(<, Nat)
  BY DEF OpToRel
<1>4. \A m \in S : ~(m < n) => n <= m
  OBVIOUS
<1> QED
  BY <1>2, <1>3, <1>4

LEMMA MinIs ==
  ASSUME NEW S, S \subseteq Nat, S # {}
  PROVE  Events!Min(S) \in S /\ \A m \in S : Events!Min(S) <= m
<1>1. \E n \in S : \A m \in S : n <= m
  BY Smallest
<1> QED
  BY <1>1, Zenon DEF Events!Min

\* The oldest events make room, and the newest has room for itself.
LEMMA RetainedIs ==
  ASSUME NEW events \in Seq(Event), events # <<>>
  PROVE  \E d \in 0..(Len(events) - 1) :
           /\ Events!Retained(events) = SubSeq(events, d + 1, Len(events))
           /\ Len(events) - d <= MaxLogged
           /\ Events!Bytes([events |-> Events!Retained(events)]) <= MaxBytes
<1> DEFINE n == Len(events)
           Fits(k) == /\ n - k <= MaxLogged
                      /\ Events!Bytes([events |-> SubSeq(events, k + 1, n)]) <= MaxBytes
           D == {k \in 0..n : Fits(k)}
           d == Events!Min(D)
<1>n. n \in Nat \ {0} /\ Sizes \subseteq Nat /\ MaxLogged \in Nat \ {0} /\ events[n] \in Event
  BY ResultsAssumption DEF Events!EventsAssumption
<1>1. n - 1 \in D
  <2>1. SubSeq(events, n, n) = <<events[n]>>
    <3>1. SubSeq(events, n, n) = [i \in 1..1 |-> events[n]]
      BY <1>n
    <3> QED
      BY <3>1
  <2>2. Events!Bytes([events |-> <<events[n]>>]) = events[n].size
    BY <1>n, OnesBytes
  <2>3. events[n].size <= MaxBytes
    BY <1>n, ResultsAssumption DEF Events!EventsAssumption, Event
  <2>4. (n - 1) + 1 = n /\ n - (n - 1) = 1 /\ n - 1 \in 0..n
    BY <1>n
  <2> HIDE DEF n
  <2> QED
    BY <1>n, <2>1, <2>2, <2>3, <2>4
<1>2. d \in D /\ d <= n - 1
  <2>1. D \subseteq Nat
    BY <1>n
  <2> HIDE DEF D
  <2> QED
    BY <1>1, <2>1, MinIs
<1>3. Events!Retained(events) = SubSeq(events, d + 1, n)
  BY DEF Events!Retained
<1>4. d \in 0..(n - 1) /\ Fits(d)
  <2>1. d \in 0..n /\ Fits(d)
    BY <1>2
  <2> HIDE DEF d, Fits, n
  <2> QED
    BY <1>2, <2>1, <1>n
<1> HIDE DEF d
<1> QED
  BY <1>3, <1>4

LEMMA SameBytes ==
  ASSUME NEW a, NEW b, a.events = b.events
  PROVE  Events!Bytes(a) = Events!Bytes(b)
BY DEF Events!Bytes

LEMMA LoggedTells ==
  ASSUME NEW log \in Log, NEW all \in Seq(Event), TellsTheTail(log, all), NEW event \in Event
  PROVE  LET new == Events!Logged(log, event)
         IN /\ new \in Log /\ new.id = log.id /\ new.status = log.status
            /\ TellsTheTail(new, Append(all, event))
<1> DEFINE events == Append(log.events, event)
           kept == Events!Retained(events)
           new == [log EXCEPT !.events = kept, !.total = @ + 1,
                              !.truncated = @ \/ Len(kept) < Len(events)]
           n == Len(log.events)
           m == Len(all)
<1>1. new = Events!Logged(log, event)
  BY DEF Events!Logged
<1>2. /\ n \in Nat /\ m \in Nat /\ log.events \in Seq(Event) /\ n <= m
      /\ log.total = m /\ log.truncated \in BOOLEAN /\ (log.truncated <=> n < m)
  BY DEF Log, TellsTheTail
<1>3. /\ events \in Seq(Event) /\ Len(events) = n + 1 /\ events # <<>>
      /\ \A k \in 1..n : events[k] = log.events[k]
      /\ events[n + 1] = event
  <2> HIDE DEF new
  <2> QED
    BY <1>2, AppendProperties
<1>4. /\ Append(all, event) \in Seq(Event) /\ Len(Append(all, event)) = m + 1
      /\ \A k \in 1..m : Append(all, event)[k] = all[k]
      /\ Append(all, event)[m + 1] = event
  OBVIOUS
<1> HIDE DEF events, n, m
<1>5. PICK d \in 0..(Len(events) - 1) :
        /\ kept = SubSeq(events, d + 1, Len(events)) /\ Len(events) - d <= MaxLogged
        /\ Events!Bytes([events |-> kept]) <= MaxBytes
  BY <1>3, RetainedIs
<1>6. d \in 0..n /\ kept \in Seq(Event) /\ Len(kept) = n + 1 - d /\ DOMAIN kept = 1..(n + 1 - d)
      /\ \A k \in 1..(n + 1 - d) : kept[k] = events[d + k]
  <2>1. d \in 0..n
    BY <1>2, <1>3, <1>5
  <2>2. kept = SubSeq(events, d + 1, n + 1)
    BY <1>3, <1>5
  <2> HIDE DEF kept
  <2> QED
    BY <1>2, <1>3, <2>1, <2>2
<1> HIDE DEF kept
<1>7. /\ new.events = kept /\ new.total = m + 1 /\ new.id = log.id /\ new.status = log.status
      /\ new \in Log
      /\ new.truncated <=> log.truncated \/ Len(kept) < n + 1
  <2>1. /\ new.events = kept /\ new.total = m + 1 /\ new.id = log.id /\ new.status = log.status
        /\ new.truncated = (log.truncated \/ Len(kept) < Len(events))
    BY <1>2 DEF Log
  <2>2. new.truncated \in BOOLEAN
    BY <1>2, <2>1, Zenon
  <2>3. new \in Log
    <3>1. \A e \in Seq(Event), u \in Nat, b \in BOOLEAN :
            [log EXCEPT !.events = e, !.total = u, !.truncated = b] \in Log
      BY DEF Log
    <3>a. m + 1 \in Nat
      BY <1>2
    <3>b. (log.truncated \/ Len(kept) < Len(events)) \in BOOLEAN
      BY Zenon
    <3>2. m + 1 \in Nat /\ (log.truncated \/ Len(kept) < Len(events)) \in BOOLEAN
      BY <3>a, <3>b, Zenon
    <3>3. new = [log EXCEPT !.events = kept, !.total = m + 1,
                            !.truncated = log.truncated \/ Len(kept) < Len(events)]
      BY <1>2
    <3> QED
      BY <1>6, <3>1, <3>2, <3>3, Zenon
  <2> HIDE DEF new
  <2> QED
    BY <1>3, <2>1, <2>3
<1> HIDE DEF new
<1>8. Len(kept) <= m + 1 /\ (new.truncated <=> Len(kept) < m + 1)
  BY <1>2, <1>6, <1>7
<1>9. kept # <<>>
  BY <1>2, <1>6
<1>10. \A k \in DOMAIN kept : kept[k] = Append(all, event)[Events!Index(new, k)]
  <2> SUFFICES ASSUME NEW k \in 1..(n + 1 - d) PROVE kept[k] = Append(all, event)[Events!Index(new, k)]
    BY <1>6
  <2>1. Events!Index(new, k) = (m + 1) - (n + 1 - d) + k /\ kept[k] = events[d + k]
    BY <1>6, <1>7 DEF Events!Index
  <2>2. CASE d + k = n + 1
    <3>1. Events!Index(new, k) = m + 1
      BY <1>2, <1>6, <2>1, <2>2
    <3> QED
      BY <1>3, <1>4, <2>1, <2>2, <3>1
  <2>3. CASE d + k # n + 1
    <3>a. d \in Nat /\ d <= n /\ k \in Nat /\ 1 <= k /\ k <= n + 1 - d
      BY <1>2, <1>6
    <3>b. (m + 1) - (n + 1 - d) + k = m - n + (d + k)
      BY <1>2, <3>a
    <3>c. d + k \in 1..n /\ m - n + (d + k) \in 1..m
      BY <1>2, <2>3, <3>a
    <3>1. d + k \in 1..n /\ Events!Index(new, k) = m - n + (d + k) /\ m - n + (d + k) \in 1..m
      BY <2>1, <3>b, <3>c
    <3>2. log.events[d + k] = all[m - n + (d + k)]
      <4>1. d + k \in DOMAIN log.events
        <5>1. DOMAIN log.events = 1..n
          BY <1>2 DEF n
        <5> QED
          BY <3>c, <5>1
      <4>2. Events!Index(log, d + k) = m - n + (d + k)
        BY <1>2 DEF Events!Index, n
      <4> QED
        BY <4>1, <4>2, Zenon DEF TellsTheTail
    <3> QED
      BY <1>3, <1>4, <2>1, <3>1, <3>2
  <2> QED
    BY <2>2, <2>3
<1>11. Len(kept) <= MaxLogged /\ Events!Bytes(new) <= MaxBytes
  <2>1. Events!Bytes(new) = Events!Bytes([events |-> kept])
    BY <1>7, SameBytes
  <2> QED
    BY <1>2, <1>3, <1>5, <1>6, <2>1
<1> QED
  BY <1>1, <1>4, <1>7, <1>8, <1>9, <1>10, <1>11 DEF TellsTheTail

-----------------------------------------------------------------------------
LEMMA NumbersOfEvents ==
  /\ MaxRunLogs \in Nat \ {0} /\ MaxLogged \in Nat \ {0} /\ MaxBytes \in Nat /\ None \notin Nat
  /\ MaxEventRuns \in Nat /\ MaxEmitted \in Nat /\ Sizes \subseteq Nat
BY ResultsAssumption DEF Events!EventsAssumption

LEMMA EventsInitHolds == ResultsInit => EInv
<1> SUFFICES ASSUME Events!Init PROVE EInv
  BY DEF ResultsInit
<1>1. modal \in BOOLEAN /\ unread \in BOOLEAN
  BY Zenon DEF Events!Init
<1>2. logs = <<>> /\ received = <<>> /\ Ids = {}
  BY DEF Events!Init, Ids
<1>3. received \in [Ids -> Seq(Event)]
  BY <1>2
<1>4. wire \in Seq(Event) /\ logs \in Seq(Log)
  BY DEF Events!Init
<1>5. EventTypes
  BY <1>1, <1>2, <1>3, <1>4, NumbersOfEvents DEF Events!Init, EventTypes
<1>6. Listed
  BY <1>2 DEF Events!Init, Listed
<1> QED
  BY <1>2, <1>5, <1>6 DEF EInv

\* What changes no log.
LEMMA QuietPreserves ==
  ASSUME EInv, UNCHANGED <<logs, active, begun, received>>,
         EventTypes'
  PROVE  EInv'
<1>1. Listed'
  BY DEF EInv, Listed
<1>2. ASSUME NEW i \in DOMAIN logs' PROVE TellsTheTail(logs'[i], received'[logs'[i].id])
  BY DEF EInv
<1> QED
  BY <1>1, <1>2 DEF EInv, TellsTheTail, Events!Index, Events!Bytes

LEMMA ThreadPreserves ==
  ASSUME EInv, NEW t \in Threads, Events!Create(t) \/ Events!Emit(t)
  PROVE  EInv'
<1>1. Ids' = Ids /\ UNCHANGED <<logs, active, begun, received, modal, unread, selected>>
  BY DEF Ids, Events!Create, Events!Emit, Events!panelVars, Events!logVars
<1>2. CASE Events!Create(t)
  <2>1. PICK size \in Sizes : held' = [held EXCEPT ![t] = [sequence |-> nextSequence, size |-> size]]
    BY <1>2 DEF Events!Create
  <2>2. [sequence |-> nextSequence, size |-> size] \in Event /\ nextSequence' \in 1..(MaxEmitted + 1)
    BY <1>2, NumbersOfEvents DEF Events!Create, EInv, EventTypes, Event
  <2>3. held' \in [Threads -> Event \union {None}] /\ wire' = wire
    BY <1>2, <2>1, <2>2 DEF Events!Create, EInv, EventTypes
  <2>4. EventTypes'
    BY <1>1, <2>2, <2>3 DEF EInv, EventTypes
  <2> QED
    BY <1>1, <2>4, QuietPreserves
<1>3. CASE Events!Emit(t)
  <2>1. held[t] \in Event
    BY <1>3 DEF Events!Emit, EInv, EventTypes
  <2>2. wire' \in Seq(Event) /\ held' \in [Threads -> Event \union {None}] /\ nextSequence' = nextSequence
    BY <1>3, <2>1 DEF Events!Emit, EInv, EventTypes
  <2> QED
    BY <1>1, <2>2, QuietPreserves DEF EInv, EventTypes
<1> QED
  BY <1>2, <1>3

LEMMA PanelPreserves ==
  ASSUME EInv, Events!Open \/ Events!Close \/ Events!SelectRun
  PROVE  EInv'
<1>1. /\ Ids' = Ids
      /\ UNCHANGED <<logs, active, begun, received, nextSequence, held, wire>>
  BY DEF Ids, Events!Open, Events!Close, Events!SelectRun, Events!processVars, Events!logVars
<1>2. modal' \in BOOLEAN
  BY Zenon DEF Events!Open, Events!Close, Events!SelectRun, EInv, EventTypes
<1>3. unread' \in BOOLEAN
  BY Zenon DEF Events!Open, Events!Close, Events!SelectRun, EInv, EventTypes
<1>4. selected' \in Nat \ {0} /\ (selected' > 1 => selected' <= Len(logs))
  <2>1. selected \in Nat \ {0} /\ (selected > 1 => selected <= Len(logs)) /\ Len(logs) \in Nat
        /\ (logs # <<>> => Len(logs) > 0)
    BY DEF EInv, EventTypes
  <2>2. CASE Events!Open \/ Events!Close
    BY <2>1, <2>2 DEF Events!Open, Events!Close, Events!panelVars
  <2>3. CASE Events!SelectRun
    <3>1. CASE logs # <<>> /\ selected' = Events!Min({selected + 1, Len(logs)})
      <4>1. selected + 1 \in Int /\ Len(logs) \in Int
        BY <2>1
      <4>2. selected' = IF selected + 1 <= Len(logs) THEN selected + 1 ELSE Len(logs)
        BY <3>1, <4>1, Extremes, Zenon
      <4> QED
        BY <2>1, <3>1, <4>2
    <3>2. CASE selected' = Events!Max({selected - 1, 1})
      <4>1. selected - 1 \in Int /\ 1 \in Int
        BY <2>1
      <4>2. selected' = IF selected - 1 <= 1 THEN 1 ELSE selected - 1
        BY <3>2, <4>1, Extremes, Zenon
      <4> QED
        BY <2>1, <4>2
    <3> QED
      BY <2>3, <3>1, <3>2 DEF Events!SelectRun
  <2> QED
    BY <2>2, <2>3
<1> QED
  BY <1>1, <1>2, <1>3, <1>4, QuietPreserves DEF EInv, EventTypes

-----------------------------------------------------------------------------
LEMMA ActiveIsLast ==
  ASSUME EInv, active # None
  PROVE  /\ Len(logs) \in DOMAIN logs /\ Events!LogOf(active) = Len(logs)
         /\ logs[Len(logs)].id = active /\ active \in Ids
         /\ \A i \in DOMAIN logs : i # Len(logs) => logs[i].id # active
<1>1. /\ logs \in Seq(Log) /\ logs # <<>> /\ begun \in Nat /\ active = begun
      /\ \A i \in DOMAIN logs : logs[i].id = begun - Len(logs) + i
  BY NumbersOfEvents DEF EInv, EventTypes, Listed
<1>2. Len(logs) \in Nat /\ Len(logs) \in DOMAIN logs /\ DOMAIN logs = 1..Len(logs)
  BY <1>1
<1>3. \A i \in DOMAIN logs : logs[i].id = active <=> i = Len(logs)
  BY <1>1, <1>2
<1>4. Events!LogOf(active) = Len(logs)
  BY <1>2, <1>3 DEF Events!LogOf
<1> QED
  BY <1>2, <1>3, <1>4 DEF Ids

LEMMA ReceivePreserves ==
  ASSUME EInv, Events!Receive
  PROVE  EInv'
<1> DEFINE l == Len(logs)
           event == Head(wire)
           new == Events!Logged(logs[l], event)
<1>1. /\ active # None /\ wire # <<>> /\ wire' = Tail(wire)
      /\ logs' = [logs EXCEPT ![l] = new]
      /\ received' = [received EXCEPT ![active] = Append(received[active], event)]
      /\ UNCHANGED <<nextSequence, held, modal, selected, active, begun>>
  BY ActiveIsLast DEF Events!Receive, Events!panelVars
<1>2. event \in Event /\ wire' \in Seq(Event)
  BY <1>1 DEF EInv, EventTypes
<1>3. l \in DOMAIN logs /\ logs[l] \in Log /\ logs[l].id = active /\ active \in Ids
      /\ received[active] \in Seq(Event) /\ TellsTheTail(logs[l], received[active])
  BY <1>1, ActiveIsLast DEF EInv, EventTypes
<1>4. /\ new \in Log /\ new.id = active /\ new.status = logs[l].status
      /\ TellsTheTail(new, Append(received[active], event))
  BY <1>2, <1>3, LoggedTells
<1> HIDE DEF event, new
<1>5. /\ logs' \in Seq(Log) /\ Len(logs') = Len(logs) /\ DOMAIN logs' = DOMAIN logs
      /\ logs'[l] = new /\ \A i \in DOMAIN logs : i # l => logs'[i] = logs[i]
  BY <1>1, <1>3, <1>4 DEF EInv, EventTypes
<1>6. \A i \in DOMAIN logs : logs'[i].id = logs[i].id /\ logs'[i].status = logs[i].status
  BY <1>3, <1>4, <1>5
<1>7. Ids' = Ids
  BY <1>5, <1>6 DEF Ids
<1>8. received' \in [Ids -> Seq(Event)] /\ received'[active] = Append(received[active], event)
      /\ \A id \in Ids : id # active => received'[id] = received[id]
  BY <1>1, <1>2, <1>3 DEF EInv, EventTypes
<1>9. unread' \in BOOLEAN
  BY Zenon DEF Events!Receive
<1>10. EventTypes'
  BY <1>1, <1>2, <1>5, <1>7, <1>8, <1>9 DEF EInv, EventTypes
<1>11. Listed'
  BY <1>1, <1>3, <1>5, <1>6 DEF EInv, Listed
<1>12. ASSUME NEW i \in DOMAIN logs' PROVE TellsTheTail(logs'[i], received'[logs'[i].id])
  <2>1. CASE i = l
    BY <1>4, <1>5, <1>8, <2>1
  <2>2. CASE i # l
    <3>1. logs'[i] = logs[i] /\ logs[i].id # active /\ logs[i].id \in Ids /\ i \in DOMAIN logs
      BY <1>1, <1>5, <2>2, ActiveIsLast DEF Ids
    <3> QED
      BY <1>8, <3>1 DEF EInv
  <2> QED
    BY <2>1, <2>2
<1> QED
  BY <1>10, <1>11, <1>12 DEF EInv, TellsTheTail, Events!Index, Events!Bytes

LEMMA FinishRunPreserves ==
  ASSUME EInv, Events!Finish
  PROVE  EInv'
<1> DEFINE l == Len(logs)
<1>1. PICK status_ \in {"passed", "failed"} : logs' = [logs EXCEPT ![l] = [logs[l] EXCEPT !.status = status_]]
  BY ActiveIsLast DEF Events!Finish
<1>2. active # None /\ active' = None
      /\ UNCHANGED <<nextSequence, held, wire, modal, selected, begun, received, unread>>
  BY DEF Events!Finish, Events!processVars, Events!panelVars
<1>3. l \in DOMAIN logs /\ logs[l] \in Log
  BY <1>2, ActiveIsLast DEF EInv, EventTypes
<1> DEFINE new == [logs[l] EXCEPT !.status = status_]
<1>a. /\ new \in Log /\ new.status = status_ /\ new.id = logs[l].id /\ new.events = logs[l].events
      /\ new.total = logs[l].total /\ new.truncated = logs[l].truncated
  BY <1>3 DEF Log
<1>b. logs' = [logs EXCEPT ![l] = new]
  BY <1>1
<1> HIDE DEF new
<1>4. /\ logs' \in Seq(Log) /\ Len(logs') = Len(logs) /\ DOMAIN logs' = DOMAIN logs
      /\ \A i \in DOMAIN logs : /\ logs'[i].id = logs[i].id /\ logs'[i].events = logs[i].events
                                /\ logs'[i].total = logs[i].total
                                /\ logs'[i].truncated = logs[i].truncated
                                /\ logs'[i].status = IF i = l THEN status_ ELSE logs[i].status
  <2>1. logs \in Seq(Log)
    BY DEF EInv, EventTypes
  <2>2. /\ logs' \in Seq(Log) /\ Len(logs') = Len(logs) /\ DOMAIN logs' = DOMAIN logs
        /\ logs'[l] = new /\ \A i \in DOMAIN logs : i # l => logs'[i] = logs[i]
    BY <1>3, <1>a, <1>b, <2>1
  <2> QED
    BY <1>3, <1>a, <2>2
<1>5. Ids' = Ids
  BY <1>4 DEF Ids
<1>6. EventTypes'
  BY <1>2, <1>4, <1>5 DEF EInv, EventTypes
<1>7. Listed'
  <2>1. \A i \in DOMAIN logs : logs'[i].status # "running" /\ logs'[i].id # None
    <3> SUFFICES ASSUME NEW i \in DOMAIN logs PROVE logs'[i].status # "running" /\ logs'[i].id # None
      OBVIOUS
    <3>1. logs[i].id \in Nat
      <4>1. logs[i] \in Log
        BY DEF EInv, EventTypes
      <4> QED
        BY <4>1 DEF Log
    <3>2. i # l => logs[i].status # "running"
      BY <1>2, ActiveIsLast DEF EInv, Listed
    <3> QED
      BY <1>4, <3>1, <3>2, NumbersOfEvents
  <2> QED
    BY <1>2, <1>4, <2>1 DEF EInv, Listed
<1>8. ASSUME NEW i \in DOMAIN logs PROVE TellsTheTail(logs'[i], received[logs[i].id])
  <2>1. TellsTheTail(logs[i], received[logs[i].id])
    BY DEF EInv
  <2>2. Events!Bytes(logs'[i]) = Events!Bytes(logs[i])
    BY <1>4, SameBytes
  <2> QED
    BY <1>4, <2>1, <2>2 DEF TellsTheTail, Events!Index
<1>9. ASSUME NEW i \in DOMAIN logs' PROVE TellsTheTail(logs'[i], received'[logs'[i].id])
  BY <1>2, <1>4, <1>8
<1> QED
  BY <1>6, <1>7, <1>9 DEF EInv, TellsTheTail, Events!Index, Events!Bytes

LEMMA BeginRunPreserves ==
  ASSUME EInv, Events!BeginRun
  PROVE  EInv'
<1> DEFINE kept == Events!MakeRoom
           k == Len(kept)
           o == Len(logs) - k
           id_ == begun + 1
           new == [id |-> id_, status |-> "running", events |-> <<>>, total |-> 0,
                   truncated |-> FALSE]
<1>1. /\ active = None /\ begun < MaxEventRuns /\ begun' = id_ /\ active' = id_
      /\ logs' = Append(kept, new) /\ selected' = Len(logs') /\ nextSequence' = 1
      /\ received' = [id \in Ids' |-> IF id = id_ THEN <<>> ELSE received[id]]
      /\ UNCHANGED <<held, wire, modal, unread>>
  BY DEF Events!BeginRun, Ids
<1>2. /\ logs \in Seq(Log) /\ Len(logs) \in Nat /\ Len(logs) <= MaxRunLogs /\ begun \in Nat
      /\ Len(logs) <= begun /\ DOMAIN logs = 1..Len(logs)
      /\ \A i \in DOMAIN logs : logs[i].id = begun - Len(logs) + i /\ logs[i].status # "running"
  <2>1. ASSUME NEW i \in DOMAIN logs PROVE logs[i].id # None
    <3>1. logs[i] \in Log
      BY DEF EInv, EventTypes
    <3> QED
      BY <3>1, NumbersOfEvents DEF Log
  <2> QED
    BY <1>1, <2>1 DEF EInv, EventTypes, Listed
<1>3. /\ kept \in Seq(Log) /\ k \in Nat /\ k < MaxRunLogs /\ o \in Nat /\ DOMAIN kept = 1..k
      /\ \A i \in 1..k : kept[i] = logs[o + i]
  <2>1. CASE Len(logs) < MaxRunLogs
    <3>1. kept = logs
      BY <2>1 DEF Events!MakeRoom
    <3> HIDE DEF kept
    <3> QED
      BY <1>2, <2>1, <3>1
  <2>2. CASE ~(Len(logs) < MaxRunLogs)
    <3>a. MaxRunLogs \in Nat /\ Len(logs) \in Nat /\ Len(logs) <= MaxRunLogs
      BY <1>2, NumbersOfEvents
    <3>1. Len(logs) = MaxRunLogs
      BY <2>2, <3>a
    <3>2. kept = SubSeq(logs, 2, Len(logs))
      <4>1. Len(logs) + 2 - MaxRunLogs = 2
        BY <1>2, <3>1
      <4> QED
        BY <2>2, <4>1 DEF Events!MakeRoom
    <3>3. Len(logs) \in Nat \ {0}
      BY <3>1, NumbersOfEvents
    <3>4. kept \in Seq(Log) /\ k = Len(logs) - 1 /\ \A i \in 1..(Len(logs) - 1) : kept[i] = logs[1 + i]
      <4> HIDE DEF kept
      <4> QED
        BY <1>2, <3>2, <3>3
    <3>5. k \in Nat /\ o = 1 /\ k < MaxRunLogs
      <4> HIDE DEF kept
      <4> QED
        BY <3>1, <3>3, <3>4
    <3> HIDE DEF kept
    <3> QED
      BY <3>3, <3>4, <3>5
  <2> QED
    BY <2>1, <2>2
<1> HIDE DEF kept
<1>4. new \in Log
  BY <1>2 DEF Log
<1>n. new.id = id_ /\ new.status = "running" /\ new.events = <<>> /\ new.total = 0 /\ new.truncated = FALSE
  OBVIOUS
<1> HIDE DEF new
<1>5. /\ logs' \in Seq(Log) /\ Len(logs') = k + 1 /\ DOMAIN logs' = 1..(k + 1)
      /\ logs'[k + 1] = new /\ \A i \in 1..k : logs'[i] = logs[o + i] /\ o + i \in DOMAIN logs
  BY <1>1, <1>2, <1>3, <1>4
<1>6. \A i \in 1..k : /\ logs'[i].id = begun - k + i /\ logs'[i].id # id_
                      /\ logs'[i].status # "running" /\ logs'[i].id \in Ids
  <2> SUFFICES ASSUME NEW i \in 1..k
               PROVE  /\ logs'[i].id = begun - k + i /\ logs'[i].id # id_
                      /\ logs'[i].status # "running" /\ logs'[i].id \in Ids
    OBVIOUS
  <2>1. logs'[i] = logs[o + i] /\ o + i \in DOMAIN logs /\ i \in Nat /\ i <= k
    BY <1>3, <1>5
  <2>2. logs[o + i].id = begun - Len(logs) + (o + i) /\ logs[o + i].status # "running"
    BY <1>2, <2>1
  <2>3. begun - Len(logs) + (o + i) = begun - k + i /\ begun - k + i # id_
    BY <1>2, <1>3, <2>1
  <2> QED
    BY <2>1, <2>2, <2>3 DEF Ids
<1>7. \A id \in Ids' : id = id_ \/ (id \in Ids /\ \E i \in 1..k : logs'[i].id = id)
  <2>1. \A i \in 1..(k + 1) : i = k + 1 \/ i \in 1..k
    BY <1>3
  <2> QED
    BY <1>5, <1>6, <1>n, <2>1 DEF Ids
<1>8. received' \in [Ids' -> Seq(Event)]
  <2>1. received \in [Ids -> Seq(Event)]
    BY DEF EInv, EventTypes
  <2>2. \A id \in Ids' : (IF id = id_ THEN <<>> ELSE received[id]) \in Seq(Event)
    BY <1>7, <2>1
  <2> HIDE DEF id_
  <2> QED
    BY <1>1, <2>2
<1>9. EventTypes'
  <2>1. nextSequence' \in 1..(MaxEmitted + 1) /\ begun' \in 0..MaxEventRuns /\ selected' \in Nat \ {0}
        /\ selected' <= Len(logs') /\ Len(logs') <= MaxRunLogs
    BY <1>1, <1>2, <1>3, <1>5, NumbersOfEvents
  <2> QED
    BY <1>1, <1>5, <1>8, <2>1 DEF EInv, EventTypes
<1>10. Listed'
  <2>1. Len(logs') <= begun' /\ logs' # <<>>
    BY <1>1, <1>2, <1>3, <1>5
  <2>2. ASSUME NEW i \in DOMAIN logs'
        PROVE  logs'[i].id = begun' - Len(logs') + i
               /\ (logs'[i].status = "running" <=> logs'[i].id = active')
    <3>1. CASE i = k + 1
      BY <1>1, <1>2, <1>3, <1>5, <1>n, <3>1
    <3>2. CASE i # k + 1
      <4>1. i \in 1..k /\ begun - k + i = begun' - Len(logs') + i
        BY <1>1, <1>2, <1>3, <1>5, <2>2, <3>2
      <4> QED
        BY <1>1, <1>6, <4>1
    <3> QED
      BY <3>1, <3>2
  <2> QED
    BY <1>1, <2>1, <2>2 DEF Listed
<1>11. ASSUME NEW i \in DOMAIN logs' PROVE TellsTheTail(logs'[i], received'[logs'[i].id])
  <2>1. CASE i = k + 1
    <3>1. logs'[i] = new /\ logs'[i].id \in Ids' /\ received'[logs'[i].id] = <<>>
      BY <1>1, <1>5, <1>n, <2>1 DEF Ids
    <3>2. Events!Bytes(new) = 0
      BY <1>n, NoBytes
    <3> QED
      BY <1>n, <3>1, <3>2, NumbersOfEvents DEF TellsTheTail
  <2>2. CASE i # k + 1
    <3>1. i \in 1..k
      BY <1>3, <1>5, <2>2
    <3>2. logs'[i] = logs[o + i] /\ o + i \in DOMAIN logs /\ logs'[i].id \in Ids' /\ logs'[i].id # id_
      BY <1>5, <1>6, <3>1 DEF Ids
    <3>3. received'[logs'[i].id] = received[logs[o + i].id]
      BY <1>1, <3>2
    <3> QED
      BY <3>2, <3>3 DEF EInv
  <2> QED
    BY <2>1, <2>2
<1> QED
  BY <1>9, <1>10, <1>11 DEF EInv, TellsTheTail, Events!Index, Events!Bytes

LEMMA EventsInvariance == ResultsSpec => []EInv
<1>1. EInv /\ [ResultsNext]_resultsVars => EInv'
  <2> SUFFICES ASSUME EInv, [ResultsNext]_resultsVars PROVE EInv'
    OBVIOUS
  <2>1. CASE UNCHANGED eventVars
    <3>1. UNCHANGED <<nextSequence, held, wire, modal, selected, logs, active, unread, begun, received>>
      BY <2>1 DEF eventVars
    <3>2. EventTypes'
      BY <3>1 DEF EInv, EventTypes, Ids
    <3> QED
      BY <3>1, <3>2, QuietPreserves
  <2>2. CASE Events!Next
    BY <2>2, BeginRunPreserves, ReceivePreserves, FinishRunPreserves, PanelPreserves, ThreadPreserves
    DEF Events!Next
  <2> QED
    BY <2>1, <2>2 DEF ResultsNext, resultsVars
<1> QED
  BY <1>1, EventsInitHolds, PTL DEF ResultsSpec

(* Each log has the end of what its run received, under the numbers of the *)
(* whole run, however many events and bytes it may hold, and the runs are  *)
(* listed in order (append_event, begin_run, finish_active_run).           *)
THEOREM LogsAreTrue == ResultsSpec => []LogsInv
<1>1. EInv => LogsInv
  <2> SUFFICES ASSUME EInv PROVE LogsInv
    OBVIOUS
  <2>1. \A i \in DOMAIN logs : TellsTheTail(logs[i], received[logs[i].id])
    BY DEF EInv
  <2>2. Events!LogsTellTheTail
    BY <2>1 DEF TellsTheTail, Events!LogsTellTheTail
  <2>3. Events!RunsAreListed
    <3>1. active # None => \E i \in DOMAIN logs : logs[i].id = active
      BY ActiveIsLast
    <3> QED
      BY <3>1 DEF EInv, Listed, Events!RunsAreListed
  <2>4. active \in {None} \union 1..MaxEventRuns
    <3>1. CASE active # None
      <4>1. Len(logs) \in Nat /\ Len(logs) # 0 /\ Len(logs) <= begun /\ active = begun
            /\ begun \in 0..MaxEventRuns
        BY <3>1 DEF EInv, EventTypes, Listed
      <4> QED
        BY <4>1, NumbersOfEvents
    <3> QED
      BY <3>1
  <2>5. selected \in 1..Events!Max({1, Len(logs)})
    <3>1. Len(logs) \in Nat /\ selected \in Nat \ {0} /\ (selected > 1 => selected <= Len(logs))
      BY DEF EInv, EventTypes
    <3>2. Events!Max({1, Len(logs)}) = IF 1 <= Len(logs) THEN Len(logs) ELSE 1
      <4>1. Len(logs) \in Int /\ 1 \in Int
        BY <3>1
      <4> QED
        BY <4>1, Extremes, Zenon
    <3>3. selected \in 1..(IF 1 <= Len(logs) THEN Len(logs) ELSE 1)
      BY <3>1
    <3> QED
      BY <3>2, <3>3, Zenon
  <2>6. Events!TypeOK
    BY <2>1, <2>4, <2>5 DEF EInv, EventTypes, TellsTheTail, Events!TypeOK
  <2> QED
    BY <2>2, <2>3, <2>6 DEF LogsInv, Events!LogsInv
<1> QED
  BY <1>1, EventsInvariance, PTL

(* What is shown of the tests of a run moves as the statuses alone do, so  *)
(* that the theorems above hold beside the output and the events.          *)
THEOREM StatusesRefined == ResultsSpec => Spec
<1>1. ResultsInit => Init
  BY DEF ResultsInit
<1>2. [ResultsNext]_resultsVars => [Next]_vars
  <2> SUFFICES ASSUME ResultsNext, ~UNCHANGED vars PROVE Next
    BY DEF resultsVars, runVars
  <2>1. RunNext
    BY DEF ResultsNext, runVars
  <2>2. CASE \E s \in Scopes : BeginsAfresh(s)
    BY <2>2, Zenon DEF BeginsAfresh, Next
  <2>3. CASE RunnerOutput \/ StrangerPrints
    BY <2>3, Zenon DEF RunnerOutput, StrangerPrints
  <2>4. CASE Announces \/ Proceeds
    BY <2>4, Zenon DEF Announces, Proceeds, Next
  <2>5. ASSUME NEW t \in Tests, NEW result \in {"Passed", "Failed"}, NEW text, Finishes(t, result, text)
        PROVE  Next
    BY <2>5, Zenon DEF Finishes, Next
  <2>6. ASSUME NEW t \in Printers, NEW text \in Texts, TestOutputArrives(t, text)
        PROVE  FALSE
    BY <2>6, Zenon DEF TestOutputArrives
  <2>7. Printers \subseteq Tests
    BY ResultsAssumption
  <2> QED
    BY <2>1, <2>2, <2>3, <2>4, <2>5, <2>6, <2>7 DEF RunNext
<1> QED
  BY <1>1, <1>2, PTL DEF ResultsSpec, Spec

-----------------------------------------------------------------------------
(***************************************************************************)
(* The output of the tests, of the runner and of an xtask.  What is proved *)
(* of a cut text is proved of its longest end that fits (LongestTail): it  *)
(* makes no difference what was dropped before, so that what is kept of    *)
(* what was kept is what is kept of all.                                   *)
(***************************************************************************)
LEMMA LeastIs ==
  ASSUME NEW S, S \subseteq Nat, S # {}
  PROVE  Min(S) \in S /\ \A m \in S : Min(S) <= m
<1>1. \E n \in S : \A m \in S : n <= m
  BY Smallest
<1> QED
  BY <1>1, Zenon DEF Min

(* Texts and their bytes.                                                  *)
Text == Seq(Characters)

WideIn(text) == {i \in DOMAIN text : text[i] \in Wide}

LEMMA SizeIs ==
  ASSUME NEW a \in Text
  PROVE  /\ IsFiniteSet(WideIn(a)) /\ Cardinality(WideIn(a)) \in Nat
         /\ Size(a) = Len(a) + Cardinality(WideIn(a))
         /\ Size(a) \in Nat /\ Size(a) >= Len(a)
<1>1. Len(a) \in Nat /\ DOMAIN a = 1..Len(a)
  BY DEF Text
<1>2. IsFiniteSet(DOMAIN a)
  BY <1>1, FS_Interval
<1>3. WideIn(a) \in SUBSET DOMAIN a
  BY DEF WideIn
<1>4. IsFiniteSet(WideIn(a)) /\ Cardinality(WideIn(a)) \in Nat
  BY <1>2, <1>3, FS_Subset, FS_CardinalityType
<1>5. Size(a) = Len(a) + Cardinality(WideIn(a))
  BY DEF Size, WideIn
<1> QED
  BY <1>1, <1>4, <1>5

LEMMA NoSize == Size(<<>>) = 0
<1>1. {i \in DOMAIN <<>> : <<>>[i] \in Wide} = {}
  OBVIOUS
<1> QED
  BY <1>1, FS_EmptySet DEF Size

(* Concatenation adds up the sizes.                                        *)
LEMMA SizeOfConcat ==
  ASSUME NEW a \in Text, NEW b \in Text
  PROVE  a \o b \in Text /\ Size(a \o b) = Size(a) + Size(b)
<1> DEFINE c == a \o b
           la == Len(a)
           Later == {i \in DOMAIN c : c[i] \in Wide /\ i > la}
           f == [i \in WideIn(b) |-> la + i]
<1>1. /\ c \in Text /\ Len(c) = la + Len(b) /\ la \in Nat /\ Len(b) \in Nat
      /\ DOMAIN a = 1..la /\ DOMAIN b = 1..Len(b) /\ DOMAIN c = 1..(la + Len(b))
      /\ \A i \in 1..(la + Len(b)) : c[i] = IF i <= la THEN a[i] ELSE b[i - la]
  BY ConcatProperties DEF Text
<1>2. WideIn(c) = WideIn(a) \union Later
  BY <1>1 DEF WideIn
<1>3. WideIn(a) \intersect Later = {}
  BY <1>1 DEF WideIn
<1>4. f \in [WideIn(b) -> Later]
  BY <1>1 DEF WideIn
<1>5. f \in Bijection(WideIn(b), Later)
  <2>1. \A i, j \in WideIn(b) : f[i] = f[j] => i = j
    BY <1>1 DEF WideIn
  <2>2. \A k \in Later : k - la \in WideIn(b) /\ f[k - la] = k
    BY <1>1 DEF WideIn
  <2> HIDE DEF f, Later
  <2> QED
    BY <1>4, <2>1, <2>2 DEF Bijection, Injection, Surjection, IsInjective
<1>6. IsFiniteSet(Later) /\ Cardinality(Later) = Cardinality(WideIn(b))
  <2> HIDE DEF f, Later
  <2> QED
    BY <1>5, SizeIs, FS_Bijection DEF ExistsBijection
<1>7. Cardinality(WideIn(c)) = Cardinality(WideIn(a)) + Cardinality(WideIn(b))
  <2> HIDE DEF f, Later, c
  <2>1. Cardinality(WideIn(c)) = Cardinality(WideIn(a)) + Cardinality(Later) - Cardinality({})
    <3>1. IsFiniteSet(WideIn(a)) /\ IsFiniteSet(Later)
      BY <1>6, SizeIs
    <3>2. Cardinality(WideIn(a) \union Later) =
            Cardinality(WideIn(a)) + Cardinality(Later) - Cardinality(WideIn(a) \intersect Later)
      BY <3>1, FS_Union
    <3> QED
      BY <1>2, <1>3, <3>2, Zenon
  <2> QED
    BY <2>1, <1>6, SizeIs, FS_EmptySet
<1> HIDE DEF c
<1>8. Size(c) = Size(a) + Size(b)
  <2>1. \A x \in {a, b, c} : /\ Size(x) = Len(x) + Cardinality(WideIn(x))
                             /\ Cardinality(WideIn(x)) \in Nat
    BY <1>1, SizeIs
  <2>2. /\ Size(a) = Len(a) + Cardinality(WideIn(a)) /\ Cardinality(WideIn(a)) \in Nat
        /\ Size(b) = Len(b) + Cardinality(WideIn(b)) /\ Cardinality(WideIn(b)) \in Nat
        /\ Size(c) = Len(c) + Cardinality(WideIn(c)) /\ Len(c) = Len(a) + Len(b)
    BY <1>1, <2>1
  <2> HIDE DEF la
  <2> QED
    BY <1>1, <1>7, <2>2
<1> QED
  BY <1>1, <1>8 DEF c

-----------------------------------------------------------------------------
(* Ends of texts.                                                          *)
LEMMA FromIs ==
  ASSUME NEW y \in Text, NEW k \in 0..Len(y)
  PROVE  /\ From(y, k) \in Text /\ Len(From(y, k)) = Len(y) - k
         /\ \A i \in 1..(Len(y) - k) : From(y, k)[i] = y[k + i]
         /\ SubSeq(y, 1, k) \in Text /\ Len(SubSeq(y, 1, k)) = k
         /\ y = SubSeq(y, 1, k) \o From(y, k)
         /\ Size(SubSeq(y, 1, k)) + Size(From(y, k)) = Size(y)
<1> DEFINE n == Len(y)
<1>1. n \in Nat /\ k \in Nat /\ k <= n /\ \A i \in 1..n : y[i] \in Characters
  BY DEF Text
<1>2. /\ From(y, k) \in Text /\ Len(From(y, k)) = n - k
      /\ \A i \in 1..(n - k) : From(y, k)[i] = y[k + i]
  <2>1. From(y, k) = [i \in 1..(n - k) |-> y[k + i]]
    BY <1>1 DEF From
  <2>2. n - k \in Nat /\ \A i \in 1..(n - k) : y[k + i] \in Characters
    BY <1>1
  <2> HIDE DEF n
  <2>3. [i \in 1..(n - k) |-> y[k + i]] \in Text /\ Len([i \in 1..(n - k) |-> y[k + i]]) = n - k
    BY <2>2 DEF Text
  <2> QED
    BY <2>1, <2>3
<1>3. SubSeq(y, 1, k) \in Text /\ Len(SubSeq(y, 1, k)) = k
      /\ \A i \in 1..k : SubSeq(y, 1, k)[i] = y[i]
  <2>1. SubSeq(y, 1, k) = [i \in 1..k |-> y[i]]
    BY <1>1
  <2>2. [i \in 1..k |-> y[i]] \in Text /\ Len([i \in 1..k |-> y[i]]) = k
    BY <1>1 DEF Text
  <2> QED
    BY <2>1, <2>2
<1>4. y = SubSeq(y, 1, k) \o From(y, k)
  <2> DEFINE p == SubSeq(y, 1, k)
             e == From(y, k)
  <2>1. /\ p \o e \in Text /\ Len(p \o e) = k + (n - k)
        /\ \A i \in 1..(k + (n - k)) : (p \o e)[i] = IF i <= k THEN p[i] ELSE e[i - k]
    BY <1>2, <1>3, ConcatProperties DEF Text
  <2>2. Len(p \o e) = n /\ \A i \in 1..n : (p \o e)[i] = y[i]
    <3> HIDE DEF p, e, n
    <3>1. \A i \in 1..k : p[i] = y[i]
      BY <1>3 DEF p
    <3>2. \A i \in 1..n : i > k => i - k \in 1..(n - k) /\ y[k + (i - k)] = y[i]
      BY <1>1
    <3>3. \A i \in 1..n : i > k => e[i - k] = y[i]
      BY <1>2, <3>2 DEF e
    <3> QED
      BY <2>1, <3>1, <3>3, <1>1
  <2> HIDE DEF p, e
  <2>3. p \o e = y
    BY <2>1, <2>2, SeqEqual DEF Text
  <2> QED
    BY <2>3 DEF p, e
<1>5. Size(SubSeq(y, 1, k)) + Size(From(y, k)) = Size(y)
  <2> DEFINE p == SubSeq(y, 1, k)
             e == From(y, k)
  <2>1. p \in Text /\ e \in Text /\ y = p \o e
    BY <1>2, <1>3, <1>4
  <2> HIDE DEF p, e
  <2>2. Size(y) = Size(p) + Size(e)
    BY <2>1, SizeOfConcat
  <2> QED
    BY <2>2 DEF p, e
<1> QED
  BY <1>2, <1>3, <1>4, <1>5

LEMMA FromEnds ==
  ASSUME NEW y \in Text
  PROVE  From(y, 0) = y /\ From(y, Len(y)) = <<>> /\ 0 \in 0..Len(y) /\ Len(y) \in 0..Len(y)
<1>1. Len(y) \in Nat
  BY DEF Text
<1>2. Len(y) \in 0..Len(y) /\ 0 \in 0..Len(y)
  BY <1>1
<1>3. /\ Len(From(y, 0)) = Len(y) - 0 /\ From(y, 0) \in Text
      /\ \A i \in 1..(Len(y) - 0) : From(y, 0)[i] = y[0 + i]
  BY <1>2, FromIs, Zenon
<1>4. Len(From(y, 0)) = Len(y) /\ \A i \in 1..Len(y) : From(y, 0)[i] = y[i]
  BY <1>1, <1>3
<1>5. From(y, 0) = y
  BY <1>3, <1>4, SeqEqual DEF Text
<1>6. Len(From(y, Len(y))) = 0 /\ From(y, Len(y)) \in Text
  BY <1>1, <1>2, FromIs
<1> QED
  BY <1>2, <1>5, <1>6 DEF Text

(* An end of an end is an end.                                             *)
LEMMA FromLater ==
  ASSUME NEW y \in Text, NEW j \in 0..Len(y), NEW k \in j..Len(y)
  PROVE  /\ From(From(y, j), k - j) = From(y, k) /\ k - j \in 0..Len(From(y, j))
         /\ Size(From(y, k)) <= Size(From(y, j))
<1> DEFINE e == From(y, j)
           l == From(y, k)
<1>0. k \in 0..Len(y) /\ Len(y) \in Nat /\ j \in Nat /\ k \in Nat /\ j <= k
  BY DEF Text
<1>1. /\ e \in Text /\ Len(e) = Len(y) - j
      /\ \A i \in 1..(Len(y) - j) : e[i] = y[j + i]
  BY FromIs
<1>2. /\ l \in Text /\ Len(l) = Len(y) - k
      /\ \A i \in 1..(Len(y) - k) : l[i] = y[k + i]
  BY <1>0, FromIs
<1>3. k - j \in 0..Len(e)
  BY <1>0, <1>1
<1> HIDE DEF e
<1>4. /\ From(e, k - j) \in Text /\ Len(From(e, k - j)) = Len(e) - (k - j)
      /\ \A i \in 1..(Len(e) - (k - j)) : From(e, k - j)[i] = e[(k - j) + i]
      /\ SubSeq(e, 1, k - j) \in Text
      /\ Size(SubSeq(e, 1, k - j)) + Size(From(e, k - j)) = Size(e)
  BY <1>1, <1>3, FromIs
<1>5. Len(From(e, k - j)) = Len(l) /\ \A i \in 1..Len(l) : From(e, k - j)[i] = l[i]
  <2> HIDE DEF l
  <2>1. Len(From(e, k - j)) = Len(l) /\ Len(e) - (k - j) = Len(y) - k
    <3>1. Len(e) - (k - j) = Len(y) - k
      BY <1>0, <1>1
    <3> QED
      BY <1>2, <1>4, <3>1
  <2>2. ASSUME NEW i \in 1..Len(l) PROVE From(e, k - j)[i] = l[i]
    <3>1. /\ i \in 1..(Len(e) - (k - j)) /\ i \in 1..(Len(y) - k)
          /\ (k - j) + i \in 1..(Len(y) - j) /\ j + ((k - j) + i) = k + i
      BY <1>0, <1>2, <2>1
    <3> QED
      BY <1>1, <1>2, <1>4, <3>1
  <2> QED
    BY <2>1, <2>2
<1>6. From(e, k - j) = l
  <2> HIDE DEF l
  <2> QED
    BY <1>2, <1>4, <1>5, SeqEqual DEF Text
<1>7. Size(From(y, k)) <= Size(e)
  <2>1. Size(SubSeq(e, 1, k - j)) \in Nat /\ Size(l) \in Nat
    BY <1>2, <1>4, SizeIs
  <2>2. Size(SubSeq(e, 1, k - j)) + Size(l) = Size(e)
    BY <1>4, <1>6
  <2> QED
    BY <2>1, <2>2
<1> QED
  BY <1>3, <1>6, <1>7 DEF e

LEMMA FromConcat ==
  ASSUME NEW s \in Text, NEW x \in Text, NEW k \in 0..Len(s)
  PROVE  k \in 0..Len(s \o x) /\ From(s \o x, k) = From(s, k) \o x
<1> DEFINE y == s \o x
           p == SubSeq(s, 1, k)
           e == From(s, k)
<1>1. /\ y \in Text /\ Len(y) = Len(s) + Len(x) /\ Len(s) \in Nat /\ Len(x) \in Nat
      /\ \A i \in 1..(Len(s) + Len(x)) : y[i] = IF i <= Len(s) THEN s[i] ELSE x[i - Len(s)]
  BY ConcatProperties DEF Text
<1>2. /\ e \in Text /\ Len(e) = Len(s) - k
      /\ \A i \in 1..(Len(s) - k) : e[i] = s[k + i]
  BY FromIs
<1>3. k \in 0..Len(y)
  BY <1>1
<1> HIDE DEF y
<1>4. /\ From(y, k) \in Text /\ Len(From(y, k)) = Len(y) - k
      /\ \A i \in 1..(Len(y) - k) : From(y, k)[i] = y[k + i]
  BY <1>1, <1>3, FromIs
<1> HIDE DEF e
<1>5. /\ e \o x \in Text /\ Len(e \o x) = Len(e) + Len(x)
      /\ \A i \in 1..(Len(e) + Len(x)) : (e \o x)[i] = IF i <= Len(e) THEN e[i] ELSE x[i - Len(e)]
  BY <1>2, ConcatProperties DEF Text
<1>6. Len(e \o x) = Len(From(y, k))
  BY <1>1, <1>2, <1>4, <1>5
<1>7. ASSUME NEW i \in 1..Len(e \o x)
      PROVE  (e \o x)[i] = From(y, k)[i]
  <2>1. /\ i \in 1..(Len(e) + Len(x)) /\ i \in 1..(Len(y) - k) /\ k + i \in 1..(Len(s) + Len(x))
        /\ i <= Len(e) <=> k + i <= Len(s)
        /\ i <= Len(e) => i \in 1..(Len(s) - k)
        /\ (k + i) - Len(s) = i - Len(e)
    BY <1>1, <1>2, <1>4, <1>5, <1>6
  <2>2. From(y, k)[i] = y[k + i]
    BY <1>4, <2>1
  <2>3. y[k + i] = IF k + i <= Len(s) THEN s[k + i] ELSE x[(k + i) - Len(s)]
    BY <1>1, <2>1
  <2>4. (e \o x)[i] = IF i <= Len(e) THEN e[i] ELSE x[i - Len(e)]
    BY <1>5, <2>1
  <2> QED
    BY <1>2, <2>1, <2>2, <2>3, <2>4
<1>8. e \o x = From(y, k)
  BY <1>4, <1>5, <1>6, <1>7, SeqEqual DEF Text
<1> QED
  BY <1>3, <1>8 DEF e, y

-----------------------------------------------------------------------------
(* The longest end of a text that fits.                                    *)
LEMMA TailExists ==
  ASSUME NEW y \in Text, NEW b \in Nat
  PROVE  \E k \in 0..Len(y) : /\ LongestTail(y, b) = From(y, k)
                              /\ Size(From(y, k)) <= b
                              /\ \A j \in 0..(k - 1) : Size(From(y, j)) > b
<1> DEFINE Fits == {k \in 0..Len(y) : Size(From(y, k)) <= b}
           k == Min(Fits)
<1>1. Len(y) \in Fits
  <2>1. From(y, Len(y)) = <<>> /\ Len(y) \in 0..Len(y)
    BY FromEnds
  <2> QED
    BY <2>1, NoSize
<1>2. Fits \subseteq Nat /\ Len(y) \in Nat
  BY DEF Text
<1>3. k \in Fits /\ \A m \in Fits : k <= m
  <2> HIDE DEF Fits
  <2> QED
    BY <1>1, <1>2, LeastIs, Zenon
<1>4. LongestTail(y, b) = From(y, k)
  BY Zenon DEF LongestTail
<1> HIDE DEF k
<1>5. ASSUME NEW j \in 0..(k - 1) PROVE Size(From(y, j)) > b
  <2>1. j \in 0..Len(y) /\ ~(k <= j)
    BY <1>2, <1>3
  <2>2. ~(Size(From(y, j)) <= b)
    BY <1>3, <2>1
  <2>3. Size(From(y, j)) \in Nat
    BY <2>1, FromIs, SizeIs
  <2> QED
    BY <2>2, <2>3
<1> QED
  BY <1>3, <1>4, <1>5

(* Whatever fits, and is the first to fit, is the longest end.             *)
LEMMA TailIs ==
  ASSUME NEW y \in Text, NEW b \in Nat, NEW k \in 0..Len(y),
         Size(From(y, k)) <= b, \A j \in 0..(k - 1) : Size(From(y, j)) > b
  PROVE  LongestTail(y, b) = From(y, k)
<1>1. PICK m \in 0..Len(y) : /\ LongestTail(y, b) = From(y, m)
                             /\ Size(From(y, m)) <= b
                             /\ \A j \in 0..(m - 1) : Size(From(y, j)) > b
  BY TailExists
<1>2. Size(From(y, m)) \in Nat /\ Size(From(y, k)) \in Nat /\ Len(y) \in Nat
  BY FromIs, SizeIs DEF Text
<1>3. ~(m \in 0..(k - 1)) /\ ~(k \in 0..(m - 1))
  BY <1>1, <1>2
<1>4. m = k
  BY <1>2, <1>3
<1> QED
  BY <1>1, <1>4

LEMMA TailFits ==
  ASSUME NEW y \in Text, NEW b \in Nat, Size(y) <= b
  PROVE  LongestTail(y, b) = y
<1>1. From(y, 0) = y /\ 0 \in 0..Len(y)
  BY FromEnds
<1> QED
  BY <1>1, TailIs

LEMMA TailSize ==
  ASSUME NEW y \in Text, NEW b \in Nat
  PROVE  LongestTail(y, b) \in Text /\ Size(LongestTail(y, b)) <= b
BY TailExists, FromIs

(* What is dropped in between makes no difference.                         *)
LEMMA TailOfTail ==
  ASSUME NEW y \in Text, NEW b \in Nat, NEW k \in 0..Len(y),
         \A j \in 0..(k - 1) : Size(From(y, j)) > b
  PROVE  LongestTail(From(y, k), b) = LongestTail(y, b)
<1> DEFINE e == From(y, k)
<1>1. e \in Text /\ Len(e) = Len(y) - k /\ Len(y) \in Nat
  BY FromIs DEF Text
<1> HIDE DEF e
<1>2. PICK m \in 0..Len(e) : /\ LongestTail(e, b) = From(e, m)
                             /\ Size(From(e, m)) <= b
                             /\ \A j \in 0..(m - 1) : Size(From(e, j)) > b
  BY <1>1, TailExists
<1>3. \A j \in k..Len(y) : From(e, j - k) = From(y, j)
  BY FromLater DEF e
<1>4. k + m \in k..Len(y) /\ (k + m) - k = m /\ k + m \in 0..Len(y)
  BY <1>1
<1>5. From(e, m) = From(y, k + m)
  BY <1>3, <1>4
<1>6. ASSUME NEW j \in 0..(k + m - 1) PROVE Size(From(y, j)) > b
  <2>1. CASE j < k
    BY <2>1
  <2>2. CASE j >= k
    <3>1. j \in k..Len(y) /\ j - k \in 0..(m - 1)
      BY <1>1, <2>2
    <3> QED
      BY <1>2, <1>3, <3>1
  <2> QED
    BY <2>1, <2>2
<1>7. LongestTail(y, b) = From(y, k + m)
  <2> DEFINE h == k + m
  <2>1. h \in 0..Len(y) /\ Size(From(y, h)) <= b /\ \A j \in 0..(h - 1) : Size(From(y, j)) > b
    BY <1>2, <1>4, <1>5, <1>6
  <2> HIDE DEF h
  <2>2. LongestTail(y, b) = From(y, h)
    BY <2>1, TailIs
  <2> QED
    BY <2>2 DEF h
<1> QED
  BY <1>2, <1>5, <1>7 DEF e

(* Nor does it that a text was cut before more came.                       *)
LEMMA TailGrows ==
  ASSUME NEW s \in Text, NEW x \in Text, NEW d \in Nat, NEW b \in Nat, b <= d
  PROVE  LongestTail(LongestTail(s, d) \o x, b) = LongestTail(s \o x, b)
<1>1. PICK k \in 0..Len(s) : /\ LongestTail(s, d) = From(s, k)
                             /\ \A j \in 0..(k - 1) : Size(From(s, j)) > d
  BY TailExists
<1>2. k \in 0..Len(s \o x) /\ From(s \o x, k) = From(s, k) \o x /\ s \o x \in Text
  BY FromConcat, SizeOfConcat
<1>3. ASSUME NEW j \in 0..(k - 1) PROVE Size(From(s \o x, j)) > b
  <2>1. j \in 0..Len(s)
    BY DEF Text
  <2>2. From(s \o x, j) = From(s, j) \o x
    BY <2>1, FromConcat
  <2>3. Size(From(s, j) \o x) = Size(From(s, j)) + Size(x)
        /\ Size(From(s, j)) \in Nat /\ Size(x) \in Nat
    BY <2>1, FromIs, SizeOfConcat, SizeIs
  <2> QED
    BY <1>1, <2>2, <2>3
<1> DEFINE y == s \o x
<1> HIDE DEF y
<1>4. LongestTail(From(y, k), b) = LongestTail(y, b)
  BY <1>2, <1>3, TailOfTail DEF y
<1> QED
  BY <1>1, <1>2, <1>4 DEF y

(* What is kept behind takes its room.                                     *)
LEMMA TailBeside ==
  ASSUME NEW s \in Text, NEW x \in Text, NEW b \in Nat, Size(x) <= b
  PROVE  LongestTail(s \o x, b) = LongestTail(s, b - Size(x)) \o x
<1>0. Size(x) \in Nat /\ b - Size(x) \in Nat
  BY SizeIs
<1>1. PICK k \in 0..Len(s) : /\ LongestTail(s, b - Size(x)) = From(s, k)
                             /\ Size(From(s, k)) <= b - Size(x)
                             /\ \A j \in 0..(k - 1) : Size(From(s, j)) > b - Size(x)
  <2> DEFINE d == b - Size(x)
  <2> HIDE DEF d
  <2>1. d \in Nat
    BY <1>0 DEF d
  <2>2. \E k \in 0..Len(s) : /\ LongestTail(s, d) = From(s, k)
                             /\ Size(From(s, k)) <= d
                             /\ \A j \in 0..(k - 1) : Size(From(s, j)) > d
    BY <2>1, TailExists
  <2> QED
    BY <2>2 DEF d
<1>2. ASSUME NEW j \in 0..Len(s)
      PROVE  /\ j \in 0..Len(s \o x) /\ From(s \o x, j) = From(s, j) \o x
             /\ Size(From(s \o x, j)) = Size(From(s, j)) + Size(x)
             /\ Size(From(s, j)) \in Nat
  <2>1. j \in 0..Len(s \o x) /\ From(s \o x, j) = From(s, j) \o x
    BY FromConcat
  <2>2. From(s, j) \in Text
    BY FromIs
  <2> QED
    BY <2>1, <2>2, SizeOfConcat, SizeIs
<1>3. s \o x \in Text /\ Len(s) \in Nat
  BY SizeOfConcat DEF Text
<1>4. Size(From(s \o x, k)) <= b
  BY <1>0, <1>1, <1>2
<1>5. ASSUME NEW j \in 0..(k - 1) PROVE Size(From(s \o x, j)) > b
  <2>1. j \in 0..Len(s)
    BY <1>3
  <2> QED
    BY <1>0, <1>1, <1>2, <2>1
<1>6. LongestTail(s \o x, b) = From(s \o x, k)
  <2> DEFINE y == s \o x
  <2>1. y \in Text /\ k \in 0..Len(y) /\ Size(From(y, k)) <= b /\ \A j \in 0..(k - 1) : Size(From(y, j)) > b
    BY <1>2, <1>3, <1>4, <1>5
  <2> HIDE DEF y
  <2>2. LongestTail(y, b) = From(y, k)
    BY <2>1, TailIs
  <2> QED
    BY <2>2 DEF y
<1> QED
  BY <1>1, <1>2, <1>6

(* What alone is too long leaves nothing of what comes before it.          *)
LEMMA TailBehind ==
  ASSUME NEW p \in Text, NEW w \in Text, NEW b \in Nat, Size(w) > b
  PROVE  LongestTail(p \o w, b) = LongestTail(w, b)
<1>1. From(p, Len(p)) = <<>> /\ Len(p) \in 0..Len(p) /\ Len(p) \in Nat
  BY FromEnds DEF Text
<1>2. /\ Len(p) \in 0..Len(p \o w) /\ From(p \o w, Len(p)) = From(p, Len(p)) \o w
      /\ p \o w \in Text
  BY <1>1, FromConcat, SizeOfConcat
<1>3. From(p \o w, Len(p)) = w
  BY <1>1, <1>2, ConcatEmptySeq DEF Text
<1>4. ASSUME NEW j \in 0..(Len(p) - 1) PROVE Size(From(p \o w, j)) > b
  <2>1. j \in 0..Len(p)
    BY <1>1
  <2>2. /\ From(p \o w, j) = From(p, j) \o w
        /\ Size(From(p, j) \o w) = Size(From(p, j)) + Size(w)
        /\ Size(From(p, j)) \in Nat /\ Size(w) \in Nat
    BY <2>1, FromConcat, FromIs, SizeOfConcat, SizeIs
  <2> QED
    BY <2>2
<1> DEFINE y == p \o w
           k == Len(p)
<1> HIDE DEF y, k
<1>5. LongestTail(From(y, k), b) = LongestTail(y, b)
  BY <1>2, <1>4, TailOfTail DEF y, k
<1> QED
  BY <1>3, <1>5 DEF y, k

(* CutAt finds it.                                                         *)
LEMMA CutIs ==
  ASSUME NEW y \in Text, NEW e \in Nat, e > 0
  PROVE  LET k == CutAt(y, e)
         IN /\ k \in 0..Len(y) /\ (k = Len(y) \/ Size(SubSeq(y, 1, k)) >= e)
            /\ \A j \in 0..(k - 1) : Size(SubSeq(y, 1, j)) < e
<1> DEFINE Reach == {k \in 0..Len(y) : k = Len(y) \/ Size(SubSeq(y, 1, k)) >= e}
           k == Min(Reach)
<1>1. Len(y) \in Nat
  BY DEF Text
<1>2. Len(y) \in Reach /\ Reach \subseteq Nat
  BY <1>1
<1>3. k \in Reach /\ \A m \in Reach : k <= m
  <2> HIDE DEF Reach
  <2> QED
    BY <1>2, LeastIs, Zenon
<1>4. CutAt(y, e) = k
  BY Zenon DEF CutAt
<1> HIDE DEF k
<1>5. ASSUME NEW j \in 0..(k - 1) PROVE Size(SubSeq(y, 1, j)) < e
  <2>1. j \in 0..Len(y) /\ ~(k <= j)
    BY <1>1, <1>3
  <2>2. Size(SubSeq(y, 1, j)) \in Nat
    BY <2>1, FromIs, SizeIs
  <2> QED
    BY <1>3, <2>1, <2>2
<1> QED
  BY <1>3, <1>4, <1>5

-----------------------------------------------------------------------------
(* Texts one after the other.                                              *)
LEMMA Flattened ==
  ASSUME NEW ss \in Seq(Text), ss # <<>>
  PROVE  \E f \in [1..Len(ss) -> Text] :
           /\ FlattenSeq(ss) = f[Len(ss)]
           /\ \A i \in 1..Len(ss) : f[i] = IF i = 1 THEN ss[i] ELSE f[i - 1] \o ss[i]
<1> DEFINE n == Len(ss)
           Piece(f, i) == IF i = 1 THEN ss[i] ELSE f[i - 1] \o ss[i]
           Stage(f) == [i \in 1..n |-> Piece(f, i)]
           Partial(m, g) == g \in [1..m -> Text] /\ \A i \in 1..m : g[i] = Piece(g, i)
           flatten == CHOOSE f : f = Stage(f)
<1>n. n \in Nat /\ n > 0 /\ \A i \in 1..n : ss[i] \in Text
  OBVIOUS
<1>1. \A m \in 0..n : \E g : Partial(m, g)
  <2> DEFINE missing == {m \in 0..n : ~\E g : Partial(m, g)}
  <2> SUFFICES ASSUME missing # {}
               PROVE  FALSE
    OBVIOUS
  <2>0. missing \subseteq Nat
    BY <1>n
  <2>1. PICK m \in missing : \A k \in missing : m <= k
    <3> HIDE DEF missing
    <3> QED
      BY <2>0, Smallest
  <2>2. Partial(0, [i \in {} |-> <<>>])
    OBVIOUS
  <2>3. m \in 1..n /\ m - 1 \in 0..n /\ m - 1 \notin missing
    <3> HIDE DEF Partial, n
    <3>1. m # 0 /\ m \in 0..n
      BY <2>2
    <3>2. m \in 1..n /\ m - 1 \in 0..n /\ ~(m <= m - 1)
      BY <3>1, <1>n
    <3> HIDE DEF missing
    <3> QED
      BY <2>1, <3>2
  <2>4. PICK g : Partial(m - 1, g)
    <3> HIDE DEF Partial, n
    <3> QED
      BY <2>3
  <2>g. \A i \in 1..m - 1 : g[i] = Piece(g, i)
    BY <2>4
  <2> DEFINE h == [i \in 1..m |-> IF i = m THEN Piece(g, m) ELSE g[i]]
  <2>5. Piece(g, m) \in Text
    <3>1. CASE m = 1
      BY <3>1, <1>n, <2>3
    <3>2. CASE m # 1
      <4>1. g[m - 1] \in Text /\ ss[m] \in Text
        BY <3>2, <1>n, <2>3, <2>4
      <4> QED
        BY <4>1, <3>2, SizeOfConcat
    <3> QED
      BY <3>1, <3>2
  <2>6. \A i \in 1..m : h[i] = Piece(h, i)
    <3> SUFFICES ASSUME NEW i \in 1..m
                 PROVE  h[i] = Piece(h, i)
      OBVIOUS
    <3>1. i # 1 => i - 1 \in 1..m /\ i - 1 # m /\ h[i - 1] = g[i - 1]
      BY <2>3
    <3>2. Piece(h, i) = Piece(g, i)
      BY <3>1
    <3>3. i # m => i \in 1..m - 1 /\ g[i] = Piece(g, i)
      <4>1. i # m => i \in 1..m - 1
        BY <2>3
      <4> HIDE DEF Piece
      <4> QED
        BY <4>1, <2>g
    <3> QED
      BY <3>2, <3>3
  <2>7. h \in [1..m -> Text]
    BY <2>3, <2>4, <2>5
  <2>8. Partial(m, h)
    BY <2>6, <2>7
  <2> QED
    BY <2>1, <2>8
<1>2. PICK g : Partial(n, g)
  <2> HIDE DEF Partial
  <2> QED
    BY <1>1, <1>n
<1>3. g = Stage(g)
  BY <1>2
<1>4. flatten = Stage(flatten)
  <2> HIDE DEF Stage
  <2> QED
    BY <1>3
<1>5. \A i \in 1..n : flatten[i] = g[i]
  <2> DEFINE bad == {i \in 1..n : flatten[i] # g[i]}
  <2> HIDE DEF flatten
  <2> SUFFICES ASSUME bad # {}
               PROVE  FALSE
    OBVIOUS
  <2>0. bad \subseteq Nat
    BY <1>n
  <2>1. PICK i \in bad : \A k \in bad : i <= k
    <3> HIDE DEF bad
    <3> QED
      BY <2>0, Smallest
  <2>2. i \in 1..n /\ flatten[i] = Piece(flatten, i) /\ g[i] = Piece(g, i)
    BY <1>3, <1>4
  <2>3. i # 1 => i - 1 \in 1..n /\ i - 1 \notin bad
    BY <1>n, <2>1
  <2>4. i # 1 => flatten[i - 1] = g[i - 1]
    BY <2>3
  <2>5. Piece(flatten, i) = Piece(g, i)
    BY <2>4
  <2> QED
    BY <2>1, <2>2, <2>5
<1>6. flatten = g
  <2> HIDE DEF Partial
  <2>1. flatten = [i \in 1..n |-> flatten[i]]
    <3>1. \A h : Stage(h) = [i \in 1..n |-> Stage(h)[i]]
      OBVIOUS
    <3> HIDE DEF Stage, flatten
    <3> QED
      BY <1>4, <3>1, Zenon
  <2>2. g = [i \in 1..n |-> g[i]]
    BY <1>2 DEF Partial
  <2> HIDE DEF flatten
  <2> QED
    BY <1>5, <2>1, <2>2
<1>7. FlattenSeq(ss) = flatten[n]
  <2>1. n # 0
    BY <1>n
  <2> QED
    BY <2>1 DEF FlattenSeq
<1>8. FlattenSeq(ss) = g[n]
  BY <1>6, <1>7
<1> HIDE DEF flatten
<1> QED
  BY <1>2, <1>8

LEMMA FlattenedAppend ==
  ASSUME NEW ss \in Seq(Text), ss # <<>>, NEW x \in Text
  PROVE  /\ FlattenSeq(ss) \in Text
         /\ FlattenSeq(Append(ss, x)) = FlattenSeq(ss) \o x
<1> DEFINE n == Len(ss)
           tt == Append(ss, x)
<1>1. n \in Nat \ {0} /\ Len(tt) = n + 1 /\ tt \in Seq(Text) /\ tt # <<>>
      /\ (\A i \in 1..n : tt[i] = ss[i]) /\ tt[n + 1] = x
  BY AppendProperties
<1>2. PICK f \in [1..n -> Text] :
        /\ FlattenSeq(ss) = f[n]
        /\ \A i \in 1..n : f[i] = IF i = 1 THEN ss[i] ELSE f[i - 1] \o ss[i]
  BY Flattened
<1> HIDE DEF tt
<1>3. PICK g \in [1..(n + 1) -> Text] :
        /\ FlattenSeq(tt) = g[n + 1]
        /\ \A i \in 1..(n + 1) : g[i] = IF i = 1 THEN tt[i] ELSE g[i - 1] \o tt[i]
  BY <1>1, Flattened
<1> HIDE DEF n
<1>4. \A i \in 1..n : f[i] = g[i]
  <2> DEFINE bad == {i \in 1..n : f[i] # g[i]}
  <2> SUFFICES ASSUME bad # {}
               PROVE  FALSE
    OBVIOUS
  <2>0. bad \subseteq Nat
    BY <1>1
  <2>1. PICK i \in bad : \A k \in bad : i <= k
    <3> HIDE DEF bad
    <3> QED
      BY <2>0, Smallest
  <2>2. /\ i \in 1..n /\ i \in 1..(n + 1) /\ tt[i] = ss[i]
        /\ f[i] = IF i = 1 THEN ss[i] ELSE f[i - 1] \o ss[i]
    <3>1. i \in 1..n /\ i \in 1..(n + 1)
      BY <1>1
    <3> QED
      BY <1>1, <1>2, <3>1, Zenon
  <2>3. g[i] = IF i = 1 THEN ss[i] ELSE g[i - 1] \o ss[i]
    BY <1>3, <2>2
  <2>4. i # 1 => i - 1 \in 1..n /\ i - 1 \notin bad
    BY <1>1, <2>1
  <2>5. i # 1 => f[i - 1] = g[i - 1]
    BY <2>4
  <2> QED
    BY <2>1, <2>2, <2>3, <2>5
<1>5. n + 1 \in 1..(n + 1) /\ n + 1 # 1 /\ (n + 1) - 1 = n /\ n \in 1..n
  BY <1>1
<1>6. g[n + 1] = g[n] \o x
  <2>1. g[n + 1] = IF n + 1 = 1 THEN tt[n + 1] ELSE g[(n + 1) - 1] \o tt[n + 1]
    BY <1>3, <1>5
  <2> QED
    BY <1>1, <1>5, <2>1
<1>7. FlattenSeq(tt) = FlattenSeq(ss) \o x
  BY <1>2, <1>3, <1>4, <1>5, <1>6
<1> QED
  BY <1>2, <1>5, <1>7 DEF tt

LEMMA FlattenedFew ==
  /\ FlattenSeq(<<>>) = <<>>
  /\ \A x \in Text : FlattenSeq(<<x>>) = x
<1>1. FlattenSeq(<<>>) = <<>>
  BY DEF FlattenSeq
<1>2. ASSUME NEW x \in Text PROVE FlattenSeq(<<x>>) = x
  <2>1. <<x>> \in Seq(Text) /\ <<x>> # <<>> /\ Len(<<x>>) = 1 /\ <<x>>[1] = x
    OBVIOUS
  <2> DEFINE ss == <<x>>
  <2> HIDE DEF ss
  <2>2. \E f \in [1..Len(ss) -> Text] :
           /\ FlattenSeq(ss) = f[Len(ss)]
           /\ \A i \in 1..Len(ss) : f[i] = IF i = 1 THEN ss[i] ELSE f[i - 1] \o ss[i]
    BY <2>1, Flattened DEF ss
  <2>3. FlattenSeq(ss) = x
    BY <2>1, <2>2 DEF ss
  <2> QED
    BY <2>3 DEF ss
<1> QED
  BY <1>1, <1>2

-----------------------------------------------------------------------------
(* The text of the entries of an output.                                   *)
Filled == Text \ {<<>>}
Captured == [kind : {"Text", "Event"}, text : Filled]
Entries == [kind : {"Text", "Event", "Summary"}, text : Filled]

LEMMA EntryHasText == \A e \in Entries : e.text \in Text /\ e.text # <<>>
BY DEF Entries, Filled

LEMMA ConcatIs ==
  ASSUME NEW a \in Text, NEW b \in Text
  PROVE  /\ Len(a \o b) = Len(a) + Len(b) /\ Len(a) \in Nat /\ Len(b) \in Nat
         /\ \A i \in 1..(Len(a) + Len(b)) :
              (a \o b)[i] = IF i <= Len(a) THEN a[i] ELSE b[i - Len(a)]
BY ConcatProperties DEF Text

LEMMA Associative ==
  ASSUME NEW a \in Text, NEW b \in Text, NEW c \in Text
  PROVE  (a \o b) \o c = a \o (b \o c)
BY ConcatAssociative DEF Text

LEMMA TextOfNone == TextOf(<<>>) = <<>>
<1>1. [i \in DOMAIN <<>> |-> <<>>[i].text] = <<>>
  OBVIOUS
<1> QED
  BY <1>1, FlattenedFew DEF TextOf

LEMMA TextOfAppend ==
  ASSUME NEW es \in Seq(Entries), NEW e \in Entries
  PROVE  TextOf(es) \in Text /\ TextOf(Append(es, e)) = TextOf(es) \o e.text
<1> DEFINE all == Append(es, e)
           ts == [i \in DOMAIN es |-> es[i].text]
           us == [i \in DOMAIN all |-> all[i].text]
<1>1. /\ Len(es) \in Nat /\ DOMAIN es = 1..Len(es) /\ e.text \in Text
      /\ \A i \in 1..Len(es) : es[i].text \in Text
  <2>1. Len(es) \in Nat /\ DOMAIN es = 1..Len(es) /\ \A i \in 1..Len(es) : es[i] \in Entries
    OBVIOUS
  <2> QED
    BY <2>1, EntryHasText
<1>2. /\ DOMAIN all = 1..(Len(es) + 1)
      /\ (\A i \in 1..Len(es) : all[i] = es[i]) /\ all[Len(es) + 1] = e
  BY <1>1, AppendProperties
<1>3. ts \in Seq(Text) /\ Len(ts) = Len(es) /\ \A i \in 1..Len(es) : ts[i] = es[i].text
  BY <1>1
<1>4. us = Append(ts, e.text)
  <2>1. /\ Append(ts, e.text) \in Seq(Text) /\ Len(Append(ts, e.text)) = Len(es) + 1
        /\ \A i \in 1..Len(es) : Append(ts, e.text)[i] = ts[i]
        /\ Append(ts, e.text)[Len(es) + 1] = e.text
    <3> HIDE DEF ts
    <3> QED
      BY <1>1, <1>3, AppendProperties
  <2>2. us \in Seq(Text) /\ Len(us) = Len(es) + 1 /\ us[Len(es) + 1] = e.text
        /\ \A i \in 1..Len(es) : us[i] = es[i].text
    <3> HIDE DEF all
    <3> QED
      BY <1>1, <1>2
  <2> HIDE DEF us, ts
  <2>3. \A i \in 1..(Len(es) + 1) : us[i] = Append(ts, e.text)[i]
    BY <1>1, <1>3, <2>1, <2>2
  <2> QED
    BY <2>1, <2>2, <2>3, SeqEqual
<1>5. TextOf(es) = FlattenSeq(ts) /\ TextOf(all) = FlattenSeq(us)
  BY DEF TextOf
<1> HIDE DEF ts, us, all
<1>6. CASE ts = <<>>
  <2>1. FlattenSeq(ts) = <<>> /\ us = <<e.text>>
    BY <1>4, <1>6, FlattenedFew
  <2>2. FlattenSeq(us) = e.text /\ <<>> \o e.text = e.text /\ <<>> \in Text
    BY <1>1, <2>1, FlattenedFew, ConcatEmptySeq DEF Text
  <2> QED
    BY <1>5, <2>1, <2>2 DEF all
<1>7. CASE ts # <<>>
  BY <1>1, <1>3, <1>4, <1>5, <1>7, FlattenedAppend DEF all
<1> QED
  BY <1>6, <1>7

(* The text of all entries begins with that of the first.                  *)
LEMMA TextOfHead ==
  ASSUME NEW es \in Seq(Entries), es # <<>>
  PROVE  /\ Head(es) \in Entries /\ Tail(es) \in Seq(Entries)
         /\ TextOf(es) = Head(es).text \o TextOf(Tail(es))
<1> DEFINE Good(s) == TextOf(s) = Head(s).text \o TextOf(Tail(s))
           bad == {n \in Nat : \E s \in Seq(Entries) : Len(s) = n /\ s # <<>> /\ ~Good(s)}
<1>1. bad = {}
  <2> SUFFICES ASSUME bad # {} PROVE FALSE
    OBVIOUS
  <2>1. PICK n \in bad : \A k \in bad : n <= k
    <3>1. bad \subseteq Nat
      OBVIOUS
    <3> HIDE DEF bad
    <3> QED
      BY <3>1, Smallest
  <2>2. PICK s \in Seq(Entries) : Len(s) = n /\ s # <<>> /\ ~Good(s)
    <3> HIDE DEF Good
    <3> QED
      BY <2>1
  <2>3. PICK r \in Seq(Entries), e \in Entries : s = Append(r, e)
    BY <2>2, SequenceEmptyOrAppend
  <2>4. Len(r) \in Nat /\ n = Len(r) + 1 /\ Len(r) \notin bad
    <3>1. Len(r) \in Nat /\ n = Len(r) + 1
      BY <2>2, <2>3, AppendProperties
    <3> HIDE DEF bad
    <3> QED
      BY <2>1, <3>1
  <2>5. r # <<>> => Good(r)
    <3> HIDE DEF Good
    <3> QED
      BY <2>4
  <2>6. TextOf(r) \in Text /\ TextOf(s) = TextOf(r) \o e.text /\ e.text \in Text
    BY <2>3, TextOfAppend DEF Entries, Filled
  <2>7. /\ Head(s) = IF r = <<>> THEN e ELSE Head(r)
        /\ Tail(s) = IF r = <<>> THEN <<>> ELSE Append(Tail(r), e)
    BY <2>3, HeadTailAppend
  <2>8. CASE r = <<>>
    <3>1. Head(s) = e /\ Tail(s) = <<>>
      BY <2>7, <2>8
    <3>2. TextOf(s) = <<>> \o e.text /\ TextOf(Tail(s)) = <<>>
      BY <2>6, <2>8, <3>1, TextOfNone
    <3>3. <<>> \o e.text = e.text /\ e.text \o <<>> = e.text
      BY <2>6, ConcatEmptySeq DEF Text
    <3> QED
      BY <2>2, <3>1, <3>2, <3>3
  <2>9. CASE r # <<>>
    <3>1. Head(r) \in Entries /\ Tail(r) \in Seq(Entries) /\ Head(r).text \in Text
      <4>1. Head(r) \in Entries /\ Tail(r) \in Seq(Entries)
        BY <2>9, HeadTailProperties
      <4> QED
        BY <4>1, EntryHasText
    <3>2. TextOf(Tail(r)) \in Text /\ TextOf(Append(Tail(r), e)) = TextOf(Tail(r)) \o e.text
      BY <3>1, TextOfAppend
    <3>3. TextOf(r) = Head(r).text \o TextOf(Tail(r))
      BY <2>5, <2>9
    <3>4. TextOf(s) = (Head(r).text \o TextOf(Tail(r))) \o e.text
      BY <2>6, <3>3
    <3>5. (Head(r).text \o TextOf(Tail(r))) \o e.text = Head(r).text \o (TextOf(Tail(r)) \o e.text)
      BY <2>6, <3>1, <3>2, Associative
    <3>6. Head(s) = Head(r) /\ Tail(s) = Append(Tail(r), e)
      BY <2>7, <2>9
    <3> QED
      BY <2>2, <3>2, <3>4, <3>5, <3>6
  <2> QED
    BY <2>8, <2>9
<1>2. Len(es) \in Nat /\ Good(es)
  <2> HIDE DEF Good
  <2> QED
    BY <1>1
<1> QED
  BY <1>2, HeadTailProperties

-----------------------------------------------------------------------------
(* What an output holds: entries of what arrived, and the summary s of a   *)
(* failure, if there is one, behind them.                                  *)
Outputs == [entries : Seq(Entries), retained : Nat, truncated : BOOLEAN]
Ending(s) == IF s = <<>> THEN <<>> ELSE <<Entry("Summary", s)>>

Shape(o, body, s) ==
  /\ o \in Outputs /\ body \in Seq(Captured) /\ s \in Text
  /\ o.entries = body \o Ending(s)
  /\ o.retained = Size(TextOf(body)) + Size(s)

(* It is what is kept of st.                                               *)
Settled(o, st, s) ==
  \E body \in Seq(Captured) :
    /\ Shape(o, body, s)
    /\ ~o.truncated => TextOf(body) = st /\ Size(st) + Size(s) <= Limit
    /\ o.truncated => Size(st) + Size(s) > Limit /\ TextOf(body) = LongestTail(st, Budget - Size(s))

LEMMA CapturedAre ==
  /\ Captured \subseteq Entries /\ Seq(Captured) \subseteq Seq(Entries)
  /\ \A body \in Seq(Captured) : TextOf(body) \in Text
<1>1. Captured \subseteq Entries
  BY DEF Captured, Entries
<1>2. \A body \in Seq(Captured) : body \in Seq(Entries)
  BY <1>1, SeqMonotonic
<1>3. ASSUME NEW body \in Seq(Captured) PROVE TextOf(body) \in Text
  <2>1. CASE body = <<>>
    <3>1. <<>> \in Text
      BY DEF Text
    <3> QED
      BY <2>1, <3>1, TextOfNone
  <2>2. CASE body # <<>>
    <3>1. PICK es \in Seq(Entries), e \in Entries : body = Append(es, e)
      BY <1>2, <2>2, SequenceEmptyOrAppend
    <3>2. TextOf(es) \in Text /\ e.text \in Text /\ TextOf(body) = TextOf(es) \o e.text
      BY <3>1, TextOfAppend, EntryHasText
    <3> QED
      BY <3>2, SizeOfConcat
  <2> QED
    BY <2>1, <2>2
<1> QED
  BY <1>1, <1>2, <1>3

LEMMA EndingIs ==
  ASSUME NEW s \in Text
  PROVE  /\ Ending(s) \in Seq(Entries)
         /\ s = <<>> => Ending(s) = <<>>
         /\ s # <<>> => Ending(s) = <<Entry("Summary", s)>> /\ Entry("Summary", s) \in Entries
<1>1. s # <<>> => Entry("Summary", s) \in Entries
  BY DEF Entry, Entries, Filled
<1>2. s # <<>> => <<Entry("Summary", s)>> \in Seq(Entries)
  BY <1>1
<1>3. <<>> \in Seq(Entries)
  OBVIOUS
<1> QED
  BY <1>1, <1>2, <1>3, Zenon DEF Ending

LEMMA TextOfShape ==
  ASSUME NEW body \in Seq(Captured), NEW s \in Text
  PROVE  TextOf(body \o Ending(s)) = TextOf(body) \o s
<1>1. body \in Seq(Entries) /\ TextOf(body) \in Text
  BY CapturedAre
<1>2. CASE s = <<>>
  <2>1. body \o Ending(s) = body
    BY <1>1, <1>2, EndingIs, ConcatEmptySeq
  <2>2. TextOf(body) \o s = TextOf(body)
    BY <1>1, <1>2, ConcatEmptySeq DEF Text
  <2> QED
    BY <2>1, <2>2
<1>3. CASE s # <<>>
  <2> DEFINE e == Entry("Summary", s)
  <2>1. e \in Entries /\ Ending(s) = <<e>> /\ e.text = s
    BY <1>3, EndingIs DEF Entry
  <2> HIDE DEF e
  <2>2. body \o Ending(s) = Append(body, e)
    BY <1>1, <2>1, AppendIsConcat
  <2> QED
    BY <1>1, <2>1, <2>2, TextOfAppend
<1> QED
  BY <1>2, <1>3

(* No entry is empty: there is output if and only if there is text.        *)
LEMMA TextIsThere ==
  ASSUME NEW body \in Seq(Captured)
  PROVE  TextOf(body) = <<>> <=> body = <<>>
<1>1. CASE body # <<>>
  <2>1. body \in Seq(Entries)
    BY CapturedAre
  <2>2. PICK es \in Seq(Entries), e \in Entries : body = Append(es, e)
    BY <1>1, <2>1, SequenceEmptyOrAppend
  <2>3. TextOf(es) \in Text /\ e.text \in Text /\ e.text # <<>> /\ TextOf(body) = TextOf(es) \o e.text
    BY <2>2, TextOfAppend, EntryHasText
  <2>4. Len(TextOf(body)) = Len(TextOf(es)) + Len(e.text) /\ Len(TextOf(es)) \in Nat /\ Len(e.text) \in Nat
    BY <2>3, ConcatIs
  <2>5. Len(e.text) # 0
    BY <2>3 DEF Text
  <2>6. Len(TextOf(body)) # 0
    BY <2>4, <2>5
  <2> QED
    BY <1>1, <2>6
<1> QED
  BY <1>1, TextOfNone

LEMMA ConsIs ==
  ASSUME NEW e \in Entries, NEW es \in Seq(Entries)
  PROVE  /\ <<e>> \o es \in Seq(Entries) /\ <<e>> \o es # <<>>
         /\ Len(<<e>> \o es) = 1 + Len(es) /\ Head(<<e>> \o es) = e /\ Tail(<<e>> \o es) = es
         /\ \A i \in 1..(1 + Len(es)) : (<<e>> \o es)[i] = IF i = 1 THEN e ELSE es[i - 1]
<1> DEFINE all == <<e>> \o es
<1>1. /\ all \in Seq(Entries) /\ Len(all) = 1 + Len(es) /\ Len(es) \in Nat
      /\ \A i \in 1..(1 + Len(es)) : all[i] = IF i <= 1 THEN e ELSE es[i - 1]
  <2>1. <<e>> \in Seq(Entries) /\ Len(<<e>>) = 1 /\ <<e>>[1] = e
    OBVIOUS
  <2> DEFINE first == <<e>>
  <2> HIDE DEF first
  <2>2. first \o es \in Seq(Entries) /\ Len(first \o es) = Len(first) + Len(es)
        /\ \A i \in 1..(Len(first) + Len(es)) :
             (first \o es)[i] = IF i <= Len(first) THEN first[i] ELSE es[i - Len(first)]
    BY <2>1, ConcatProperties DEF first
  <2>3. Len(first) = 1 /\ first[1] = e /\ all = first \o es
    BY <2>1 DEF first
  <2> HIDE DEF all
  <2>4. \A i \in 1..(1 + Len(es)) : i <= 1 => i = 1
    OBVIOUS
  <2> QED
    BY <2>2, <2>3, <2>4
<1> HIDE DEF all
<1>2. all # <<>> /\ 1 \in 1..(1 + Len(es))
  BY <1>1
<1>3. Head(all) = e
  BY <1>1, <1>2
<1>4. /\ Tail(all) \in Seq(Entries) /\ Len(Tail(all)) = Len(es)
      /\ \A i \in 1..Len(es) : Tail(all)[i] = all[i + 1]
  BY <1>1, <1>2, HeadTailProperties
<1>5. \A i \in 1..Len(es) : Tail(all)[i] = es[i]
  <2>1. \A i \in 1..Len(es) : i + 1 \in 1..(1 + Len(es)) /\ ~(i + 1 <= 1) /\ (i + 1) - 1 = i
    BY <1>1
  <2> QED
    BY <1>1, <1>4, <2>1
<1>6. Tail(all) = es
  BY <1>4, <1>5, SeqEqual
<1>7. \A i \in 1..(1 + Len(es)) : all[i] = IF i = 1 THEN e ELSE es[i - 1]
  BY <1>1
<1> QED
  BY <1>1, <1>2, <1>3, <1>6, <1>7 DEF all

LEMMA TextOfCons ==
  ASSUME NEW e \in Entries, NEW es \in Seq(Entries)
  PROVE  TextOf(<<e>> \o es) = e.text \o TextOf(es)
<1> DEFINE all == <<e>> \o es
<1>1. all \in Seq(Entries) /\ all # <<>> /\ Head(all) = e /\ Tail(all) = es
  BY ConsIs
<1> HIDE DEF all
<1>2. TextOf(all) = Head(all).text \o TextOf(Tail(all))
  BY <1>1, TextOfHead
<1> QED
  BY <1>1, <1>2 DEF all

LEMMA ConsExcept ==
  ASSUME NEW e \in Entries, NEW es \in Seq(Entries), NEW x,
         [e EXCEPT !.text = x] \in Entries
  PROVE  [(<<e>> \o es) EXCEPT ![1].text = x] = <<[e EXCEPT !.text = x]>> \o es
<1> DEFINE f == [e EXCEPT !.text = x]
           a == <<e>> \o es
           c == <<f>> \o es
           g == [a EXCEPT ![1].text = x]
<1>1. /\ a \in Seq(Entries) /\ Len(a) = 1 + Len(es) /\ Len(es) \in Nat
      /\ \A i \in 1..(1 + Len(es)) : a[i] = IF i = 1 THEN e ELSE es[i - 1]
  BY ConsIs
<1>2. /\ c \in Seq(Entries) /\ Len(c) = 1 + Len(es)
      /\ \A i \in 1..(1 + Len(es)) : c[i] = IF i = 1 THEN f ELSE es[i - 1]
  BY ConsIs
<1> HIDE DEF a, c
<1>3. 1 \in 1..Len(a) /\ a[1] = e
  BY <1>1
<1>4. g = [a EXCEPT ![1] = f]
  BY <1>1, <1>3
<1>5. /\ [a EXCEPT ![1] = f] \in Seq(Entries) /\ Len([a EXCEPT ![1] = f]) = Len(a)
      /\ \A i \in 1..Len(a) : [a EXCEPT ![1] = f][i] = IF i = 1 THEN f ELSE a[i]
  BY <1>1, <1>3, ExceptSeq
<1>6. \A i \in 1..Len(a) : [a EXCEPT ![1] = f][i] = c[i]
  BY <1>1, <1>2, <1>5
<1>7. [a EXCEPT ![1] = f] = c
  BY <1>1, <1>2, <1>5, <1>6, SeqEqual
<1> QED
  BY <1>4, <1>7 DEF a, c

-----------------------------------------------------------------------------
(* A round of the loop drops nothing of the longest end that fits.         *)
LEMMA GiveWayKeeps ==
  ASSUME NEW b \in Nat, NEW o, NEW body, NEW s, Shape(o, body, s), Size(s) <= b
  PROVE  \E rest \in Seq(Captured) :
           /\ Shape(GiveWay(o, b), rest, s) /\ GiveWay(o, b).truncated = o.truncated
           /\ LongestTail(TextOf(rest), b - Size(s)) = LongestTail(TextOf(body), b - Size(s))
           /\ GiveWay(o, b).retained <= b \/ Len(rest) < Len(body)
<1> DEFINE y == TextOf(body)
           d == b - Size(s)
<1>1. /\ o \in Outputs /\ body \in Seq(Captured) /\ s \in Text
      /\ o.entries = body \o Ending(s) /\ o.retained = Size(y) + Size(s)
      /\ y \in Text /\ Size(y) \in Nat /\ Size(s) \in Nat /\ d \in Nat /\ Len(body) \in Nat
  <2>1. /\ o \in Outputs /\ body \in Seq(Captured) /\ s \in Text
        /\ o.entries = body \o Ending(s) /\ o.retained = Size(y) + Size(s)
    BY DEF Shape
  <2>2. y \in Text /\ Len(body) \in Nat
    BY <2>1, CapturedAre
  <2>3. Size(y) \in Nat /\ Size(s) \in Nat
    BY <2>1, <2>2, SizeIs
  <2> QED
    BY <2>1, <2>2, <2>3
<1>2. CASE o.retained <= b
  <2>1. GiveWay(o, b) = o
    BY <1>2 DEF GiveWay
  <2> QED
    BY <1>1, <1>2, <2>1
<1>3. CASE ~(o.retained <= b)
  <2>1. Size(y) > d /\ body # <<>>
    <3>1. Size(y) > d
      BY <1>1, <1>3
    <3>2. body = <<>> => Size(y) = 0
      BY TextOfNone, NoSize
    <3> QED
      BY <1>1, <3>1, <3>2
  <2> DEFINE e == Head(body)
             x == e.text
             rest == Tail(body)
             z == TextOf(rest)
             excess == o.retained - b
             k == CutAt(x, excess)
             r == GiveWay(o, b)
  <2>2. /\ e \in Captured /\ rest \in Seq(Captured) /\ Len(rest) = Len(body) - 1
        /\ body = <<e>> \o rest
    <3>1. /\ e \in Captured /\ rest \in Seq(Captured) /\ Len(rest) = Len(body) - 1
          /\ \A i \in 1..Len(rest) : rest[i] = body[i + 1]
      BY <1>1, <2>1, HeadTailProperties
    <3>2. Len(body) \in 1..Len(body) /\ 1 \in 1..Len(body)
      BY <1>1, <2>1
    <3>3. SubSeq(body, 1, Len(body)) = <<body[1]>> \o SubSeq(body, 1 + 1, Len(body))
      BY <1>1, <3>2, SubSeqRecursiveFirst
    <3>4. SubSeq(body, 1, Len(body)) = body /\ rest = SubSeq(body, 2, Len(body)) /\ e = body[1]
      BY <1>1, <2>1, SubSeqFull, TailIsSubSeq
    <3> QED
      BY <3>1, <3>3, <3>4
  <2>3. /\ e \in Entries /\ x \in Text /\ x # <<>> /\ z \in Text /\ y = x \o z
        /\ rest \in Seq(Entries) /\ body \in Seq(Entries) /\ e.kind \in {"Text", "Event"}
    <3>1. e \in Entries /\ rest \in Seq(Entries) /\ z \in Text /\ body \in Seq(Entries)
      BY <1>1, <2>2, CapturedAre
    <3>2. x \in Text /\ x # <<>>
      BY <3>1, EntryHasText
    <3>3. y = x \o z
      BY <2>1, <3>1, TextOfHead
    <3> QED
      BY <2>2, <3>1, <3>2, <3>3 DEF Captured
  <2>4. excess \in Nat /\ excess > 0 /\ excess = Size(y) - d
    BY <1>1, <1>3
  <2>5. /\ k \in 0..Len(x) /\ (k = Len(x) \/ Size(SubSeq(x, 1, k)) >= excess)
        /\ \A j \in 0..(k - 1) : Size(SubSeq(x, 1, j)) < excess
    <3> HIDE DEF x, excess
    <3> QED
      BY <2>3, <2>4, CutIs
  <2> HIDE DEF y, d, e, x, rest, z, excess, k
  <2>6. ASSUME NEW j \in 0..Len(x)
        PROVE  /\ j \in 0..Len(y) /\ From(y, j) = From(x, j) \o z /\ From(x, j) \in Text
               /\ Size(SubSeq(x, 1, j)) \in Nat /\ Size(From(y, j)) \in Nat
               /\ Size(From(y, j)) = Size(y) - Size(SubSeq(x, 1, j))
    <3>1. j \in 0..Len(y) /\ From(y, j) = From(x, j) \o z
      BY <2>3, FromConcat
    <3>2. /\ SubSeq(x, 1, j) \in Text /\ From(x, j) \in Text
          /\ Size(SubSeq(x, 1, j)) + Size(From(x, j)) = Size(x)
      BY <2>3, FromIs
    <3>3. Size(From(y, j)) = Size(From(x, j)) + Size(z) /\ Size(y) = Size(x) + Size(z)
      BY <2>3, <3>1, <3>2, SizeOfConcat
    <3>4. /\ Size(SubSeq(x, 1, j)) \in Nat /\ Size(From(x, j)) \in Nat /\ Size(z) \in Nat
          /\ Size(x) \in Nat
      BY <2>3, <3>2, SizeIs
    <3> QED
      BY <3>1, <3>2, <3>3, <3>4
  <2>7. LongestTail(From(y, k), d) = LongestTail(y, d)
    <3>1. ASSUME NEW j \in 0..(k - 1) PROVE Size(From(y, j)) > d
      <4>1. j \in 0..Len(x) /\ Size(SubSeq(x, 1, j)) < excess
        BY <2>3, <2>5 DEF Text
      <4>2. Size(SubSeq(x, 1, j)) \in Nat /\ Size(From(y, j)) = Size(y) - Size(SubSeq(x, 1, j))
        BY <2>6, <4>1
      <4> QED
        BY <1>1, <2>4, <4>1, <4>2
    <3>2. k \in 0..Len(y)
      BY <2>5, <2>6
    <3> QED
      BY <1>1, <3>1, <3>2, TailOfTail
  <2>8. /\ o.entries = <<e>> \o (rest \o Ending(s)) /\ rest \o Ending(s) \in Seq(Entries)
        /\ Head(o.entries) = e /\ Tail(o.entries) = rest \o Ending(s) /\ o.entries # <<>>
        /\ Ending(s) \in Seq(Entries) /\ Len(o.entries) = 1 + Len(rest \o Ending(s))
    <3>1. Ending(s) \in Seq(Entries)
      BY <1>1, EndingIs
    <3>2. <<e>> \in Seq(Entries)
      BY <2>3
    <3>3. (<<e>> \o rest) \o Ending(s) = <<e>> \o (rest \o Ending(s))
      BY <2>3, <3>1, <3>2, ConcatAssociative
    <3>4. rest \o Ending(s) \in Seq(Entries)
      BY <2>3, <3>1, ConcatProperties
    <3>5. o.entries = <<e>> \o (rest \o Ending(s))
      BY <1>1, <2>2, <3>3
    <3> DEFINE all == rest \o Ending(s)
    <3> HIDE DEF all
    <3>6. Head(<<e>> \o all) = e /\ Tail(<<e>> \o all) = all /\ <<e>> \o all # <<>>
          /\ Len(<<e>> \o all) = 1 + Len(all)
      BY <2>3, <3>4, ConsIs DEF all
    <3> QED
      BY <3>1, <3>4, <3>5, <3>6 DEF all
  <2>9. CASE k = Len(x)
    <3>1. r = [o EXCEPT !.retained = o.retained - Size(SubSeq(x, 1, k)), !.entries = Tail(o.entries)]
      BY <1>3, <2>8, <2>9 DEF GiveWay, k, x, excess
    <3>2. r.entries = rest \o Ending(s) /\ r.truncated = o.truncated
          /\ r.retained = o.retained - Size(SubSeq(x, 1, k))
      BY <1>1, <2>8, <3>1 DEF Outputs
    <3>3. From(y, k) = z
      <4>1. From(y, k) = From(x, Len(x)) \o z
        BY <2>5, <2>6, <2>9
      <4> QED
        BY <2>3, <4>1, FromEnds, ConcatEmptySeq DEF Text
    <3>4. r.retained = Size(z) + Size(s) /\ r.retained \in Nat
      <4>1. Size(z) = Size(y) - Size(SubSeq(x, 1, k)) /\ Size(z) \in Nat
            /\ Size(SubSeq(x, 1, k)) \in Nat
        BY <2>5, <2>6, <3>3
      <4> QED
        BY <1>1, <3>2, <4>1
    <3>5. r \in Outputs
      <4>1. r = [entries |-> r.entries, retained |-> r.retained, truncated |-> r.truncated]
        BY <1>1, <3>1 DEF Outputs
      <4>2. r.entries \in Seq(Entries) /\ r.truncated \in BOOLEAN
        BY <1>1, <2>8, <3>2 DEF Outputs
      <4> HIDE DEF r
      <4> QED
        BY <3>4, <4>1, <4>2, Zenon DEF Outputs
    <3> HIDE DEF r
    <3>6. Shape(r, rest, s)
      BY <1>1, <2>2, <3>2, <3>4, <3>5 DEF Shape, z
    <3>7. Len(rest) < Len(body)
      BY <1>1, <2>2
    <3>8. LongestTail(z, d) = LongestTail(y, d)
      BY <2>7, <3>3
    <3> QED
      BY <2>2, <3>2, <3>6, <3>7, <3>8 DEF r, z, d, y
  <2>10. CASE k # Len(x)
    <3> DEFINE f == [e EXCEPT !.text = From(x, k)]
               left == <<f>> \o rest
    <3>1. From(x, k) \in Filled /\ k \in 0..Len(x)
      <4>1. From(x, k) \in Text /\ Len(From(x, k)) = Len(x) - k /\ Len(x) \in Nat
        BY <2>3, <2>5, FromIs DEF Text
      <4>2. Len(From(x, k)) > 0
        BY <2>5, <2>10, <4>1
      <4> QED
        BY <2>5, <4>1, <4>2 DEF Filled, Text
    <3>2. f \in Captured /\ f \in Entries /\ f.text = From(x, k)
      <4>1. f = [kind |-> e.kind, text |-> From(x, k)]
        BY <2>2 DEF Captured
      <4> HIDE DEF f
      <4> QED
        BY <2>3, <3>1, <4>1 DEF Captured, Entries
    <3> HIDE DEF f
    <3>3. left \in Seq(Captured)
      <4>1. <<f>> \in Seq(Captured)
        BY <3>2
      <4> QED
        BY <2>2, <4>1, ConcatProperties
    <3>4. TextOf(left) = From(y, k)
      <4>1. TextOf(left) = f.text \o TextOf(rest)
        BY <2>3, <3>2, TextOfCons
      <4> QED
        BY <2>6, <3>1, <3>2, <4>1 DEF z
    <3>5. r = [o EXCEPT !.retained = o.retained - Size(SubSeq(x, 1, k)),
                        !.entries = [o.entries EXCEPT ![1].text = From(x, k)]]
      BY <1>3, <2>8, <2>10 DEF GiveWay, k, x, excess
    <3>6. [o.entries EXCEPT ![1].text = From(x, k)] = left \o Ending(s)
      <4> DEFINE all == rest \o Ending(s)
      <4>1. left \o Ending(s) = <<f>> \o all
        <5>1. <<f>> \in Seq(Entries)
          BY <3>2
        <5>2. rest \in Seq(Entries) /\ Ending(s) \in Seq(Entries)
          BY <2>3, <2>8
        <5> QED
          BY <5>1, <5>2, ConcatAssociative
      <4> HIDE DEF all
      <4>2. [(<<e>> \o all) EXCEPT ![1].text = From(x, k)] = <<f>> \o all
        <5>1. e \in Entries /\ all \in Seq(Entries) /\ f \in Entries
          BY <2>3, <2>8, <3>2 DEF all
        <5> QED
          BY <5>1, ConsExcept DEF f
      <4> QED
        BY <2>8, <4>1, <4>2 DEF all
    <3> HIDE DEF left
    <3>7. r.entries = left \o Ending(s) /\ r.truncated = o.truncated
          /\ r.retained = o.retained - Size(SubSeq(x, 1, k))
      BY <1>1, <3>5, <3>6 DEF Outputs
    <3>8. r.retained = Size(From(y, k)) + Size(s) /\ r.retained \in Nat /\ r.retained <= b
      <4>1. /\ Size(From(y, k)) = Size(y) - Size(SubSeq(x, 1, k)) /\ Size(From(y, k)) \in Nat
            /\ Size(SubSeq(x, 1, k)) \in Nat /\ Size(SubSeq(x, 1, k)) >= excess
        BY <2>5, <2>6, <2>10, <3>1
      <4> QED
        BY <1>1, <3>7, <4>1 DEF excess
    <3>9. r \in Outputs
      <4>1. r = [entries |-> r.entries, retained |-> r.retained, truncated |-> r.truncated]
        BY <1>1, <3>5 DEF Outputs
      <4>2. left \o Ending(s) \in Seq(Entries)
        BY <2>8, <3>3, CapturedAre, ConcatProperties
      <4>3. r.entries \in Seq(Entries) /\ r.truncated \in BOOLEAN
        BY <1>1, <3>7, <4>2 DEF Outputs
      <4> HIDE DEF r
      <4> QED
        BY <3>8, <4>1, <4>3, Zenon DEF Outputs
    <3> HIDE DEF r
    <3>10. Shape(r, left, s)
      BY <1>1, <3>3, <3>4, <3>7, <3>8, <3>9 DEF Shape
    <3>11. LongestTail(TextOf(left), d) = LongestTail(y, d)
      BY <2>7, <3>4
    <3> QED
      BY <3>3, <3>7, <3>8, <3>10, <3>11 DEF r, d, y
  <2> QED
    BY <2>9, <2>10
<1> QED
  BY <1>2, <1>3

(* The loop ends with the longest end that fits.                           *)
LEMMA TrimmedKeeps ==
  ASSUME NEW b \in Nat, NEW o, NEW body, NEW s, Shape(o, body, s), Size(s) <= b
  PROVE  \E rest \in Seq(Captured) :
           /\ Shape(TrimmedTo(o, b), rest, s) /\ TrimmedTo(o, b).truncated = o.truncated
           /\ TextOf(rest) = LongestTail(TextOf(body), b - Size(s))
<1> DEFINE n == Len(o.entries) + 1
           d == b - Size(s)
           y == TextOf(body)
           Round(f, i) == IF i = 0 THEN o ELSE GiveWay(f[i - 1], b)
           Stage(f) == [i \in 0..n |-> Round(f, i)]
           Partial(m, g) == g = [i \in 0..m |-> Round(g, i)]
           after == CHOOSE f : f = Stage(f)
<1>0. /\ o.entries \in Seq(Entries) /\ Len(o.entries) \in Nat /\ n \in Nat
      /\ Len(body) \in Nat /\ Len(body) <= Len(o.entries) /\ s \in Text /\ body \in Seq(Captured)
      /\ y \in Text /\ d \in Nat /\ Size(s) \in Nat
  <2>1. /\ o.entries \in Seq(Entries) /\ s \in Text /\ body \in Seq(Captured)
        /\ o.entries = body \o Ending(s)
    BY DEF Shape, Outputs
  <2>2. body \in Seq(Entries) /\ Ending(s) \in Seq(Entries) /\ y \in Text
    BY <2>1, CapturedAre, EndingIs
  <2>3. Len(o.entries) = Len(body) + Len(Ending(s)) /\ Len(body) \in Nat /\ Len(Ending(s)) \in Nat
    BY <2>1, <2>2, ConcatProperties
  <2>4. Size(s) \in Nat
    BY <2>1, SizeIs
  <2> QED
    BY <2>1, <2>2, <2>3, <2>4
<1> HIDE DEF n
<1>1. \A m \in Nat : \E g : Partial(m, g)
  <2> DEFINE missing == {m \in Nat : ~\E g : Partial(m, g)}
  <2> SUFFICES ASSUME missing # {}
               PROVE  FALSE
    OBVIOUS
  <2>1. PICK m \in missing : \A k \in missing : m <= k
    <3>1. missing \subseteq Nat
      OBVIOUS
    <3> HIDE DEF missing
    <3> QED
      BY <3>1, Smallest
  <2>2. m # 0
    <3>1. [i \in 0..0 |-> o] = [i \in 0..0 |-> Round([i_2 \in 0..0 |-> o], i)]
      <4>1. \A i \in 0..0 : Round([i_2 \in 0..0 |-> o], i) = o
        OBVIOUS
      <4> HIDE DEF Round
      <4> QED
        BY <4>1
    <3>2. Partial(0, [i \in 0..0 |-> o])
      BY <3>1
    <3> HIDE DEF Partial
    <3> QED
      BY <2>1, <3>2
  <2>3. m \in Nat /\ m - 1 \in Nat /\ m - 1 \notin missing
    <3>1. m \in Nat /\ m - 1 \in Nat /\ ~(m <= m - 1)
      BY <2>1, <2>2
    <3> HIDE DEF missing
    <3> QED
      BY <2>1, <3>1
  <2>4. PICK g : Partial(m - 1, g)
    <3> HIDE DEF Partial
    <3> QED
      BY <2>3
  <2> DEFINE h == [i \in 0..m |-> IF i = m THEN Round(g, m) ELSE g[i]]
  <2>5. \A i \in 0..m : h[i] = Round(h, i)
    <3> SUFFICES ASSUME NEW i \in 0..m
                 PROVE  h[i] = Round(h, i)
      OBVIOUS
    <3>1. i # 0 => i - 1 \in 0..m /\ i - 1 # m /\ h[i - 1] = g[i - 1]
      BY <2>3
    <3>2. Round(h, i) = Round(g, i)
      BY <3>1
    <3>3. i # m => i \in 0..(m - 1) /\ g[i] = Round(g, i)
      <4>1. i # m => i \in 0..(m - 1)
        BY <2>3
      <4>2. \A l \in 0..(m - 1) : g[l] = Round(g, l)
        <5> HIDE DEF Round
        <5> QED
          BY <2>4
      <4> HIDE DEF Round
      <4> QED
        BY <4>1, <4>2
    <3> HIDE DEF Round
    <3> QED
      BY <3>2, <3>3
  <2>6. Partial(m, h)
    <3>1. h = [i \in 0..m |-> h[i]]
      OBVIOUS
    <3> HIDE DEF h, Round
    <3> QED
      BY <2>5, <3>1
  <2> QED
    BY <2>1, <2>6
<1>2. PICK g : Partial(n, g)
  <2> HIDE DEF Partial
  <2> QED
    BY <1>1, <1>0
<1>3. after = Stage(after)
  <2>1. g = Stage(g)
    BY <1>2
  <2> HIDE DEF Stage
  <2> QED
    BY <2>1
<1>4. TrimmedTo(o, b) = after[n]
  BY Zenon DEF TrimmedTo, n
<1> HIDE DEF after
<1>5. after[0] = o /\ \A i \in 1..n : after[i] = GiveWay(after[i - 1], b)
  <2>1. \A i \in 0..n : after[i] = IF i = 0 THEN o ELSE GiveWay(after[i - 1], b)
    BY <1>3
  <2>2. 0 \in 0..n /\ \A i \in 1..n : i \in 0..n /\ i # 0
    BY <1>0
  <2> QED
    BY <2>1, <2>2
<1> DEFINE Sound(i) == \E rest \in Seq(Captured) :
             /\ Shape(after[i], rest, s) /\ after[i].truncated = o.truncated
             /\ LongestTail(TextOf(rest), d) = LongestTail(y, d)
             /\ after[i].retained <= b \/ Len(rest) + i <= Len(body)
           unsound == {i \in 0..n : ~Sound(i)}
<1>6. unsound = {}
  <2> SUFFICES ASSUME unsound # {} PROVE FALSE
    OBVIOUS
  <2>1. PICK i \in unsound : \A k \in unsound : i <= k
    <3>1. unsound \subseteq Nat
      BY <1>0
    <3> HIDE DEF unsound
    <3> QED
      BY <3>1, Smallest
  <2>2. Sound(0)
    BY <1>0, <1>5
  <2>3. i \in 0..n /\ ~Sound(i)
    <3> HIDE DEF Sound
    <3> QED
      BY <2>1
  <2>4. i \in 1..n /\ i - 1 \in 0..n /\ i - 1 \notin unsound
    <3> HIDE DEF Sound
    <3>1. i # 0
      BY <2>2, <2>3
    <3>2. i \in 1..n /\ i - 1 \in 0..n /\ ~(i <= i - 1)
      BY <1>0, <2>3, <3>1
    <3> HIDE DEF unsound
    <3> QED
      BY <2>1, <3>2
  <2>5. Sound(i - 1)
    <3> HIDE DEF Sound
    <3> QED
      BY <2>4
  <2> DEFINE p == after[i - 1]
  <2>6. PICK rest \in Seq(Captured) :
             /\ Shape(p, rest, s) /\ p.truncated = o.truncated
             /\ LongestTail(TextOf(rest), d) = LongestTail(y, d)
             /\ p.retained <= b \/ Len(rest) + (i - 1) <= Len(body)
    BY <2>5
  <2>7. after[i] = GiveWay(p, b)
    BY <1>5, <2>4
  <2> HIDE DEF p
  <2>8. CASE p.retained <= b
    <3>1. after[i] = p
      BY <2>7, <2>8 DEF GiveWay
    <3> QED
      BY <2>3, <2>6, <2>8, <3>1
  <2>9. CASE ~(p.retained <= b)
    <3>1. PICK left \in Seq(Captured) :
           /\ Shape(GiveWay(p, b), left, s) /\ GiveWay(p, b).truncated = p.truncated
           /\ LongestTail(TextOf(left), d) = LongestTail(TextOf(rest), d)
           /\ GiveWay(p, b).retained <= b \/ Len(left) < Len(rest)
      BY <2>6, GiveWayKeeps
    <3>2. Len(left) \in Nat /\ Len(rest) \in Nat
      OBVIOUS
    <3>3. GiveWay(p, b).retained <= b \/ Len(left) + i <= Len(body)
      BY <1>0, <2>4, <2>6, <2>9, <3>1, <3>2
    <3> QED
      BY <2>3, <2>6, <2>7, <3>1, <3>3
  <2> QED
    BY <2>8, <2>9
<1>7. Sound(n)
  <2>1. n \in 0..n
    BY <1>0
  <2> HIDE DEF Sound
  <2> QED
    BY <1>6, <2>1
<1>8. PICK rest \in Seq(Captured) :
             /\ Shape(after[n], rest, s) /\ after[n].truncated = o.truncated
             /\ LongestTail(TextOf(rest), d) = LongestTail(y, d)
             /\ after[n].retained <= b \/ Len(rest) + n <= Len(body)
  BY <1>7
<1>9. after[n].retained <= b
  <2>1. Len(rest) \in Nat
    OBVIOUS
  <2> QED
    BY <1>0, <1>8, <2>1 DEF n
<1>10. TextOf(rest) = LongestTail(TextOf(rest), d)
  <2>1. TextOf(rest) \in Text
    BY CapturedAre
  <2>2. after[n].retained = Size(TextOf(rest)) + Size(s) /\ Size(TextOf(rest)) \in Nat
    BY <1>8, <2>1, SizeIs DEF Shape
  <2>3. Size(TextOf(rest)) <= d
    BY <1>0, <1>9, <2>2
  <2> HIDE DEF d
  <2> QED
    BY <1>0, <2>1, <2>3, TailFits
<1> QED
  BY <1>4, <1>8, <1>10

LEMMA OutputNumbers ==
  /\ Marker \in Text /\ Summary \in Text /\ Limit \in Nat /\ Budget \in Nat
  /\ Budget = Limit - Size(Marker) /\ Size(Marker) \in Nat /\ Size(Summary) \in Nat
  /\ Size(Summary) + 2 <= Budget /\ Size(Marker) < Limit
<1>1. Marker \in Text /\ Summary \in Text /\ Limit \in Nat
      /\ Size(Marker) + Size(Summary) + 2 <= Limit
  BY OutputAssumption DEF Text
<1>2. Size(Marker) \in Nat /\ Size(Summary) \in Nat
  BY <1>1, SizeIs
<1> QED
  BY <1>1, <1>2 DEF Budget

(* enforce_retention settles what has grown.                               *)
LEMMA EnforceSettles ==
  ASSUME NEW o, NEW body, NEW s, Shape(o, body, s), NEW st \in Text, Size(s) <= Budget,
         ~o.truncated => TextOf(body) = st,
         o.truncated => /\ Size(st) + Size(s) > Limit
                        /\ LongestTail(TextOf(body), Budget - Size(s)) = LongestTail(st, Budget - Size(s))
  PROVE  Settled(EnforceRetention(o), st, s)
<1>1. /\ body \in Seq(Captured) /\ o \in Outputs /\ s \in Text
      /\ o.retained = Size(TextOf(body)) + Size(s) /\ o.truncated \in BOOLEAN
  BY DEF Shape, Outputs
<1>2. CASE ~o.truncated /\ o.retained <= Limit
  <2>1. EnforceRetention(o) = o
    BY <1>2 DEF EnforceRetention
  <2>2. Size(st) + Size(s) <= Limit
    BY <1>1, <1>2
  <2> QED
    BY <1>1, <1>2, <2>1, <2>2 DEF Settled
<1>3. CASE ~(~o.truncated /\ o.retained <= Limit)
  <2> DEFINE p == [o EXCEPT !.truncated = TRUE]
  <2>1. EnforceRetention(o) = TrimmedTo(p, Budget)
    BY <1>3 DEF EnforceRetention
  <2>2. /\ p \in Outputs /\ p.truncated = TRUE
        /\ p.entries = o.entries /\ p.retained = o.retained
    BY <1>1 DEF Outputs
  <2> HIDE DEF p
  <2>3. Shape(p, body, s)
    BY <1>1, <2>2 DEF Shape
  <2>4. PICK rest \in Seq(Captured) :
           /\ Shape(TrimmedTo(p, Budget), rest, s) /\ TrimmedTo(p, Budget).truncated = p.truncated
           /\ TextOf(rest) = LongestTail(TextOf(body), Budget - Size(s))
    BY <2>3, TrimmedKeeps, OutputNumbers
  <2>5. Size(st) + Size(s) > Limit
    <3>1. Size(st) \in Nat /\ Size(s) \in Nat /\ Limit \in Nat
      BY <1>1, SizeIs, OutputNumbers
    <3> QED
      BY <1>1, <1>3, <3>1
  <2>6. LongestTail(TextOf(body), Budget - Size(s)) = LongestTail(st, Budget - Size(s))
    BY <1>1
  <2> QED
    BY <2>1, <2>2, <2>4, <2>5, <2>6 DEF Settled
<1> QED
  BY <1>2, <1>3

-----------------------------------------------------------------------------
(* The summary of a failure: an empty line first if there is output.       *)
Sep(st) == IF st # <<>> THEN <<Newline>> ELSE <<>>
Behind(st, failed) == IF failed THEN Sep(st) \o Append(Summary, Newline) ELSE <<>>
EndsLine(st) == st # <<>> => Last(st) = Newline

LEMMA OneCharacter ==
  <<Newline>> \in Text /\ Size(<<Newline>>) = 1 /\ <<Newline>> # <<>>
<1>1. Newline \in Characters /\ Newline \notin Wide
  BY OutputAssumption
<1>2. {i \in DOMAIN <<Newline>> : <<Newline>>[i] \in Wide} = {}
  BY <1>1
<1>3. Size(<<Newline>>) = 1
  BY <1>2, FS_EmptySet DEF Size
<1> QED
  BY <1>1, <1>3 DEF Text

LEMMA BehindIs ==
  ASSUME NEW st \in Text
  PROVE  /\ Behind(st, FALSE) = <<>> /\ <<>> \in Text
         /\ Behind(<<>>, TRUE) \in Text /\ Behind(<<>>, TRUE) # <<>>
         /\ Head(Behind(<<>>, TRUE)) # Newline
         /\ Size(Behind(<<>>, TRUE)) = Size(Summary) + 1
         /\ st # <<>> => /\ Behind(st, TRUE) = <<Newline>> \o Behind(<<>>, TRUE)
                         /\ Behind(st, TRUE) \in Text /\ Behind(st, TRUE) # <<>>
                         /\ Head(Behind(st, TRUE)) = Newline
                         /\ Size(Behind(st, TRUE)) = Size(Summary) + 2
<1> DEFINE u == Append(Summary, Newline)
<1>0. Summary \in Text /\ Newline \in Characters /\ Summary # <<>> /\ Head(Summary) # Newline
  BY OutputAssumption, OutputNumbers
<1>1. u = Summary \o <<Newline>> /\ u # <<>> /\ Head(u) = Head(Summary) /\ Size(Summary) \in Nat
  BY <1>0, AppendIsConcat, AppendProperties, HeadTailAppend, OutputNumbers DEF Text
<1>2. u \in Text /\ Size(u) = Size(Summary) + 1
  BY <1>0, <1>1, SizeOfConcat, OneCharacter
<1> HIDE DEF u
<1>3. <<>> \o u = u /\ <<>> \in Text
  BY <1>2, ConcatEmptySeq DEF Text
<1>4. Behind(<<>>, TRUE) = u /\ Behind(st, FALSE) = <<>>
  BY <1>3 DEF Behind, Sep, u
<1>5. ASSUME st # <<>>
      PROVE  /\ Behind(st, TRUE) = <<Newline>> \o u
             /\ <<Newline>> \o u \in Text /\ <<Newline>> \o u # <<>>
             /\ Head(<<Newline>> \o u) = Newline
             /\ Size(<<Newline>> \o u) = Size(Summary) + 2
  <2>1. Behind(st, TRUE) = <<Newline>> \o u
    BY <1>5 DEF Behind, Sep, u
  <2>2. <<Newline>> \o u \in Text /\ Size(<<Newline>> \o u) = Size(<<Newline>>) + Size(u)
    BY <1>2, OneCharacter, SizeOfConcat
  <2>3. Size(<<Newline>> \o u) = Size(Summary) + 2
    BY <1>1, <1>2, <2>2, OneCharacter
  <2>4. <<Newline>> \o u # <<>> /\ Head(<<Newline>> \o u) = Newline
    <3> DEFINE p == <<Newline>>
    <3>1. p \in Text /\ Len(p) = 1 /\ p[1] = Newline
      BY OneCharacter
    <3> HIDE DEF p
    <3>2. /\ Len(p \o u) = Len(p) + Len(u) /\ Len(u) \in Nat
          /\ \A i \in 1..(Len(p) + Len(u)) : (p \o u)[i] = IF i <= Len(p) THEN p[i] ELSE u[i - Len(p)]
      BY <1>2, <3>1, ConcatIs
    <3>3. 1 \in 1..(Len(p) + Len(u)) /\ 1 <= Len(p)
      BY <3>1, <3>2
    <3>4. (p \o u)[1] = Newline /\ Len(p \o u) > 0 /\ p \o u \in Text
      BY <1>2, <3>1, <3>2, <3>3, SizeOfConcat
    <3> DEFINE c == p \o u
    <3> HIDE DEF c
    <3>5. c # <<>> /\ Head(c) = Newline
      BY <3>4 DEF c, Text
    <3> QED
      BY <3>5 DEF c, p
  <2> QED
    BY <2>1, <2>2, <2>3, <2>4
<1> QED
  BY <1>0, <1>1, <1>2, <1>3, <1>4, <1>5

LEMMA BehindFits ==
  ASSUME NEW st \in Text, NEW failed \in BOOLEAN
  PROVE  /\ Behind(st, failed) \in Text /\ Size(Behind(st, failed)) <= Budget
         /\ Size(Behind(st, failed)) \in Nat /\ Size(Behind(st, failed)) <= Limit
<1>1. Behind(st, failed) \in Text
  <2>1. CASE ~failed
    BY <2>1, BehindIs
  <2>2. CASE failed /\ st # <<>>
    BY <2>2, BehindIs
  <2>3. CASE failed /\ st = <<>>
    BY <2>3, BehindIs
  <2> QED
    BY <2>1, <2>2, <2>3
<1>2. Size(Behind(st, failed)) <= Budget
  <2>1. CASE ~failed
    <3>1. Behind(st, failed) = <<>>
      BY <2>1, BehindIs
    <3>2. Size(Behind(st, failed)) = 0
      BY <3>1, NoSize
    <3> QED
      BY <3>2, OutputNumbers
  <2>2. CASE failed /\ st # <<>>
    BY <2>2, BehindIs, OutputNumbers
  <2>3. CASE failed /\ st = <<>>
    <3>1. Size(Behind(st, failed)) = Size(Summary) + 1
      BY <2>3, BehindIs
    <3> QED
      BY <3>1, OutputNumbers
  <2> QED
    BY <2>1, <2>2, <2>3
<1>3. Size(Behind(st, failed)) \in Nat
  BY <1>1, SizeIs
<1> QED
  BY <1>1, <1>2, <1>3, OutputNumbers

Unmarked(o) == [o EXCEPT !.truncated = FALSE]

(* What is shown is what is kept.                                          *)
LEMMA ShowsKept ==
  ASSUME NEW o, NEW st \in Text, NEW s \in Text, Size(s) <= Budget, Settled(o, st, s)
  PROVE  /\ StreamText(o) = Kept(st \o s)
         /\ o.retained = Size(StreamText(Unmarked(o)))
<1>1. PICK body \in Seq(Captured) :
        /\ Shape(o, body, s)
        /\ ~o.truncated => TextOf(body) = st /\ Size(st) + Size(s) <= Limit
        /\ o.truncated => Size(st) + Size(s) > Limit /\ TextOf(body) = LongestTail(st, Budget - Size(s))
  BY DEF Settled
<1>2. /\ o \in Outputs /\ TextOf(o.entries) = TextOf(body) \o s /\ TextOf(body) \in Text
      /\ o.retained = Size(TextOf(body)) + Size(s) /\ o.truncated \in BOOLEAN
  BY <1>1, TextOfShape, CapturedAre DEF Shape, Outputs
<1>3. Size(st \o s) = Size(st) + Size(s) /\ st \o s \in Text /\ Size(st \o s) \in Nat
  BY SizeOfConcat, SizeIs
<1>4. o.retained = Size(StreamText(Unmarked(o)))
  <2> DEFINE p == Unmarked(o)
  <2>1. p.truncated = FALSE /\ p.entries = o.entries
    BY <1>2 DEF Outputs, Unmarked
  <2> HIDE DEF p
  <2>2. StreamText(p) = <<>> \o (TextOf(body) \o s)
    BY <1>2, <2>1 DEF StreamText
  <2>3. TextOf(body) \o s \in Text /\ Size(TextOf(body) \o s) = Size(TextOf(body)) + Size(s)
    BY <1>2, SizeOfConcat
  <2>4. <<>> \o (TextOf(body) \o s) = TextOf(body) \o s
    BY <2>3, ConcatEmptySeq DEF Text
  <2> QED
    BY <1>2, <2>2, <2>3, <2>4 DEF p
<1>5. CASE ~o.truncated
  <2>1. StreamText(o) = <<>> \o (st \o s)
    BY <1>1, <1>2, <1>5 DEF StreamText
  <2>2. <<>> \o (st \o s) = st \o s
    BY <1>3, ConcatEmptySeq DEF Text
  <2>3. Kept(st \o s) = st \o s
    BY <1>1, <1>3, <1>5 DEF Kept
  <2> QED
    BY <1>4, <2>1, <2>2, <2>3
<1>6. CASE o.truncated
  <2>1. StreamText(o) = Marker \o (LongestTail(st, Budget - Size(s)) \o s)
    BY <1>1, <1>2, <1>6 DEF StreamText
  <2>2. LongestTail(st \o s, Budget) = LongestTail(st, Budget - Size(s)) \o s
    BY TailBeside, OutputNumbers
  <2>3. Kept(st \o s) = Marker \o LongestTail(st \o s, Budget)
    <3>1. ~(Size(st \o s) <= Limit)
      BY <1>1, <1>3, <1>6, OutputNumbers
    <3> QED
      BY <3>1 DEF Kept
  <2> QED
    BY <1>4, <2>1, <2>2, <2>3
<1> QED
  BY <1>5, <1>6

-----------------------------------------------------------------------------
(* Where what arrives is put.                                              *)
LEMMA ShapeIndex ==
  ASSUME NEW o, NEW body, NEW s, Shape(o, body, s)
  PROVE  /\ body \in Seq(Entries) /\ Len(body) \in Nat /\ o.entries \in Seq(Entries)
         /\ Len(o.entries) = Len(body) + (IF s = <<>> THEN 0 ELSE 1)
         /\ EndsWithSummary(o) <=> s # <<>>
         /\ StreamInsertIndex(o) = Len(body)
         /\ \A i \in 1..Len(body) : o.entries[i] = body[i]
         /\ s # <<>> => o.entries[Len(body) + 1] = Entry("Summary", s)
<1>1. /\ body \in Seq(Captured) /\ s \in Text /\ o.entries = body \o Ending(s)
      /\ o.entries \in Seq(Entries)
  BY DEF Shape, Outputs
<1>2. body \in Seq(Entries) /\ Len(body) \in Nat
  BY <1>1, CapturedAre
<1>3. /\ Ending(s) \in Seq(Entries) /\ (s = <<>> => Ending(s) = <<>>)
      /\ s # <<>> => Ending(s) = <<Entry("Summary", s)>>
  BY <1>1, EndingIs
<1>4. /\ Len(body \o Ending(s)) = Len(body) + Len(Ending(s))
      /\ \A i \in 1..(Len(body) + Len(Ending(s))) :
           (body \o Ending(s))[i] = IF i <= Len(body) THEN body[i] ELSE Ending(s)[i - Len(body)]
  BY <1>2, <1>3, ConcatProperties
<1>5. Len(Ending(s)) = IF s = <<>> THEN 0 ELSE 1
  BY <1>3
<1>6. Len(o.entries) = Len(body) + (IF s = <<>> THEN 0 ELSE 1)
  BY <1>1, <1>4, <1>5
<1>7. \A i \in 1..Len(body) : o.entries[i] = body[i]
  <2>1. Len(Ending(s)) \in Nat
    BY <1>5
  <2>2. \A i \in 1..Len(body) : i \in 1..(Len(body) + Len(Ending(s))) /\ i <= Len(body)
    BY <1>2, <2>1
  <2> QED
    BY <1>1, <1>4, <2>2
<1>8. ASSUME s # <<>> PROVE o.entries[Len(body) + 1] = Entry("Summary", s)
  <2>1. /\ Len(body) + 1 \in 1..(Len(body) + Len(Ending(s))) /\ ~(Len(body) + 1 <= Len(body))
        /\ (Len(body) + 1) - Len(body) = 1
    BY <1>2, <1>5, <1>8
  <2>2. o.entries[Len(body) + 1] = Ending(s)[1]
    BY <1>1, <1>4, <2>1
  <2> QED
    BY <1>3, <1>8, <2>2
<1>9. EndsWithSummary(o) <=> s # <<>>
  <2>1. CASE s # <<>>
    <3>1. Len(o.entries) = Len(body) + 1 /\ o.entries # <<>>
      BY <1>1, <1>2, <1>6, <2>1
    <3>2. Last(o.entries) = Entry("Summary", s)
      BY <1>8, <2>1, <3>1 DEF Last
    <3> QED
      BY <2>1, <3>1, <3>2 DEF EndsWithSummary, Entry
  <2>2. CASE s = <<>>
    <3>1. Len(o.entries) = Len(body)
      BY <1>2, <1>6, <2>2
    <3>2. o.entries # <<>> => Len(body) \in 1..Len(body)
      BY <1>1, <1>2, <3>1
    <3>3. o.entries # <<>> => Last(o.entries) \in Captured
      BY <1>1, <1>7, <3>1, <3>2 DEF Last
    <3>4. \A e \in Captured : e.kind # "Summary"
      BY DEF Captured
    <3> QED
      BY <2>2, <3>3, <3>4 DEF EndsWithSummary
  <2> QED
    BY <2>1, <2>2
<1>10. StreamInsertIndex(o) = Len(body)
  <2>1. StreamInsertIndex(o) = Len(o.entries) - (IF EndsWithSummary(o) THEN 1 ELSE 0)
    BY DEF StreamInsertIndex
  <2> QED
    BY <1>2, <1>6, <1>9, <2>1
<1> QED
  BY <1>1, <1>2, <1>6, <1>7, <1>8, <1>9, <1>10

(* The summary gets its empty line when the first output arrives.          *)
LEMMA ReadyForStream ==
  ASSUME NEW o, NEW st \in Text, NEW failed \in BOOLEAN, Settled(o, st, Behind(st, failed)),
         NEW x \in Text, x # <<>>
  PROVE  \E body \in Seq(Captured) :
           /\ Shape(ForStream(o), body, Behind(st \o x, failed))
           /\ ForStream(o).truncated = o.truncated
           /\ ~o.truncated => TextOf(body) = st
           /\ o.truncated =>
                /\ Behind(st \o x, failed) = Behind(st, failed)
                /\ Size(st) + Size(Behind(st, failed)) > Limit
                /\ TextOf(body) = LongestTail(st, Budget - Size(Behind(st, failed)))
<1> DEFINE s == Behind(st, failed)
<1>1. PICK body \in Seq(Captured) :
        /\ Shape(o, body, s)
        /\ ~o.truncated => TextOf(body) = st /\ Size(st) + Size(s) <= Limit
        /\ o.truncated => Size(st) + Size(s) > Limit /\ TextOf(body) = LongestTail(st, Budget - Size(s))
  BY DEF Settled
<1>2. st \o x \in Text /\ st \o x # <<>>
  <2>1. Len(st \o x) = Len(st) + Len(x) /\ Len(st) \in Nat /\ Len(x) \in Nat
    BY ConcatIs
  <2>2. Len(x) # 0
    BY DEF Text
  <2>3. Len(st \o x) # 0 /\ st \o x \in Text
    BY <2>1, <2>2, SizeOfConcat
  <2> QED
    BY <2>3
<1>3. s \in Text /\ Size(s) <= Limit
  BY BehindFits
<1>4. CASE ~failed \/ st # <<>>
  <2>1. Behind(st \o x, failed) = s
    BY <1>2, <1>4 DEF Behind, Sep
  <2>2. ForStream(o) = o
    <3>1. CASE s = <<>>
      BY <1>1, <3>1, ShapeIndex DEF ForStream
    <3>2. CASE s # <<>>
      <4>1. failed /\ st # <<>>
        BY <1>4, <3>2 DEF Behind
      <4>2. Head(s) = Newline
        BY <4>1, BehindIs
      <4>3. Len(o.entries) = 1 => o.entries[1] = Entry("Summary", s)
        <5>1. Len(body) \in Nat /\ Len(o.entries) = Len(body) + 1
              /\ o.entries[Len(body) + 1] = Entry("Summary", s)
          BY <1>1, <3>2, ShapeIndex
        <5> HIDE DEF s
        <5>2. Len(o.entries) = 1 => Len(body) + 1 = 1
          BY <5>1
        <5> QED
          BY <5>1, <5>2
      <4> HIDE DEF s
      <4>4. Len(o.entries) = 1 => Head(o.entries[1].text) = Newline
        BY <4>2, <4>3 DEF Entry
      <4> QED
        BY <4>4 DEF ForStream
    <3> QED
      BY <3>1, <3>2
  <2> QED
    BY <1>1, <2>1, <2>2
<1>5. CASE failed /\ st = <<>>
  <2>1. /\ s = Behind(<<>>, TRUE) /\ s # <<>> /\ Head(s) # Newline
        /\ Behind(st \o x, failed) = <<Newline>> \o s
        /\ Behind(st \o x, failed) \in Text /\ Behind(st \o x, failed) # <<>>
        /\ Size(Behind(st \o x, failed)) = Size(s) + 1 /\ Size(s) \in Nat
    <3> DEFINE t == Behind(st \o x, failed)
    <3>1. s = Behind(<<>>, TRUE) /\ t = Behind(st \o x, TRUE)
      BY <1>5, Zenon
    <3>2. /\ Behind(st \o x, TRUE) = <<Newline>> \o Behind(<<>>, TRUE)
          /\ Behind(st \o x, TRUE) \in Text /\ Behind(st \o x, TRUE) # <<>>
          /\ Size(Behind(st \o x, TRUE)) = Size(Summary) + 2
      BY <1>2, BehindIs
    <3>3. /\ Behind(<<>>, TRUE) # <<>> /\ Head(Behind(<<>>, TRUE)) # Newline
          /\ Size(Behind(<<>>, TRUE)) = Size(Summary) + 1
      BY <1>5, BehindIs
    <3> HIDE DEF s, t
    <3>4. t = <<Newline>> \o s /\ t \in Text /\ t # <<>>
      BY <3>1, <3>2, Zenon
    <3>5. Size(t) = Size(Summary) + 2 /\ Size(s) = Size(Summary) + 1
      BY <3>1, <3>2, <3>3, Zenon
    <3>6. Size(t) = Size(s) + 1 /\ Size(s) \in Nat
      BY <3>5, OutputNumbers
    <3> QED
      BY <3>1, <3>3, <3>4, <3>6, Zenon DEF t
  <2>2. ~o.truncated /\ TextOf(body) = <<>>
    <3>1. Size(st) = 0
      BY <1>5, NoSize
    <3>2. ~(Size(st) + Size(s) > Limit)
      <4> HIDE DEF s
      <4>1. Size(s) \in Nat
        BY <2>1
      <4>2. Size(s) <= Limit
        BY <1>3
      <4>3. Limit \in Nat
        BY OutputNumbers
      <4>4. ~(0 + Size(s) > Limit)
        BY <4>1, <4>2, <4>3
      <4> QED
        BY <3>1, <4>4
    <3> QED
      BY <1>1, <1>5, <3>2
  <2>3. body = <<>>
    BY <1>1, <2>2, TextIsThere
  <2> HIDE DEF s
  <2>4. o.entries = <<Entry("Summary", s)>> /\ o.retained = Size(s) /\ o \in Outputs
    <3>1. o.entries = body \o Ending(s) /\ o.retained = Size(TextOf(body)) + Size(s) /\ o \in Outputs
      BY <1>1 DEF Shape
    <3>2. Ending(s) = <<Entry("Summary", s)>> /\ Ending(s) \in Seq(Entries)
      BY <1>3, <2>1, EndingIs
    <3>3. <<>> \o Ending(s) = Ending(s)
      BY <3>2, ConcatEmptySeq
    <3>4. Size(TextOf(body)) = 0
      BY <2>2, NoSize, Zenon
    <3>5. Size(s) \in Nat
      BY <2>1
    <3>6. 0 + Size(s) = Size(s)
      BY <3>5
    <3> QED
      BY <2>3, <3>1, <3>2, <3>3, <3>4, <3>6, Zenon
  <2> DEFINE r == ForStream(o)
             new == <<Newline>> \o s
  <2>5. EndsWithSummary(o)
    BY <1>1, <2>1, ShapeIndex
  <2>6. r = [o EXCEPT !.entries = [o.entries EXCEPT ![1].text = new], !.retained = o.retained + 1]
    <3>1. Len(o.entries) = 1 /\ o.entries[1].text = s
      BY <2>4 DEF Entry
    <3> QED
      BY <2>1, <2>4, <2>5, <3>1 DEF ForStream, Outputs
  <2>7. [o.entries EXCEPT ![1].text = new] = <<Entry("Summary", new)>>
    <3> DEFINE e == Entry("Summary", s)
               es == <<e>>
    <3>1. Len(es) = 1 /\ es[1] = e /\ DOMAIN es = 1..1 /\ es = [i \in 1..1 |-> e]
      OBVIOUS
    <3> HIDE DEF new
    <3>2. [e EXCEPT !.text = new] = Entry("Summary", new)
      BY DEF Entry
    <3> HIDE DEF e, es
    <3>3. [es EXCEPT ![1].text = new] = [i \in 1..1 |-> Entry("Summary", new)]
      BY <3>1, <3>2
    <3>4. [i \in 1..1 |-> Entry("Summary", new)] = <<Entry("Summary", new)>>
      OBVIOUS
    <3> QED
      BY <2>4, <3>3, <3>4 DEF e, es
  <2> HIDE DEF new
  <2>8. r.entries = <<Entry("Summary", new)>> /\ r.retained = Size(s) + 1 /\ r.truncated = o.truncated
        /\ r = [entries |-> r.entries, retained |-> r.retained, truncated |-> r.truncated]
    BY <2>4, <2>6, <2>7 DEF Outputs
  <2>9. Behind(st \o x, failed) = new /\ new \in Text /\ new # <<>> /\ Size(new) = Size(s) + 1
    BY <2>1 DEF new
  <2>10. Ending(new) = <<Entry("Summary", new)>> /\ Ending(new) \in Seq(Entries)
    BY <2>9, EndingIs
  <2> HIDE DEF r
  <2>11. r \in Outputs
    <3>1. r.entries \in Seq(Entries) /\ r.retained \in Nat
      <4>1. r.entries \in Seq(Entries)
        BY <2>8, <2>10, Zenon
      <4>2. Size(s) \in Nat /\ r.retained = Size(s) + 1
        BY <2>1, <2>8, Zenon
      <4> QED
        BY <4>1, <4>2
    <3>2. r.truncated \in BOOLEAN
      BY <2>4, <2>8 DEF Outputs
    <3> QED
      BY <2>8, <3>1, <3>2, Zenon DEF Outputs
  <2>12. Shape(r, <<>>, new)
    <3>1. r.entries = <<>> \o Ending(new)
      BY <2>8, <2>10, ConcatEmptySeq
    <3>2. r.retained = Size(TextOf(<<>>)) + Size(new)
      <4>1. Size(TextOf(<<>>)) = 0
        BY TextOfNone, NoSize
      <4> QED
        <5>1. Size(s) \in Nat /\ r.retained = Size(s) + 1 /\ Size(new) = Size(s) + 1
          BY <2>1, <2>8, <2>9, Zenon
        <5> QED
          BY <4>1, <5>1
    <3>3. <<>> \in Seq(Captured)
      OBVIOUS
    <3> QED
      BY <2>9, <2>11, <3>1, <3>2, <3>3 DEF Shape
  <2>13. <<>> \in Seq(Captured) /\ TextOf(<<>>) = st
    BY <1>5, TextOfNone
  <2> QED
    BY <2>2, <2>8, <2>9, <2>12, <2>13 DEF r
<1> QED
  BY <1>4, <1>5

(* An output with other entries, and their bytes.                          *)
With(o, es, k) == [o EXCEPT !.entries = es, !.retained = k]

LEMMA MakesOutput ==
  ASSUME NEW o \in Outputs, NEW es \in Seq(Entries), NEW k \in Nat
  PROVE  /\ With(o, es, k) \in Outputs /\ With(o, es, k).entries = es
         /\ With(o, es, k).retained = k /\ With(o, es, k).truncated = o.truncated
<1>1. PICK r : r = [o EXCEPT !.entries = es, !.retained = k]
  OBVIOUS
<1>2. r = [entries |-> es, retained |-> k, truncated |-> o.truncated] /\ o.truncated \in BOOLEAN
  BY <1>1 DEF Outputs
<1>3. r \in Outputs
  BY <1>2, Zenon DEF Outputs
<1>4. With(o, es, k) = r
  BY <1>1 DEF With
<1> QED
  BY <1>2, <1>3, <1>4

(* What is put in goes behind what was captured, before the summary.       *)
LEMMA InsertedKeeps ==
  ASSUME NEW o, NEW body, NEW s, Shape(o, body, s), NEW e \in Captured
  PROVE  /\ Shape(Inserted(o, e), Append(body, e), s) /\ Inserted(o, e).truncated = o.truncated
         /\ Append(body, e) \in Seq(Captured)
         /\ TextOf(Append(body, e)) = TextOf(body) \o e.text
<1> DEFINE n == Len(body)
           es == o.entries
<1>1. /\ body \in Seq(Captured) /\ s \in Text /\ es = body \o Ending(s) /\ o \in Outputs
      /\ o.retained = Size(TextOf(body)) + Size(s) /\ o.retained \in Nat
  BY DEF Shape, Outputs
<1>2. /\ body \in Seq(Entries) /\ n \in Nat /\ es \in Seq(Entries)
      /\ Len(es) = n + (IF s = <<>> THEN 0 ELSE 1) /\ StreamInsertIndex(o) = n
      /\ \A i \in 1..n : es[i] = body[i]
      /\ s # <<>> => es[n + 1] = Entry("Summary", s)
  BY ShapeIndex
<1>3. /\ Ending(s) \in Seq(Entries) /\ (s = <<>> => Ending(s) = <<>>)
      /\ s # <<>> => Ending(s) = <<Entry("Summary", s)>>
  BY <1>1, EndingIs
<1>4. e \in Entries /\ e.text \in Text /\ TextOf(body) \in Text
  BY <1>1, CapturedAre, EntryHasText
<1>5. SubSeq(es, 1, n) = body
  <2>1. SubSeq(es, 1, n) = [i \in 1..n |-> es[i]]
    BY <1>2
  <2>2. body = [i \in 1..n |-> body[i]]
    BY <1>2
  <2> HIDE DEF n, es
  <2> QED
    BY <1>2, <2>1, <2>2
<1>6. SubSeq(es, n + 1, Len(es)) = Ending(s)
  <2>1. CASE s = <<>>
    <3>1. Len(es) = n
      BY <1>2, <2>1
    <3>2. SubSeq(es, n + 1, n) = <<>>
      BY <1>2, SubSeqEmpty
    <3> QED
      BY <1>3, <2>1, <3>1, <3>2
  <2>2. CASE s # <<>>
    <3>1. Len(es) = n + 1
      BY <1>2, <2>2
    <3>2. SubSeq(es, n + 1, n + 1) = [i \in 1..1 |-> es[n + 1]]
      BY <1>2
    <3>3. \A x : [i \in 1..1 |-> x] = <<x>>
      OBVIOUS
    <3> QED
      BY <1>2, <1>3, <2>2, <3>1, <3>2, <3>3
  <2> QED
    BY <2>1, <2>2
<1>7. Append(body, e) \in Seq(Captured) /\ Append(body, e) = body \o <<e>>
  BY <1>1, AppendProperties, AppendIsConcat
<1>8. InsertAt(es, n + 1, e) = Append(body, e) \o Ending(s)
  <2>1. (n + 1) - 1 = n
    BY <1>2
  <2>2. InsertAt(es, n + 1, e) = (SubSeq(es, 1, (n + 1) - 1) \o <<e>>) \o SubSeq(es, n + 1, Len(es))
    BY Zenon DEF InsertAt
  <2> HIDE DEF n, es
  <2> QED
    BY <1>5, <1>6, <1>7, <2>1, <2>2
<1>9. TextOf(Append(body, e)) = TextOf(body) \o e.text
  BY <1>2, <1>4, TextOfAppend
<1>10. /\ Size(TextOf(body) \o e.text) = Size(TextOf(body)) + Size(e.text)
       /\ Size(e.text) \in Nat /\ Size(TextOf(body)) \in Nat /\ Size(s) \in Nat
  BY <1>1, <1>4, SizeOfConcat, SizeIs
<1> DEFINE r == Inserted(o, e)
           new == Append(body, e) \o Ending(s)
           k == o.retained + Size(e.text)
<1>11. r = [o EXCEPT !.entries = new, !.retained = k]
  BY <1>2, <1>8 DEF Inserted
<1>12. new \in Seq(Entries) /\ k \in Nat
  <2>1. Append(body, e) \in Seq(Entries)
    BY <1>7, CapturedAre
  <2> QED
    BY <1>1, <1>3, <1>10, <2>1, ConcatProperties
<1> HIDE DEF r, new, k
<1>13. r \in Outputs /\ r.entries = new /\ r.retained = k /\ r.truncated = o.truncated
  <2>1. o \in Outputs /\ new \in Seq(Entries) /\ k \in Nat
    BY <1>1, <1>12
  <2>2. r = With(o, new, k)
    BY <1>11 DEF With
  <2> QED
    BY <2>1, <2>2, MakesOutput
<1>14. k = Size(TextOf(Append(body, e))) + Size(s)
  <2>1. Size(TextOf(Append(body, e))) = Size(TextOf(body)) + Size(e.text)
    BY <1>9, <1>10, Zenon
  <2> QED
    BY <1>1, <1>10, <2>1 DEF k
<1>15. Shape(r, Append(body, e), s)
  BY <1>1, <1>7, <1>13, <1>14, Zenon DEF Shape, new
<1> QED
  BY <1>7, <1>9, <1>13, <1>15 DEF r

(* An output has grown by x, before its summary.                           *)
Grown(q, o, body, s, x) ==
  \E more \in Seq(Captured) :
    Shape(q, more, s) /\ q.truncated = o.truncated /\ TextOf(more) = TextOf(body) \o x

Joined(o, at, x) == [o EXCEPT !.entries[at].text = @ \o x, !.retained = @ + Size(x)]

(* What is joined goes there too.                                          *)
LEMMA JoinedKeeps ==
  ASSUME NEW o, NEW body, NEW s, Shape(o, body, s), body # <<>>, NEW x \in Text
  PROVE  Grown(Joined(o, Len(body), x), o, body, s, x)
<1>0. PICK r : r = [o EXCEPT !.entries[Len(body)].text = @ \o x, !.retained = @ + Size(x)]
  OBVIOUS
<1> DEFINE n == Len(body)
           es == o.entries
<1>1. /\ body \in Seq(Captured) /\ s \in Text /\ es = body \o Ending(s) /\ o \in Outputs
      /\ o.retained = Size(TextOf(body)) + Size(s) /\ o.retained \in Nat
  BY DEF Shape, Outputs
<1>2. /\ body \in Seq(Entries) /\ n \in Nat /\ es \in Seq(Entries)
      /\ Len(es) = n + (IF s = <<>> THEN 0 ELSE 1)
      /\ \A i \in 1..n : es[i] = body[i]
  BY ShapeIndex
<1>3. Ending(s) \in Seq(Entries)
  BY <1>1, EndingIs
<1>4. PICK front \in Seq(Captured), l \in Captured : body = Append(front, l)
  BY <1>1, SequenceEmptyOrAppend
<1>5. /\ front \in Seq(Entries) /\ l \in Entries /\ l.text \in Text /\ l.text # <<>>
      /\ TextOf(front) \in Text /\ TextOf(body) = TextOf(front) \o l.text
      /\ n = Len(front) + 1 /\ Len(front) \in Nat /\ body[n] = l
      /\ \A i \in 1..Len(front) : body[i] = front[i]
  <2>1. front \in Seq(Entries) /\ l \in Entries /\ TextOf(front) \in Text
    BY CapturedAre
  <2>2. l.text \in Text /\ l.text # <<>>
    BY <2>1, EntryHasText
  <2>3. /\ Len(body) = Len(front) + 1 /\ Len(front) \in Nat /\ body[Len(front) + 1] = l
        /\ \A i \in 1..Len(front) : body[i] = front[i]
    BY <1>4, <2>1, AppendProperties
  <2>4. TextOf(body) = TextOf(front) \o l.text
    BY <1>4, <2>1, TextOfAppend
  <2> QED
    BY <2>1, <2>2, <2>3, <2>4
<1> DEFINE m == [l EXCEPT !.text = l.text \o x]
           more == Append(front, m)
<1>6. m \in Captured /\ m \in Entries /\ m.text = l.text \o x
  <2>1. l.text \o x \in Filled
    <3>1. l.text \o x \in Text /\ Len(l.text \o x) = Len(l.text) + Len(x)
          /\ Len(l.text) \in Nat /\ Len(x) \in Nat
      BY <1>5, SizeOfConcat, ConcatIs
    <3>2. Len(l.text) # 0
      BY <1>5 DEF Text
    <3>3. Len(l.text \o x) # 0
      BY <3>1, <3>2
    <3> QED
      BY <3>1, <3>3 DEF Filled
  <2>2. \A w : [l EXCEPT !.text = w] = [kind |-> l.kind, text |-> w] /\ l.kind \in {"Text", "Event"}
    BY DEF Captured
  <2>3. m = [kind |-> l.kind, text |-> l.text \o x] /\ l.kind \in {"Text", "Event"}
    BY <2>2, Zenon
  <2> DEFINE w == l.text \o x
  <2> HIDE DEF m, w
  <2>4. m = [kind |-> l.kind, text |-> w] /\ w \in Filled
    BY <2>1, <2>3 DEF w
  <2>5. m.text = w
    BY <2>4
  <2>6. l.kind \in {"Text", "Event", "Summary"}
    BY <2>3
  <2>7. \A kind, text : kind \in {"Text", "Event"} /\ text \in Filled
                        => [kind |-> kind, text |-> text] \in Captured
    BY DEF Captured
  <2>8. m \in Captured
    BY <2>3, <2>4, <2>7, Zenon
  <2>9. m \in Entries
    BY <2>8, CapturedAre
  <2> QED
    BY <2>5, <2>8, <2>9 DEF w
<1> HIDE DEF m
<1>7. /\ more \in Seq(Captured) /\ more \in Seq(Entries) /\ Len(more) = n /\ more[n] = m
      /\ \A i \in 1..Len(front) : more[i] = front[i]
  <2>1. /\ more \in Seq(Captured) /\ Len(more) = Len(front) + 1 /\ more[Len(front) + 1] = m
        /\ \A i \in 1..Len(front) : more[i] = front[i]
    BY <1>6, AppendProperties
  <2> QED
    BY <1>5, <2>1, CapturedAre
<1>8. TextOf(more) = TextOf(body) \o x
  <2>1. TextOf(more) = TextOf(front) \o (l.text \o x)
    BY <1>5, <1>6, TextOfAppend
  <2>2. (TextOf(front) \o l.text) \o x = TextOf(front) \o (l.text \o x)
    BY <1>5, Associative
  <2> QED
    BY <1>5, <2>1, <2>2, Zenon
<1> HIDE DEF more
<1> DEFINE new == [es EXCEPT ![n] = m]
<1>9. n \in 1..Len(es) /\ es[n] = l
  <2>1. n \in 1..n
    BY <1>5
  <2> QED
    BY <1>2, <1>5, <2>1
<1>10. /\ new \in Seq(Entries) /\ Len(new) = Len(es)
       /\ \A i \in 1..Len(es) : new[i] = IF i = n THEN m ELSE es[i]
  BY <1>2, <1>6, <1>9, ExceptSeq
<1>11. new = more \o Ending(s)
  <2>1. /\ more \o Ending(s) \in Seq(Entries) /\ Len(more \o Ending(s)) = n + Len(Ending(s))
        /\ \A i \in 1..(n + Len(Ending(s))) :
             (more \o Ending(s))[i] = IF i <= n THEN more[i] ELSE Ending(s)[i - n]
        /\ Len(es) = n + Len(Ending(s))
        /\ \A i \in 1..(n + Len(Ending(s))) :
             es[i] = IF i <= n THEN body[i] ELSE Ending(s)[i - n]
    BY <1>1, <1>2, <1>3, <1>7, ConcatProperties
  <2> DEFINE all == more \o Ending(s)
             end == Ending(s)
  <2>2. ASSUME NEW i \in 1..Len(es) PROVE new[i] = all[i]
    <3>1. i \in 1..(n + Len(end))
      BY <2>1
    <3>2. CASE i = n
      <4>1. i <= n
        BY <1>2, <3>2
      <4>2. all[i] = m
        BY <1>7, <2>1, <3>1, <3>2, <4>1
      <4> QED
        BY <1>10, <3>2, <4>2
    <3>3. CASE i < n
      <4>1. i \in 1..Len(front) /\ i <= n /\ i # n
        BY <1>5, <3>3
      <4>2. all[i] = front[i]
        BY <1>7, <2>1, <3>1, <4>1
      <4>3. new[i] = es[i] /\ es[i] = front[i]
        <5>1. new[i] = es[i]
          BY <1>10, <4>1
        <5>2. es[i] = body[i]
          BY <2>1, <3>1, <4>1
        <5> QED
          BY <1>5, <4>1, <5>1, <5>2
      <4> QED
        BY <4>2, <4>3
    <3>4. CASE i > n
      <4>1. ~(i <= n) /\ i # n
        BY <1>2, <3>4
      <4>2. all[i] = end[i - n]
        BY <2>1, <3>1, <4>1
      <4>3. new[i] = es[i] /\ es[i] = end[i - n]
        BY <1>10, <2>1, <3>1, <4>1
      <4> QED
        BY <4>2, <4>3
    <3>5. i = n \/ i < n \/ i > n
      <4>1. i \in Int /\ n \in Int
        BY <1>2
      <4> HIDE DEF n
      <4> QED
        BY <4>1
    <3> QED
      BY <3>2, <3>3, <3>4, <3>5, Zenon
  <2> HIDE DEF all, new
  <2>3. all \in Seq(Entries) /\ Len(all) = Len(es) /\ new \in Seq(Entries) /\ Len(new) = Len(es)
    BY <1>10, <2>1 DEF all
  <2>4. new = all
    BY <2>2, <2>3, SeqEqual
  <2> QED
    BY <2>4 DEF all
<1> DEFINE k == o.retained + Size(x)
<1>12. r = [o EXCEPT !.entries = new, !.retained = k]
  <2>1. [es EXCEPT ![n].text = es[n].text \o x] = new
    BY <1>2, <1>9 DEF m
  <2> HIDE DEF new
  <2> QED
    BY <1>0, <1>1, <2>1 DEF Outputs
<1>13. /\ Size(TextOf(body) \o x) = Size(TextOf(body)) + Size(x) /\ TextOf(body) \in Text
       /\ Size(x) \in Nat /\ Size(TextOf(body)) \in Nat /\ Size(s) \in Nat
  <2>1. TextOf(body) \in Text
    BY <1>1, CapturedAre
  <2> QED
    BY <1>1, <2>1, SizeOfConcat, SizeIs
<1>14. k \in Nat
  BY <1>1, <1>13
<1> HIDE DEF new, k
<1>15. r \in Outputs /\ r.entries = new /\ r.retained = k /\ r.truncated = o.truncated
  <2>1. o \in Outputs /\ new \in Seq(Entries) /\ k \in Nat
    BY <1>1, <1>10, <1>14
  <2>2. r = With(o, new, k)
    BY <1>12 DEF With
  <2>3. /\ With(o, new, k) \in Outputs /\ With(o, new, k).entries = new
        /\ With(o, new, k).retained = k /\ With(o, new, k).truncated = o.truncated
    BY <2>1, MakesOutput
  <2> QED
    BY <2>2, <2>3, Zenon
<1>16. k = Size(TextOf(more)) + Size(s)
  <2>1. Size(TextOf(more)) = Size(TextOf(body)) + Size(x)
    BY <1>8, <1>13, Zenon
  <2> QED
    BY <1>1, <1>13, <2>1 DEF k
<1>17. Shape(r, more, s)
  BY <1>1, <1>7, <1>11, <1>15, <1>16, Zenon DEF Shape
<1>18. Joined(o, Len(body), x) = r
  BY <1>0 DEF Joined
<1> HIDE DEF n, es
<1> QED
  BY <1>7, <1>8, <1>15, <1>17, <1>18 DEF Grown

(* A chunk ends its line.                                                  *)
LEMMA StreamChunkIs ==
  ASSUME NEW x \in Text, x # <<>>
  PROVE  StreamChunk(x) \in Filled /\ Last(StreamChunk(x)) = Newline
<1>1. CASE Last(x) = Newline
  BY <1>1 DEF StreamChunk, Filled
<1>2. CASE Last(x) # Newline
  <2>1. StreamChunk(x) = Append(x, Newline) /\ Newline \in Characters
    BY <1>2, OutputAssumption DEF StreamChunk
  <2>2. /\ Append(x, Newline) \in Seq(Characters) /\ Len(Append(x, Newline)) = Len(x) + 1
        /\ Append(x, Newline)[Len(x) + 1] = Newline /\ Append(x, Newline) # <<>>
    BY <2>1, AppendProperties DEF Text
  <2> QED
    BY <2>1, <2>2 DEF Filled, Text, Last
<1> QED
  BY <1>1, <1>2

LEMMA SummaryChunk == StreamChunk(Summary) = Append(Summary, Newline)
BY OutputAssumption DEF StreamChunk

LEMMA LastOfConcat ==
  ASSUME NEW st \in Text, NEW x \in Filled
  PROVE  st \o x \in Filled /\ Last(st \o x) = Last(x)
<1>1. x \in Text /\ x # <<>>
  BY DEF Filled
<1>2. /\ Len(st \o x) = Len(st) + Len(x) /\ Len(st) \in Nat /\ Len(x) \in Nat /\ st \o x \in Text
      /\ \A i \in 1..(Len(st) + Len(x)) : (st \o x)[i] = IF i <= Len(st) THEN st[i] ELSE x[i - Len(st)]
  BY <1>1, ConcatIs, SizeOfConcat
<1>3. Len(x) # 0
  BY <1>1 DEF Text
<1>4. /\ Len(st) + Len(x) \in 1..(Len(st) + Len(x)) /\ ~(Len(st) + Len(x) <= Len(st))
      /\ (Len(st) + Len(x)) - Len(st) = Len(x)
  BY <1>2, <1>3
<1>5. (st \o x)[Len(st) + Len(x)] = x[Len(x)]
  BY <1>2, <1>4, Zenon
<1>6. Len(st \o x) # 0
  BY <1>2, <1>3
<1>7. st \o x # <<>>
  BY <1>2, <1>6 DEF Text
<1> QED
  BY <1>2, <1>5, <1>7 DEF Last, Filled

LEMMA ChunkFollows ==
  ASSUME NEW st \in Text, NEW x \in Text
  PROVE  x # <<>> => st \o StreamChunk(x) \in Text /\ EndsLine(st \o StreamChunk(x))
BY StreamChunkIs, LastOfConcat DEF EndsLine, Filled

(* What arrives is put behind what was captured: what follows is the same  *)
(* for a text that is joined and for one that is put in.                   *)
LEMMA GrownSettles ==
  ASSUME NEW st \in Text, NEW x \in Text, NEW s, NEW q, NEW grown, NEW body \in Seq(Captured),
         Shape(q, grown, s), Size(s) <= Budget, TextOf(grown) = TextOf(body) \o x,
         ~q.truncated => TextOf(body) = st,
         q.truncated => /\ Size(st) + Size(s) > Limit
                        /\ TextOf(body) = LongestTail(st, Budget - Size(s))
  PROVE  Settled(EnforceRetention(q), st \o x, s)
<1>1. s \in Text /\ Size(s) \in Nat /\ Budget \in Nat /\ Limit \in Nat
  BY SizeIs, OutputNumbers DEF Shape
<1>2. /\ st \o x \in Text /\ Size(st \o x) = Size(st) + Size(x)
      /\ Size(st) \in Nat /\ Size(x) \in Nat
  BY SizeOfConcat, SizeIs
<1>3. ASSUME q.truncated
      PROVE  /\ Size(st \o x) + Size(s) > Limit
             /\ LongestTail(TextOf(grown), Budget - Size(s)) = LongestTail(st \o x, Budget - Size(s))
  <2>1. Size(st) + Size(s) > Limit /\ TextOf(body) = LongestTail(st, Budget - Size(s))
    BY <1>3
  <2>2. Size(st \o x) + Size(s) > Limit
    BY <1>1, <1>2, <2>1
  <2>3. Budget - Size(s) \in Nat /\ Budget - Size(s) <= Budget - Size(s)
    BY <1>1
  <2>4. LongestTail(LongestTail(st, Budget - Size(s)) \o x, Budget - Size(s)) =
          LongestTail(st \o x, Budget - Size(s))
    BY <2>3, TailGrows
  <2> QED
    BY <2>1, <2>2, <2>4
<1> QED
  BY <1>2, <1>3, EnforceSettles

(* Output and events of a test that come at any time, before its failure   *)
(* or after, leave what is kept of all that came.                          *)
LEMMA ArrivesSettles ==
  ASSUME NEW o, NEW st \in Text, NEW failed \in BOOLEAN, Settled(o, st, Behind(st, failed)),
         NEW text \in Text, text # <<>>
  PROVE  LET all == st \o StreamChunk(text)
         IN /\ Settled(AppendText(o, text), all, Behind(all, failed))
            /\ Settled(AppendEvent(o, text), all, Behind(all, failed))
<1> DEFINE x == StreamChunk(text)
           s == Behind(st \o x, failed)
           r == ForStream(o)
<1>1. x \in Text /\ x # <<>> /\ x \in Filled
  BY StreamChunkIs DEF Filled
<1> HIDE DEF x
<1>2. PICK body \in Seq(Captured) :
           /\ Shape(r, body, s) /\ r.truncated = o.truncated
           /\ ~o.truncated => TextOf(body) = st
           /\ o.truncated =>
                /\ s = Behind(st, failed)
                /\ Size(st) + Size(Behind(st, failed)) > Limit
                /\ TextOf(body) = LongestTail(st, Budget - Size(Behind(st, failed)))
  <2>1. x \in Text /\ x # <<>>
    BY <1>1
  <2>2. \E body \in Seq(Captured) :
           /\ Shape(ForStream(o), body, Behind(st \o x, failed))
           /\ ForStream(o).truncated = o.truncated
           /\ ~o.truncated => TextOf(body) = st
           /\ o.truncated =>
                /\ Behind(st \o x, failed) = Behind(st, failed)
                /\ Size(st) + Size(Behind(st, failed)) > Limit
                /\ TextOf(body) = LongestTail(st, Budget - Size(Behind(st, failed)))
    BY <2>1, ReadyForStream
  <2> QED
    BY <2>2, Zenon
<1>3. st \o x \in Text /\ Size(s) <= Budget
  BY <1>1, SizeOfConcat, BehindFits
<1> HIDE DEF s, r
<1>4. /\ ~r.truncated => TextOf(body) = st
      /\ r.truncated => Size(st) + Size(s) > Limit /\ TextOf(body) = LongestTail(st, Budget - Size(s))
  BY <1>2
<1>5. ASSUME NEW q, NEW grown, Shape(q, grown, s), q.truncated = r.truncated,
             TextOf(grown) = TextOf(body) \o x
      PROVE  Settled(EnforceRetention(q), st \o x, s)
  BY <1>1, <1>3, <1>4, <1>5, GrownSettles
<1>6. ASSUME NEW kind \in {"Text", "Event"}
      PROVE  Settled(EnforceRetention(Inserted(r, Entry(kind, x))), st \o x, s)
  <2> DEFINE e == Entry(kind, x)
  <2>1. e \in Captured /\ e.text = x
    BY <1>1 DEF Captured, Entry
  <2> HIDE DEF e
  <2>2. /\ Shape(Inserted(r, e), Append(body, e), s) /\ Inserted(r, e).truncated = r.truncated
        /\ TextOf(Append(body, e)) = TextOf(body) \o e.text
    <3>1. Shape(r, body, s)
      BY <1>2
    <3> QED
      BY <2>1, <3>1, InsertedKeeps, Zenon
  <2>3. Settled(EnforceRetention(Inserted(r, e)), st \o x, s)
    BY <1>5, <2>1, <2>2
  <2> QED
    BY <2>3 DEF e
<1>7. AppendEvent(o, text) = EnforceRetention(Inserted(r, Entry("Event", x)))
  BY DEF AppendEvent, r, x
<1> DEFINE at == StreamInsertIndex(r)
           joined == Joined(r, at, x)
<1>8. AppendText(o, text) =
        EnforceRetention(IF at > 0 /\ r.entries[at].kind = "Text" THEN joined
                         ELSE Inserted(r, Entry("Text", x)))
  BY DEF AppendText, Joined, r, x
<1>9. at = Len(body) /\ Len(body) \in Nat
  BY <1>2, ShapeIndex
<1>10. CASE at > 0
  <2>1. body # <<>>
    BY <1>9, <1>10
  <2>2. Grown(joined, r, body, s, x)
    <3>1. Shape(r, body, s)
      BY <1>2
    <3>2. joined = Joined(r, Len(body), x)
      BY <1>9
    <3> HIDE DEF joined
    <3>3. x \in Text
      BY <1>1
    <3> QED
      BY <2>1, <3>1, <3>2, <3>3, JoinedKeeps
  <2> HIDE DEF joined
  <2>3. Settled(EnforceRetention(joined), st \o x, s)
    BY <1>5, <2>2 DEF Grown
  <2> HIDE DEF at
  <2> QED
    BY <1>6, <1>7, <1>8, <2>3 DEF s, x
<1>11. CASE ~(at > 0)
  <2> HIDE DEF at, joined
  <2> QED
    BY <1>6, <1>7, <1>8, <1>11 DEF s, x
<1> QED
  BY <1>10, <1>11

(* Where a line ends, something of it fits.                                *)
LEMMA TailOfLines ==
  ASSUME NEW st \in Text, st # <<>>, EndsLine(st), NEW b \in Nat, b > 0
  PROVE  LongestTail(st, b) # <<>>
<1>1. PICK k \in 0..Len(st) : /\ LongestTail(st, b) = From(st, k)
                              /\ \A j \in 0..(k - 1) : Size(From(st, j)) > b
  BY TailExists
<1>2. Len(st) \in Nat /\ Len(st) # 0 /\ st[Len(st)] = Newline
  BY DEF Text, EndsLine, Last
<1>3. CASE k < Len(st)
  <2>1. From(st, k) \in Text /\ Len(From(st, k)) = Len(st) - k
    BY FromIs
  <2>2. Len(From(st, k)) # 0
    BY <1>2, <1>3, <2>1
  <2> QED
    BY <1>1, <2>2
<1>4. CASE k = Len(st)
  <2> DEFINE j == Len(st) - 1
  <2>1. j \in 0..Len(st) /\ j \in 0..(k - 1) /\ j + 1 = Len(st) /\ Len(st) - j = 1
    BY <1>2, <1>4
  <2> HIDE DEF j
  <2>2. From(st, j) \in Text /\ Len(From(st, j)) = 1 /\ From(st, j)[1] = Newline
    <3>1. /\ From(st, j) \in Text /\ Len(From(st, j)) = Len(st) - j
          /\ \A i \in 1..(Len(st) - j) : From(st, j)[i] = st[j + i]
      BY <2>1, FromIs
    <3> QED
      BY <1>2, <2>1, <3>1
  <2>3. From(st, j) = <<Newline>>
    BY <2>2 DEF Text
  <2>4. Size(From(st, j)) = 1
    BY <2>3, OneCharacter
  <2>5. ~(Size(From(st, j)) > b)
    BY <2>4
  <2> QED
    BY <1>1, <2>1, <2>5
<1> QED
  BY <1>2, <1>3, <1>4

(* A failure puts its summary behind whatever has arrived.                 *)
LEMMA FailureSettles ==
  ASSUME NEW o, NEW st \in Text, EndsLine(st), Settled(o, st, Behind(st, FALSE))
  PROVE  Settled(AppendNextestFailure(o), st, Behind(st, TRUE))
<1> DEFINE s == Behind(st, TRUE)
<1>1. Behind(st, FALSE) = <<>> /\ Size(<<>>) = 0 /\ <<>> \in Text
  BY BehindIs, NoSize
<1>2. PICK body \in Seq(Captured) :
        /\ Shape(o, body, <<>>)
        /\ ~o.truncated => TextOf(body) = st
        /\ o.truncated => Size(st) + 0 > Limit /\ TextOf(body) = LongestTail(st, Budget - 0)
  BY <1>1 DEF Settled
<1>3. /\ s \in Text /\ Size(s) <= Budget /\ Size(s) \in Nat /\ Budget \in Nat /\ Budget > 0
      /\ Limit \in Nat /\ Size(st) \in Nat /\ Budget - 0 = Budget /\ Size(st) + 0 = Size(st)
  <2>1. s \in Text /\ Size(s) <= Budget /\ Size(s) \in Nat
    BY BehindFits
  <2>2. Size(st) \in Nat
    BY SizeIs
  <2>3. Budget \in Nat /\ Limit \in Nat /\ Size(Summary) \in Nat /\ Size(Summary) + 2 <= Budget
    BY OutputNumbers
  <2> HIDE DEF s
  <2>4. Budget > 0 /\ Budget - 0 = Budget /\ Size(st) + 0 = Size(st)
    BY <2>2, <2>3
  <2> QED
    BY <2>1, <2>2, <2>3, <2>4
<1>4. o \in Outputs /\ o.entries = body /\ o.retained = Size(TextOf(body)) + Size(<<>>)
  <2>1. Ending(<<>>) = <<>>
    BY <1>1, EndingIs
  <2>2. body \o <<>> = body
    BY ConcatEmptySeq
  <2> QED
    BY <1>2, <2>1, <2>2 DEF Shape
<1>5. o.entries # <<>> <=> st # <<>>
  <2>1. CASE ~o.truncated
    BY <1>2, <1>4, <2>1, TextIsThere
  <2>2. CASE o.truncated
    <3>1. st # <<>>
      <4>1. Size(st) # 0
        BY <1>2, <1>3, <2>2
      <4> QED
        BY <1>1, <4>1
    <3>2. TextOf(body) = LongestTail(st, Budget)
      BY <1>2, <1>3, <2>2
    <3>3. LongestTail(st, Budget) # <<>>
      BY <1>3, <3>1, TailOfLines
    <3> QED
      BY <1>4, <3>1, <3>2, <3>3, TextIsThere
  <2> QED
    BY <2>1, <2>2
<1>6. s = (IF o.entries # <<>> THEN <<Newline>> ELSE <<>>) \o StreamChunk(Summary)
  BY <1>5, SummaryChunk DEF Behind, Sep
<1>7. s # <<>>
  <2>1. CASE st = <<>>
    BY <2>1, BehindIs
  <2>2. CASE st # <<>>
    BY <2>2, BehindIs
  <2> QED
    BY <2>1, <2>2
<1> HIDE DEF s
<1> DEFINE new == body \o Ending(s)
           k == o.retained + Size(s)
           q == With(o, new, k)
<1>8. AppendNextestFailure(o) = EnforceRetention(q)
  <2>1. Ending(s) = <<Entry("Summary", s)>>
    BY <1>3, <1>7, EndingIs
  <2>2. Entry("Summary", s) \in Entries /\ body \in Seq(Entries)
    BY <1>3, <1>7, EndingIs, CapturedAre
  <2>3. Append(o.entries, Entry("Summary", s)) = new
    BY <1>4, <2>1, <2>2, AppendIsConcat
  <2> HIDE DEF new
  <2> QED
    BY <1>6, <2>3 DEF AppendNextestFailure, With
<1>9. new \in Seq(Entries) /\ k \in Nat
  <2>1. Ending(s) \in Seq(Entries) /\ body \in Seq(Entries)
    BY <1>3, EndingIs, CapturedAre
  <2>2. o.retained \in Nat
    BY <1>4 DEF Outputs
  <2> QED
    BY <1>3, <2>1, <2>2, ConcatProperties
<1> HIDE DEF new, k
<1>10. q \in Outputs /\ q.entries = new /\ q.retained = k /\ q.truncated = o.truncated
  BY <1>4, <1>9, MakesOutput
<1> HIDE DEF q
<1>11. k = Size(TextOf(body)) + Size(s)
  <2>1. TextOf(body) \in Text
    BY CapturedAre
  <2>2. Size(TextOf(body)) \in Nat
    BY <2>1, SizeIs
  <2>3. k = (Size(TextOf(body)) + 0) + Size(s)
    BY <1>1, <1>4, Zenon DEF k
  <2> QED
    BY <1>3, <2>2, <2>3
<1>12. Shape(q, body, s)
  BY <1>3, <1>10, <1>11, Zenon DEF Shape, new
<1>13. ASSUME q.truncated
       PROVE  /\ Size(st) + Size(s) > Limit
              /\ LongestTail(TextOf(body), Budget - Size(s)) = LongestTail(st, Budget - Size(s))
  <2>1. Size(st) > Limit /\ TextOf(body) = LongestTail(st, Budget)
    BY <1>2, <1>3, <1>10, <1>13
  <2>2. Size(st) + Size(s) > Limit
    BY <1>3, <2>1
  <2>3. Budget - Size(s) \in Nat /\ Budget - Size(s) <= Budget
    BY <1>3
  <2>4. LongestTail(LongestTail(st, Budget) \o <<>>, Budget - Size(s)) =
          LongestTail(st \o <<>>, Budget - Size(s))
    <3> DEFINE b == Budget - Size(s)
    <3>1. b \in Nat /\ b <= Budget /\ Budget \in Nat /\ <<>> \in Text
      BY <1>1, <1>3, <2>3
    <3> HIDE DEF b
    <3>2. LongestTail(LongestTail(st, Budget) \o <<>>, b) = LongestTail(st \o <<>>, b)
      BY <3>1, TailGrows
    <3> QED
      BY <3>2 DEF b
  <2>5. st \o <<>> = st /\ LongestTail(st, Budget) \o <<>> = LongestTail(st, Budget)
    <3>1. LongestTail(st, Budget) \in Text
      BY <1>3, TailSize
    <3> QED
      BY <3>1, ConcatEmptySeq DEF Text
  <2> QED
    BY <2>1, <2>2, <2>4, <2>5, Zenon
<1>14. ~q.truncated => TextOf(body) = st
  BY <1>2, <1>10
<1>15. Settled(EnforceRetention(q), st, s)
  BY <1>3, <1>12, <1>13, <1>14, EnforceSettles
<1> QED
  BY <1>8, <1>15 DEF s

-----------------------------------------------------------------------------
(* limit_text cuts where enforce_retention does: what is left is the       *)
(* longest tail that fits.                                                 *)
LEMMA CutTail ==
  ASSUME NEW y \in Text, NEW b \in Nat, Size(y) > b
  PROVE  From(y, CutAt(y, Size(y) - b)) = LongestTail(y, b)
<1> DEFINE e == Size(y) - b
           k == CutAt(y, e)
<1>1. Size(y) \in Nat /\ e \in Nat /\ e > 0 /\ Len(y) \in Nat
  BY SizeIs DEF Text
<1>2. /\ k \in 0..Len(y) /\ (k = Len(y) \/ Size(SubSeq(y, 1, k)) >= e)
      /\ \A j \in 0..(k - 1) : Size(SubSeq(y, 1, j)) < e
  BY <1>1, CutIs
<1> HIDE DEF k
<1>3. ASSUME NEW j \in 0..Len(y)
      PROVE  /\ Size(SubSeq(y, 1, j)) + Size(From(y, j)) = Size(y)
             /\ Size(SubSeq(y, 1, j)) \in Nat /\ Size(From(y, j)) \in Nat
  <2>1. SubSeq(y, 1, j) \in Text /\ From(y, j) \in Text
    BY FromIs
  <2> QED
    BY <2>1, FromIs, SizeIs
<1>4. Size(From(y, k)) <= b
  <2>1. CASE k = Len(y)
    <3>1. Size(From(y, k)) = 0
      BY <2>1, FromEnds, NoSize
    <3> QED
      BY <3>1
  <2>2. CASE Size(SubSeq(y, 1, k)) >= e
    <3>1. /\ Size(SubSeq(y, 1, k)) + Size(From(y, k)) = Size(y)
          /\ Size(SubSeq(y, 1, k)) \in Nat /\ Size(From(y, k)) \in Nat
      BY <1>2, <1>3
    <3> QED
      BY <1>1, <2>2, <3>1
  <2> QED
    BY <1>2, <2>1, <2>2
<1>5. ASSUME NEW j \in 0..(k - 1)
      PROVE  Size(From(y, j)) > b
  <2>1. j \in 0..Len(y) /\ Size(SubSeq(y, 1, j)) < e
    BY <1>1, <1>2
  <2>2. /\ Size(SubSeq(y, 1, j)) + Size(From(y, j)) = Size(y)
        /\ Size(SubSeq(y, 1, j)) \in Nat /\ Size(From(y, j)) \in Nat
    BY <1>3, <2>1
  <2> QED
    BY <1>1, <2>1, <2>2
<1>6. From(y, k) = LongestTail(y, b)
  BY <1>2, <1>4, <1>5, TailIs
<1> QED
  BY <1>6 DEF k

(* The text of an xtask is what is kept of all it printed, although only   *)
(* what was kept is there when more arrives.                               *)
LEMMA LimitKeeps ==
  ASSUME NEW y \in Text
  PROVE  LimitText(y, Limit) = IF Size(y) <= Limit THEN y ELSE Marker \o LongestTail(y, Budget)
<1>1. Size(y) \in Nat /\ Limit \in Nat /\ Budget \in Nat /\ Size(Marker) < Limit /\ Size(Marker) \in Nat
  BY SizeIs, OutputNumbers
<1>2. CASE Size(y) > Limit
  <2>1. LimitText(y, Limit) = Marker \o From(y, CutAt(y, Size(y) - Budget)) /\ ~(Size(y) <= Limit)
    BY <1>1, <1>2 DEF LimitText, Budget
  <2>2. Size(y) > Budget
    BY <1>1, <1>2, OutputNumbers
  <2>3. From(y, CutAt(y, Size(y) - Budget)) = LongestTail(y, Budget)
    BY <1>1, <2>2, CutTail
  <2> QED
    BY <2>1, <2>3, Zenon
<1>3. CASE Size(y) <= Limit
  BY <1>3 DEF LimitText
<1>4. Size(y) > Limit \/ Size(y) <= Limit
  BY <1>1
<1> QED
  BY <1>2, <1>3, <1>4, Zenon

LEMMA KeptGrows ==
  ASSUME NEW p \in Text, NEW x \in Text
  PROVE  AppendBoundedText(Kept(p), x) = Kept(p \o x)
<1> DEFINE t == LongestTail(p, Budget)
           y == Kept(p) \o x
<1>1. /\ Budget \in Nat /\ Limit \in Nat /\ Marker \in Text /\ Budget = Limit - Size(Marker)
      /\ Size(Marker) \in Nat /\ Size(p) \in Nat /\ Size(x) \in Nat
      /\ p \o x \in Text /\ Size(p \o x) = Size(p) + Size(x)
  BY OutputNumbers, SizeIs, SizeOfConcat
<1>2. AppendBoundedText(Kept(p), x) = LimitText(y, Limit)
  BY DEF AppendBoundedText
<1>3. CASE Size(p) <= Limit
  <2>1. Kept(p) = p
    BY <1>3 DEF Kept
  <2>2. LimitText(p \o x, Limit) = Kept(p \o x)
    BY <1>1, LimitKeeps, Zenon DEF Kept
  <2> QED
    BY <1>2, <2>1, <2>2
<1>4. CASE ~(Size(p) <= Limit)
  <2>1. Kept(p) = Marker \o t
    BY <1>4 DEF Kept
  <2>2. t \in Text
    BY <1>1, TailSize
  <2> HIDE DEF t
  <2>3. /\ t \o x \in Text /\ (Marker \o t) \o x = Marker \o (t \o x)
        /\ Marker \o (t \o x) \in Text
        /\ Size(Marker \o (t \o x)) = Size(Marker) + Size(t \o x) /\ Size(t \o x) \in Nat
    <3>1. t \o x \in Text
      BY <2>2, SizeOfConcat
    <3>2. (Marker \o t) \o x = Marker \o (t \o x)
      <4>1. Marker \in Text
        BY <1>1
      <4> QED
        BY <2>2, <4>1, Associative
    <3> QED
      BY <1>1, <3>1, <3>2, SizeOfConcat, SizeIs
  <2>4. LongestTail(t \o x, Budget) = LongestTail(p \o x, Budget)
    BY <1>1, TailGrows DEF t
  <2>5. Kept(p \o x) = Marker \o LongestTail(t \o x, Budget)
    <3>1. ~(Size(p \o x) <= Limit)
      BY <1>1, <1>4
    <3> QED
      BY <2>4, <3>1 DEF Kept
  <2> DEFINE w == t \o x
             v == Marker \o w
  <2>6. /\ y = v /\ v \in Text /\ w \in Text /\ Size(w) \in Nat
        /\ Size(v) = Size(Marker) + Size(w)
    BY <2>1, <2>3
  <2> HIDE DEF w, v, y
  <2>7. CASE Size(w) <= Budget
    <3>1. Size(v) <= Limit
      BY <1>1, <2>6, <2>7
    <3>2. LimitText(v, Limit) = v
      BY <2>6, <3>1, LimitKeeps
    <3>3. LongestTail(w, Budget) = w
      BY <1>1, <2>6, <2>7, TailFits
    <3> QED
      BY <1>2, <2>5, <2>6, <3>2, <3>3 DEF v, w
  <2>8. CASE Size(w) > Budget
    <3>1. ~(Size(v) <= Limit)
      BY <1>1, <2>6, <2>8
    <3>2. LimitText(v, Limit) = Marker \o LongestTail(v, Budget)
      BY <2>6, <3>1, LimitKeeps
    <3>3. LongestTail(Marker \o w, Budget) = LongestTail(w, Budget)
      BY <1>1, <2>6, <2>8, TailBehind
    <3> QED
      BY <1>2, <2>5, <2>6, <3>2, <3>3 DEF v, w
  <2>9. Size(w) <= Budget \/ Size(w) > Budget
    BY <1>1, <2>6
  <2> QED
    BY <2>7, <2>8, <2>9
<1> QED
  BY <1>3, <1>4

(* A line of the runner: the last ones are kept, and their numbers count   *)
(* on.                                                                     *)
LinesInv(kept, n) ==
  /\ n \in Nat /\ kept \in Seq(Nat)
  /\ kept = [k \in 1..Len(kept) |-> n - Len(kept) + k]
  /\ Len(kept) <= MaxLines /\ Len(kept) <= n
  /\ Len(kept) < n => Len(kept) > MaxLines - Drained

(* Tree::append_runner_output.                                             *)
WithLine(kept, line) ==
  LET all == Append(kept, line)
  IN IF Len(all) > MaxLines THEN SubSeq(all, Drained + 1, Len(all)) ELSE all

LEMMA LineKeeps ==
  ASSUME NEW kept, NEW n, LinesInv(kept, n)
  PROVE  LinesInv(WithLine(kept, n + 1), n + 1)
<1> DEFINE c == Len(kept)
           all == Append(kept, n + 1)
           next == IF Len(all) > MaxLines THEN SubSeq(all, Drained + 1, Len(all)) ELSE all
<1>0. WithLine(kept, n + 1) = next
  BY DEF WithLine
<1>1. /\ n \in Nat /\ kept \in Seq(Nat) /\ c \in Nat /\ n + 1 \in Nat
      /\ \A k \in 1..c : kept[k] = n - c + k
      /\ c <= MaxLines /\ c <= n /\ (c < n => c > MaxLines - Drained)
      /\ MaxLines \in Nat /\ Drained \in Nat /\ Drained >= 1 /\ Drained <= MaxLines
  <2>1. MaxLines \in Nat /\ Drained \in 1..MaxLines
    BY ResultsAssumption
  <2>2. /\ n \in Nat /\ kept \in Seq(Nat) /\ kept = [k \in 1..c |-> n - c + k]
        /\ c <= MaxLines /\ c <= n /\ (c < n => c > MaxLines - Drained)
    BY DEF LinesInv
  <2>3. c \in Nat
    BY <2>2
  <2> HIDE DEF c
  <2>4. \A k \in 1..c : kept[k] = n - c + k
    BY <2>2
  <2> QED
    BY <2>1, <2>2, <2>3, <2>4
<1>2. /\ all \in Seq(Nat) /\ Len(all) = c + 1 /\ all[c + 1] = n + 1
      /\ \A k \in 1..c : all[k] = kept[k]
  BY <1>1, AppendProperties
<1> HIDE DEF c, all
<1>3. \A k \in 1..(c + 1) : all[k] = n - c + k
  <2> SUFFICES ASSUME NEW k \in 1..(c + 1)
               PROVE  all[k] = n - c + k
    OBVIOUS
  <2>1. CASE k = c + 1
    <3>1. n - c + (c + 1) = n + 1
      BY <1>1
    <3> QED
      BY <1>2, <2>1, <3>1
  <2>2. CASE k \in 1..c
    BY <1>1, <1>2, <2>2
  <2> QED
    BY <1>1, <2>1, <2>2
<1>4. CASE c + 1 <= MaxLines
  <2>1. next = all
    BY <1>1, <1>2, <1>4
  <2>2. all = [k \in 1..(c + 1) |-> (n + 1) - (c + 1) + k]
    <3>1. all = [k \in 1..(c + 1) |-> all[k]]
      BY <1>1, <1>2
    <3>2. \A k \in 1..(c + 1) : all[k] = (n + 1) - (c + 1) + k
      BY <1>1, <1>3
    <3> QED
      BY <3>1, <3>2
  <2>3. c + 1 <= n + 1 /\ (c + 1 < n + 1 => c + 1 > MaxLines - Drained)
    BY <1>1
  <2>4. LinesInv(all, n + 1)
    BY <1>1, <1>2, <1>4, <2>2, <2>3 DEF LinesInv
  <2> HIDE DEF next
  <2> QED
    BY <1>0, <2>1, <2>4
<1>5. CASE c + 1 > MaxLines
  <2> DEFINE d == c + 1 - Drained
  <2>1. /\ d \in Nat /\ c = MaxLines /\ d <= MaxLines /\ d <= n + 1 /\ d > MaxLines - Drained
        /\ Drained + d = c + 1 /\ Drained + 1 \in Nat
    BY <1>1, <1>5
  <2>2. next = SubSeq(all, Drained + 1, c + 1)
    BY <1>1, <1>2, <1>5
  <2> HIDE DEF d, next
  <2>3. /\ SubSeq(all, Drained + 1, c + 1) \in Seq(Nat) /\ Len(SubSeq(all, Drained + 1, c + 1)) = d
        /\ \A k \in 1..d : SubSeq(all, Drained + 1, c + 1)[k] = all[Drained + k]
    <3>1. Drained + 1 \in 1..(Len(all) + 1) /\ c + 1 \in Drained..Len(all)
      BY <1>1, <1>2, <2>1
    <3> QED
      BY <1>1, <1>2, <2>1, <3>1 DEF d
  <2>4. next \in Seq(Nat) /\ Len(next) = d /\ \A k \in 1..d : next[k] = all[Drained + k]
    BY <2>2, <2>3
  <2>5. \A k \in 1..d : next[k] = (n + 1) - d + k
    <3> SUFFICES ASSUME NEW k \in 1..d
                 PROVE  next[k] = (n + 1) - d + k
      OBVIOUS
    <3>1. Drained + k \in 1..(c + 1)
      BY <1>1, <2>1
    <3>2. n - c + (Drained + k) = (n + 1) - d + k
      BY <1>1, <2>1, <3>1
    <3> QED
      BY <1>3, <2>4, <3>1, <3>2
  <2>6. next = [k \in 1..d |-> (n + 1) - d + k]
    <3>1. next = [k \in 1..d |-> next[k]]
      BY <2>1, <2>4
    <3> QED
      BY <2>5, <3>1
  <2>7. LinesInv(next, n + 1)
    BY <1>1, <2>1, <2>4, <2>6 DEF LinesInv
  <2> QED
    BY <1>0, <2>7
<1> QED
  <2>1. c + 1 <= MaxLines \/ c + 1 > MaxLines
    BY <1>1
  <2> QED
    BY <1>4, <1>5, <2>1

-----------------------------------------------------------------------------
(* The output of a test tells all that came of it and how it ended.        *)
Tells(o, st, verdict) ==
  /\ st \in Text /\ EndsLine(st)
  /\ Settled(o, st, IF verdict = "Failed" THEN Behind(st, TRUE) ELSE Behind(st, FALSE))

(* A test that runs has not failed, nor has one that did not run; a test   *)
(* fails once, so that its summary is there once.                          *)
FailedInv ==
  /\ \A t \in live : ran[t] > 0 /\ (ran[t] <= 1 => status[t] # "Failed")
  /\ running => \A t \in Tests : ran[t] = 0 => status[t] # "Failed"

OInv ==
  /\ output = [t \in Tests |-> output[t]] /\ stream \in [Tests -> Text]
  /\ \A t \in Tests : ran[t] <= 1 => Tells(output[t], stream[t], status[t])
  /\ FailedInv
  /\ program \in Text /\ combined = Kept(program)
  /\ LinesInv(runner, lines)

LEMMA TellsOutput ==
  ASSUME NEW o, NEW st, NEW verdict, Tells(o, st, verdict)
  PROVE  o \in Outputs
BY DEF Tells, Settled, Shape

LEMMA TellsNone ==
  ASSUME NEW verdict, verdict # "Failed"
  PROVE  Tells(NoOutput, <<>>, verdict) /\ NoOutput \in Outputs /\ <<>> \in Text
<1>1. /\ <<>> \in Text /\ <<>> \in Seq(Captured) /\ <<>> \in Seq(Entries) /\ Size(<<>>) = 0
      /\ TextOf(<<>>) = <<>> /\ Ending(<<>>) = <<>> /\ Behind(<<>>, FALSE) = <<>>
      /\ <<>> \o Ending(<<>>) = <<>>
  <2>1. <<>> \in Text /\ <<>> \in Seq(Captured) /\ <<>> \in Seq(Entries)
    BY DEF Text
  <2>2. Ending(<<>>) = <<>> /\ Behind(<<>>, FALSE) = <<>>
    BY DEF Ending, Behind
  <2>3. <<>> \o <<>> = <<>>
    BY <2>1, ConcatEmptySeq DEF Text
  <2> QED
    BY <2>1, <2>2, <2>3, NoSize, TextOfNone
<1>2. NoOutput \in Outputs
  BY <1>1 DEF NoOutput, Outputs
<1>3. NoOutput.entries = <<>> /\ NoOutput.retained = 0 /\ NoOutput.truncated = FALSE
  BY DEF NoOutput
<1>4. Shape(NoOutput, <<>>, <<>>)
  <2>1. NoOutput.retained = Size(TextOf(<<>>)) + Size(<<>>)
    BY <1>1, <1>3
  <2> QED
    BY <1>1, <1>2, <1>3, <2>1 DEF Shape
<1>5. Size(<<>>) + Size(<<>>) <= Limit
  BY <1>1, OutputNumbers
<1>6. Settled(NoOutput, <<>>, <<>>)
  BY <1>1, <1>3, <1>4, <1>5 DEF Settled
<1> QED
  BY <1>1, <1>2, <1>6 DEF Tells, EndsLine

LEMMA TellsAlike ==
  ASSUME NEW o, NEW st, NEW v, NEW w, Tells(o, st, v), v = "Failed" <=> w = "Failed"
  PROVE  Tells(o, st, w)
BY Zenon DEF Tells

LEMMA ArrivesTells ==
  ASSUME NEW o, NEW st, NEW verdict, Tells(o, st, verdict), NEW text \in Text, text # <<>>
  PROVE  LET all == st \o StreamChunk(text)
         IN Tells(AppendText(o, text), all, verdict) /\ Tells(AppendEvent(o, text), all, verdict)
<1> DEFINE all == st \o StreamChunk(text)
<1>1. st \in Text /\ all \in Text /\ EndsLine(all)
  BY ChunkFollows DEF Tells
<1>2. ASSUME NEW failed \in BOOLEAN, Settled(o, st, Behind(st, failed))
      PROVE  /\ Settled(AppendText(o, text), all, Behind(all, failed))
             /\ Settled(AppendEvent(o, text), all, Behind(all, failed))
  BY <1>1, <1>2, ArrivesSettles
<1> HIDE DEF all
<1>3. CASE verdict = "Failed"
  BY <1>1, <1>2, <1>3 DEF Tells, all
<1>4. CASE verdict # "Failed"
  BY <1>1, <1>2, <1>4 DEF Tells, all
<1> QED
  BY <1>3, <1>4

LEMMA FailureTells ==
  ASSUME NEW o, NEW st, NEW verdict, Tells(o, st, verdict), verdict # "Failed"
  PROVE  Tells(AppendNextestFailure(o), st, "Failed")
BY FailureSettles DEF Tells

-----------------------------------------------------------------------------
LEMMA OutputInitHolds == ResultsInit => OInv
<1> SUFFICES ASSUME ResultsInit PROVE OInv
  OBVIOUS
<1>1. /\ status = [t \in Tests |-> IF t \in Ignored THEN "Ignored" ELSE "Pending"]
      /\ live = {} /\ running = FALSE
      /\ output = [t \in Tests |-> NoOutput] /\ stream = [t \in Tests |-> <<>>]
      /\ runner = <<>> /\ lines = 0 /\ combined = <<>> /\ program = <<>>
  BY DEF ResultsInit, Init, Nothing
<1>2. \A t \in Tests : status[t] # "Failed"
  BY <1>1
<1>3. NoOutput \in Outputs /\ <<>> \in Text /\ \A t \in Tests : Tells(NoOutput, <<>>, status[t])
  BY <1>2, TellsNone
<1>4. output = [t \in Tests |-> output[t]] /\ stream \in [Tests -> Text]
  BY <1>1, <1>3
<1>5. \A t \in Tests : Tells(output[t], stream[t], status[t])
  BY <1>1, <1>3
<1>6. FailedInv
  BY <1>1 DEF FailedInv
<1>7. Kept(<<>>) = <<>>
  BY NoSize, OutputNumbers DEF Kept
<1>8. LinesInv(<<>>, 0)
  BY ResultsAssumption DEF LinesInv
<1> QED
  BY <1>1, <1>3, <1>4, <1>5, <1>6, <1>7, <1>8 DEF OInv

(* What moves statuses without failing a test, or clearing a failure.      *)
LEMMA ProceedsPreserves ==
  ASSUME OInv, UNCHANGED <<output, stream, runner, lines, textVars>>,
         status' \in [Tests -> Statuses],
         \A t \in Tests : ran'[t] <= 1 =>
           ran[t] <= 1 /\ (status'[t] = "Failed" <=> status[t] = "Failed"),
         FailedInv'
  PROVE  OInv'
<1>1. \A t \in Tests : ran'[t] <= 1 => Tells(output'[t], stream'[t], status'[t])
  BY TellsAlike DEF OInv
<1> QED
  BY <1>1 DEF OInv, textVars

LEMMA LinePreserves ==
  ASSUME OInv, AppendRunnerOutput, UNCHANGED <<output, stream, textVars>>,
         UNCHANGED <<status, live, ran, running>>
  PROVE  OInv'
<1>1. lines' = lines + 1 /\ runner' = WithLine(runner, lines + 1)
  BY DEF AppendRunnerOutput, WithLine
<1>2. LinesInv(runner', lines')
  BY <1>1, LineKeeps DEF OInv
<1> QED
  BY <1>2 DEF OInv, FailedInv, textVars

LEMMA BeginClears ==
  ASSUME OInv, IInv, NEW s \in Scopes, BeginsAfresh(s), UNCHANGED textVars
  PROVE  OInv'
<1>1. /\ \A t \in Tests : status'[t] # "Failed"
      /\ live' = {}
      /\ output' = [t \in Tests |-> NoOutput] /\ stream' = [t \in Tests |-> <<>>]
      /\ runner' = <<>> /\ lines' = 0 /\ UNCHANGED <<combined, program>>
  BY Zenon DEF BeginsAfresh, Begin, Nothing, textVars, procVars, IInv, ProcessInv
<1>2. NoOutput \in Outputs /\ <<>> \in Text /\ \A t \in Tests : Tells(NoOutput, <<>>, status'[t])
  <2>1. \A v : v # "Failed" => Tells(NoOutput, <<>>, v)
    BY TellsNone
  <2>2. NoOutput \in Outputs /\ <<>> \in Text
    BY TellsNone
  <2> QED
    BY <1>1, <2>1, <2>2, Zenon
<1>3. output' = [t \in Tests |-> output'[t]] /\ stream' \in [Tests -> Text]
  BY <1>1, <1>2
<1>4. \A t \in Tests : Tells(output'[t], stream'[t], status'[t])
  BY <1>1, <1>2
<1>5. FailedInv'
  BY <1>1 DEF FailedInv
<1>6. LinesInv(runner', lines')
  BY <1>1, ResultsAssumption DEF LinesInv
<1> QED
  BY <1>1, <1>3, <1>4, <1>5, <1>6 DEF OInv

(* A test that starts for the first time in a run has no summary to lose.  *)
LEMMA StartKeeps ==
  ASSUME OInv, IInv, NEW t \in Tests, TestStarted(t),
         UNCHANGED <<output, stream, runner, lines, textVars>>
  PROVE  OInv'
<1>1. /\ status' = (IF t \in Ignored THEN status ELSE [status EXCEPT ![t] = "Running"])
      /\ t \in queued /\ live' = live \union {t} /\ proc = "testing" /\ UNCHANGED running
      /\ ran' = [ran EXCEPT ![t] = @ + 1]
  BY DEF TestStarted
<1>2. /\ status \in [Tests -> Statuses] /\ ran \in [Tests -> Nat] /\ live \subseteq Tests
      /\ running
  BY <1>1 DEF IInv, Types, TypeOK, ProcessInv
<1>3. \A u \in Tests : ran'[u] = IF u = t THEN ran[t] + 1 ELSE ran[u]
  BY <1>1, <1>2
<1>4. \A u \in Tests : status'[u] # status[u] => u = t /\ status'[t] = "Running"
  BY <1>1, <1>2
<1>5. status' \in [Tests -> Statuses]
  BY <1>1, <1>2 DEF Statuses
<1>6. \A u \in Tests : ran'[u] <= 1 =>
        ran[u] <= 1 /\ (status'[u] = "Failed" <=> status[u] = "Failed")
  <2> SUFFICES ASSUME NEW u \in Tests, ran'[u] <= 1
               PROVE  ran[u] <= 1 /\ (status'[u] = "Failed" <=> status[u] = "Failed")
    OBVIOUS
  <2>1. CASE u # t
    BY <1>3, <1>4, <2>1
  <2>2. CASE u = t
    <3>1. ran[t] = 0
      BY <1>2, <1>3, <2>2
    <3>2. status[t] # "Failed"
      BY <1>2, <3>1 DEF OInv, FailedInv
    <3> QED
      BY <1>4, <2>2, <3>1, <3>2
  <2> QED
    BY <2>1, <2>2
<1>7. FailedInv'
  <2>1. ASSUME NEW u \in live'
        PROVE  ran'[u] > 0 /\ (ran'[u] <= 1 => status'[u] # "Failed")
    <3>1. CASE u = t
      <4>1. ran'[t] > 0
        BY <1>2, <1>3
      <4>2. ran'[t] <= 1 => status[t] # "Failed"
        BY <1>2, <1>3 DEF OInv, FailedInv
      <4> QED
        BY <1>6, <3>1, <4>1, <4>2
    <3>2. CASE u \in live /\ u # t
      BY <1>2, <1>3, <1>4, <3>2 DEF OInv, FailedInv
    <3> QED
      BY <1>1, <3>1, <3>2
  <2>2. ASSUME NEW u \in Tests, ran'[u] = 0
        PROVE  status'[u] # "Failed"
    <3>1. u # t /\ ran[u] = 0
      BY <1>2, <1>3, <2>2
    <3> QED
      BY <1>2, <1>4, <3>1 DEF OInv, FailedInv
  <2> QED
    BY <2>1, <2>2 DEF FailedInv
<1> QED
  BY <1>5, <1>6, <1>7, ProceedsPreserves

LEMMA ConcludeKeeps ==
  ASSUME OInv, IInv, NEW code, NEW stopped \in BOOLEAN, Conclude(code, stopped), UNCHANGED ran,
         UNCHANGED <<output, stream, runner, lines, textVars>>
  PROVE  OInv'
<1>1. status \in [Tests -> Statuses]
  BY DEF IInv, Types, TypeOK
<1>2. live' = {} /\ running' = FALSE
  BY DEF Conclude
<1>3. status' \in [Tests -> Statuses] /\ \A t \in Tests : status'[t] = "Failed" <=> status[t] = "Failed"
  BY <1>1 DEF Conclude, StopRunning, SkipUnfinished, Statuses
<1>4. FailedInv'
  BY <1>2 DEF FailedInv
<1> QED
  BY <1>3, <1>4, ProceedsPreserves

LEMMA ProceedsKeeps ==
  ASSUME OInv, IInv, Proceeds, UNCHANGED textVars
  PROVE  OInv'
<1>1. UNCHANGED <<output, stream, runner, lines, textVars>>
  BY DEF Proceeds
<1>2. status \in [Tests -> Statuses]
  BY DEF IInv, Types, TypeOK
<1>3. ASSUME UNCHANGED <<status, ran, running>>, live' = {}
      PROVE  OInv'
  <2>1. FailedInv'
    BY <1>3 DEF OInv, FailedInv
  <2> QED
    BY <1>1, <1>2, <1>3, <2>1, ProceedsPreserves
<1>4. CASE SpawnGroup
  BY <1>3, <1>4 DEF SpawnGroup, appVars
<1>5. CASE StoppedByUser \/ RunnerFails
  BY <1>1, <1>5, ConcludeKeeps DEF StoppedByUser, RunnerFails
<1>6. ASSUME NEW t \in Tests, TestStarted(t)
      PROVE  OInv'
  BY <1>1, <1>6, StartKeeps
<1>7. ASSUME NEW code \in {"zero", "nonzero"}, GroupEnds(code)
      PROVE  OInv'
  <2>1. CASE todo = {}
    BY <1>1, <1>7, <2>1, ConcludeKeeps DEF GroupEnds
  <2>2. CASE todo # {}
    BY <1>3, <1>7, <2>2 DEF GroupEnds, appVars
  <2> QED
    BY <2>1, <2>2
<1> QED
  BY <1>4, <1>5, <1>6, <1>7 DEF Proceeds

LEMMA ArrivalKeeps ==
  ASSUME OInv, IInv, NEW t \in Tests, NEW text \in Texts, TestOutputArrives(t, text),
         UNCHANGED textVars
  PROVE  OInv'
<1>1. text \in Text /\ text # <<>>
  BY ResultsAssumption DEF Text
<1>2. /\ UNCHANGED <<status, live, ran, running, runner, lines>>
      /\ stream' = [stream EXCEPT ![t] = stream[t] \o StreamChunk(text)]
      /\ \/ output' = [output EXCEPT ![t] = AppendText(output[t], text)]
         \/ output' = [output EXCEPT ![t] = AppendEvent(output[t], text)]
  BY DEF TestOutputArrives, Chunk, vars, appVars, procVars
<1> DEFINE st == stream[t] \o StreamChunk(text)
<1>3. ran[t] <= 1 => /\ Tells(AppendText(output[t], text), st, status[t])
                      /\ Tells(AppendEvent(output[t], text), st, status[t])
  BY <1>1, ArrivesTells DEF OInv
<1>5. st \in Text
  BY <1>1, StreamChunkIs, SizeOfConcat DEF OInv, Filled
<1> HIDE DEF st
<1>4. PICK o : output' = [output EXCEPT ![t] = o] /\ (ran[t] <= 1 => Tells(o, st, status[t]))
  BY <1>2, <1>3
<1>6. output' = [u \in Tests |-> output'[u]] /\ stream' \in [Tests -> Text]
  BY <1>2, <1>4, <1>5 DEF OInv, st
<1>7. \A u \in Tests : ran'[u] <= 1 => Tells(output'[u], stream'[u], status'[u])
  <2> SUFFICES ASSUME NEW u \in Tests, ran[u] <= 1 PROVE Tells(output'[u], stream'[u], status'[u])
    BY <1>2
  <2>1. CASE u = t
    <3>1. output'[t] = o /\ stream'[t] = st /\ status'[t] = status[t]
      BY <1>2, <1>4 DEF OInv, st
    <3> QED
      BY <1>4, <2>1, <3>1
  <2>2. CASE u # t
    <3>1. output'[u] = output[u] /\ stream'[u] = stream[u] /\ status'[u] = status[u]
      BY <1>2, <1>4, <2>2 DEF OInv
    <3> QED
      BY <3>1 DEF OInv
  <2> QED
    BY <2>1, <2>2
<1> QED
  BY <1>2, <1>6, <1>7 DEF OInv, FailedInv, textVars

(* The record of a test's end brings text, or none, and then its failure.  *)
LEMMA FinishKeeps ==
  ASSUME OInv, IInv, NEW t \in Tests, NEW result \in {"Passed", "Failed"},
         NEW text, text = <<>> \/ text \in Texts, Finishes(t, result, text), UNCHANGED textVars
  PROVE  OInv'
<1>1. text # <<>> => text \in Text
  BY ResultsAssumption DEF Text
<1> DEFINE o == AppendText(output[t], text)
           st == IF text = <<>> THEN stream[t] ELSE stream[t] \o StreamChunk(text)
           p == IF result = "Failed" THEN AppendNextestFailure(o) ELSE o
<1>2. /\ UNCHANGED <<running, ran, runner, lines>>
      /\ t \in live /\ live' = live \ {t} /\ status' = [status EXCEPT ![t] = result]
  BY DEF Finishes, TestFinished
<1>3. /\ stream \in [Tests -> Text] /\ output = [u \in Tests |-> output[u]] /\ ran[t] > 0
      /\ ran[t] <= 1 => Tells(output[t], stream[t], status[t]) /\ status[t] # "Failed"
      /\ status \in [Tests -> Statuses] /\ ran \in [Tests -> Nat] /\ live \subseteq Tests
  BY <1>2 DEF OInv, FailedInv, IInv, Types, TypeOK
<1>4. stream' = [stream EXCEPT ![t] = st]
  <2>1. CASE text = <<>>
    <3>1. stream' = stream
      BY <2>1 DEF Finishes
    <3> QED
      BY <1>3, <2>1, <3>1
  <2>2. CASE text # <<>>
    BY <2>2 DEF Finishes, Chunk
  <2> QED
    BY <2>1, <2>2
<1>5. output' = [output EXCEPT ![t] = p]
  BY DEF Finishes
<1>6. ran[t] <= 1 => Tells(o, st, status[t])
  <2> HAVE ran[t] <= 1
  <2>1. CASE text = <<>>
    BY <1>3, <2>1 DEF AppendText
  <2>2. CASE text # <<>>
    <3>1. Tells(AppendText(output[t], text), stream[t] \o StreamChunk(text), status[t])
      BY <1>1, <1>3, <2>2, ArrivesTells
    <3> QED
      BY <2>2, <3>1
  <2> QED
    BY <2>1, <2>2
<1>8. st \in Text
  BY <1>1, <1>3, StreamChunkIs, SizeOfConcat DEF Filled
<1> HIDE DEF o, st
<1>7. ran[t] <= 1 => Tells(p, st, result)
  <2> HAVE ran[t] <= 1
  <2>1. CASE result = "Failed"
    BY <1>3, <1>6, <2>1, FailureTells
  <2>2. CASE result # "Failed"
    BY <1>3, <1>6, <2>2, TellsAlike
  <2> QED
    BY <2>1, <2>2
<1> HIDE DEF p
<1>9. output' = [u \in Tests |-> output'[u]] /\ stream' \in [Tests -> Text]
  BY <1>3, <1>4, <1>5, <1>8
<1>10. \A u \in Tests : ran'[u] <= 1 => Tells(output'[u], stream'[u], status'[u])
  <2> SUFFICES ASSUME NEW u \in Tests, ran[u] <= 1 PROVE Tells(output'[u], stream'[u], status'[u])
    BY <1>2
  <2>1. CASE u = t
    <3>1. output'[t] = p /\ stream'[t] = st /\ status'[t] = result
      BY <1>2, <1>3, <1>4, <1>5
    <3> QED
      BY <1>7, <2>1, <3>1
  <2>2. CASE u # t
    <3>1. output'[u] = output[u] /\ stream'[u] = stream[u] /\ status'[u] = status[u]
      BY <1>2, <1>3, <1>4, <1>5, <2>2
    <3> QED
      BY <3>1 DEF OInv
  <2> QED
    BY <2>1, <2>2
<1>11. FailedInv'
  <2>1. \A u \in live' : ran'[u] > 0 /\ (ran'[u] <= 1 => status'[u] # "Failed")
    BY <1>2, <1>3 DEF OInv, FailedInv
  <2>2. running' => \A u \in Tests : ran'[u] = 0 => status'[u] # "Failed"
    <3> SUFFICES ASSUME running', NEW u \in Tests, ran'[u] = 0 PROVE status'[u] # "Failed"
      OBVIOUS
    <3>1. u # t /\ running /\ ran[u] = 0
      BY <1>2, <1>3
    <3> QED
      BY <1>2, <1>3, <3>1 DEF OInv, FailedInv
  <2> QED
    BY <2>1, <2>2 DEF FailedInv
<1> QED
  BY <1>2, <1>9, <1>10, <1>11 DEF OInv, textVars

LEMMA XtaskKeeps ==
  ASSUME OInv, XtaskPrints, UNCHANGED runVars
  PROVE  OInv'
<1>1. PICK text \in Texts : combined' = AppendBoundedText(combined, text) /\ program' = program \o text
  BY DEF XtaskPrints
<1>2. text \in Text
  BY ResultsAssumption DEF Text
<1>3. program' \in Text /\ combined' = Kept(program')
  <2>1. program \in Text /\ combined = Kept(program)
    BY DEF OInv
  <2>2. AppendBoundedText(Kept(program), text) = Kept(program \o text) /\ program \o text \in Text
    BY <1>2, <2>1, KeptGrows, SizeOfConcat
  <2> QED
    BY <1>1, <2>1, <2>2, Zenon
<1>4. UNCHANGED <<status, live, ran, running, output, stream, runner, lines>>
  BY DEF runVars, vars, appVars, procVars
<1> QED
  BY <1>3, <1>4 DEF OInv, FailedInv

(* The inductive step; it needs what is known of the statuses (IInv).      *)
LEMMA OutputStep == IInv /\ OInv /\ [ResultsNext]_resultsVars => OInv'
<1> SUFFICES ASSUME IInv, OInv, [ResultsNext]_resultsVars PROVE OInv'
  OBVIOUS
<1>1. ASSUME UNCHANGED runVars, UNCHANGED textVars PROVE OInv'
  <2>1. UNCHANGED <<status, live, ran, running, output, stream, runner, lines, combined, program>>
    BY <1>1 DEF runVars, vars, appVars, procVars, textVars
  <2> QED
    BY <2>1 DEF OInv, FailedInv
<1>2. CASE UNCHANGED resultsVars
  BY <1>1, <1>2 DEF resultsVars
<1>3. CASE XtaskPrints /\ UNCHANGED runVars
  BY <1>3, XtaskKeeps
<1>4. CASE RunNext /\ UNCHANGED textVars
  <2>1. ASSUME NEW s \in Scopes, BeginsAfresh(s) PROVE OInv'
    BY <1>4, <2>1, BeginClears
  <2>2. CASE RunnerOutput \/ StrangerPrints
    <3>1. UNCHANGED <<status, live, ran, running, output, stream>> /\ AppendRunnerOutput
      BY <2>2 DEF RunnerOutput, StrangerPrints, vars, appVars, procVars
    <3> QED
      BY <1>4, <3>1, LinePreserves
  <2>3. CASE Announces
    <3>1. UNCHANGED <<status, live, ran, running, output, stream>> /\ AppendRunnerOutput
      BY <2>3 DEF Announces, SuiteStarted, RunCancelling
    <3> QED
      BY <1>4, <3>1, LinePreserves
  <2>4. CASE Proceeds
    BY <1>4, <2>4, ProceedsKeeps
  <2>5. ASSUME NEW t \in Tests, NEW result \in {"Passed", "Failed"}, NEW text,
               text = <<>> \/ text \in Texts, Finishes(t, result, text)
        PROVE  OInv'
    BY <1>4, <2>5, FinishKeeps
  <2>6. ASSUME NEW t \in Tests, NEW text \in Texts, TestOutputArrives(t, text)
        PROVE  OInv'
    BY <1>4, <2>6, ArrivalKeeps
  <2>7. Printers \subseteq Tests
    BY ResultsAssumption
  <2> QED
    BY <1>4, <2>1, <2>2, <2>3, <2>4, <2>5, <2>6, <2>7 DEF RunNext
<1> QED
  BY <1>1, <1>2, <1>3, <1>4 DEF ResultsNext

(* What is shown of every test is all that it printed, or its longest end  *)
(* that fits.                                                              *)
LEMMA OutputIsShown == OInv => OutputIsTail
<1> SUFFICES ASSUME OInv PROVE OutputIsTail
  OBVIOUS
<1>1. ASSUME NEW t \in Tests, ran[t] <= 1
      PROVE  /\ StreamText(output[t]) = Kept(Whole(t))
             /\ output[t].retained = Size(StreamText([output[t] EXCEPT !.truncated = FALSE]))
  <2>1. stream[t] \in Text /\ Tells(output[t], stream[t], status[t])
    BY <1>1 DEF OInv
  <2>2. CASE status[t] = "Failed"
    <3>1. Whole(t) = stream[t] \o Behind(stream[t], TRUE)
      BY <2>2 DEF Whole, Behind, Sep
    <3>2. Settled(output[t], stream[t], Behind(stream[t], TRUE))
      BY <2>1, <2>2 DEF Tells
    <3>3. Behind(stream[t], TRUE) \in Text /\ Size(Behind(stream[t], TRUE)) <= Budget
      BY <2>1, BehindFits
    <3>4. /\ StreamText(output[t]) = Kept(stream[t] \o Behind(stream[t], TRUE))
          /\ output[t].retained = Size(StreamText(Unmarked(output[t])))
      BY <2>1, <3>2, <3>3, ShowsKept
    <3> QED
      BY <3>1, <3>4, Zenon DEF Unmarked
  <2>3. CASE status[t] # "Failed"
    <3>1. Whole(t) = stream[t] \o Behind(stream[t], FALSE)
      BY <2>3 DEF Whole, Behind
    <3>2. Settled(output[t], stream[t], Behind(stream[t], FALSE))
      BY <2>1, <2>3 DEF Tells
    <3>3. Behind(stream[t], FALSE) \in Text /\ Size(Behind(stream[t], FALSE)) <= Budget
      BY <2>1, BehindFits
    <3>4. /\ StreamText(output[t]) = Kept(stream[t] \o Behind(stream[t], FALSE))
          /\ output[t].retained = Size(StreamText(Unmarked(output[t])))
      BY <2>1, <3>2, <3>3, ShowsKept
    <3> QED
      BY <3>1, <3>4, Zenon DEF Unmarked
  <2> QED
    BY <2>2, <2>3
<1> QED
  BY <1>1 DEF OutputIsTail, OInv, LinesInv

(* Whatever order output and verdicts come in, and however much of it,     *)
(* what is shown of a test, of an xtask and of the runner is all of it or  *)
(* its end (output.rs, Tree::append_runner_output).                        *)
THEOREM OutputKept == ResultsSpec => []OutputIsTail
<1>1. ResultsSpec => []IInv
  BY Invariance, StatusesRefined, PTL
<1>2. ResultsSpec => []OInv
  BY <1>1, OutputInitHolds, OutputStep, PTL DEF ResultsSpec
<1> QED
  BY <1>2, OutputIsShown, PTL
=============================================================================
