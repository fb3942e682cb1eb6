-------------------------- MODULE CustomRun_proofs --------------------------
(***************************************************************************)
(* The request that is made of the run options is the one that is shown,   *)
(* for any tests, any projects that discoveries find, and any number of    *)
(* profiles, reasons and retries.                                          *)
(***************************************************************************)
EXTENDS CustomRun, FiniteSetTheorems, TLAPS

-----------------------------------------------------------------------------
(* An element of a sequence.                                               *)
LEMMA ElementOf ==
  ASSUME NEW S, NEW q \in Seq(S), NEW i \in DOMAIN q
  PROVE  q[i] \in S
OBVIOUS

(* The nth of a finite set of integers is there: as many elements as a set *)
(* has, so many different numbers of smaller ones there are.               *)
LEMMA NthIsThere ==
  ASSUME NEW S \in SUBSET Int, IsFiniteSet(S), NEW n \in 1..Cardinality(S)
  PROVE  Nth(S, n) \in S
<1> DEFINE Below(i) == {j \in S : j < i}
           c == Cardinality(S)
           f == [i \in S |-> Cardinality(Below(i))]
<1>1. c \in Nat
  BY FS_CardinalityType
<1>2. \A i \in S : IsFiniteSet(Below(i)) /\ Cardinality(Below(i)) \in 0..(c - 1)
  <2> SUFFICES ASSUME NEW i \in S
               PROVE  IsFiniteSet(Below(i)) /\ Cardinality(Below(i)) \in 0..(c - 1)
    OBVIOUS
  <2>1. Below(i) \in SUBSET S /\ i \notin Below(i)
    OBVIOUS
  <2>2. IsFiniteSet(Below(i)) /\ Cardinality(Below(i)) <= c /\ Cardinality(Below(i)) # c
    BY <2>1, FS_Subset, Zenon
  <2>3. Cardinality(Below(i)) \in Nat
    BY <2>2, FS_CardinalityType
  <2> HIDE DEF Below, c
  <2> QED
    BY <2>2, <2>3, <1>1
<1>3. \A i, k \in S : i < k => Cardinality(Below(i)) < Cardinality(Below(k))
  <2> SUFFICES ASSUME NEW i \in S, NEW k \in S, i < k
               PROVE  Cardinality(Below(i)) < Cardinality(Below(k))
    OBVIOUS
  <2>1. Below(i) \in SUBSET Below(k) /\ i \in Below(k) /\ i \notin Below(i)
    <3>1. i \in Int /\ k \in Int /\ \A j \in S : j \in Int
      OBVIOUS
    <3>2. \A j \in S : j < i => j < k
      BY <3>1
    <3>3. ~(i < i)
      BY <3>1
    <3>4. Below(i) \subseteq Below(k)
      BY <3>2
    <3> QED
      BY <3>3, <3>4
  <2>2. IsFiniteSet(Below(k)) /\ Cardinality(Below(k)) \in Nat
    BY <1>2
  <2>3. Cardinality(Below(i)) <= Cardinality(Below(k)) /\ Cardinality(Below(i)) # Cardinality(Below(k))
    BY <2>1, <2>2, FS_Subset, Zenon
  <2> HIDE DEF Below
  <2> QED
    BY <2>2, <2>3, <1>2
<1>4. f \in Injection(S, 0..(c - 1))
  <2>1. f \in [S -> 0..(c - 1)]
    BY <1>2
  <2>2. \A i, k \in S : f[i] = f[k] => i = k
    <3> SUFFICES ASSUME NEW i \in S, NEW k \in S, i # k PROVE f[i] # f[k]
      OBVIOUS
    <3>1. f[i] = Cardinality(Below(i)) /\ f[k] = Cardinality(Below(k))
      OBVIOUS
    <3>2. Cardinality(Below(i)) \in Nat /\ Cardinality(Below(k)) \in Nat
      BY <1>1, <1>2
    <3> HIDE DEF Below, f
    <3>3. CASE i < k
      BY <3>1, <3>2, <3>3, <1>3
    <3>4. CASE k < i
      BY <3>1, <3>2, <3>4, <1>3
    <3> QED
      BY <3>3, <3>4
  <2> QED
    BY <2>1, <2>2 DEF Injection, IsInjective
<1>5. IsFiniteSet(0..(c - 1)) /\ Cardinality(0..(c - 1)) = c
  <2> HIDE DEF c
  <2> QED
    BY <1>1, FS_Interval
<1>6. f \in Surjection(S, 0..(c - 1))
  BY <1>4, <1>5, FS_Injection, Zenon
<1>7. PICK i \in S : f[i] = n - 1
  <2>1. n - 1 \in 0..(c - 1)
    <3>1. n \in 1..c
      OBVIOUS
    <3> HIDE DEF c
    <3> QED
      BY <1>1, <3>1
  <2> HIDE DEF f, c
  <2> QED
    BY <2>1, <1>6 DEF Surjection
<1>8. Cardinality({j \in S : j < i}) = n - 1
  BY <1>7
<1> QED
  BY <1>8 DEF Nth

(* What a project gives can be counted.                                    *)
LEMMA ProjectFacts ==
  ASSUME NEW p \in Projects
  PROVE  /\ IsFiniteSet(p.tests)
         /\ Filtered(p) \in SUBSET Int /\ IsFiniteSet(Filtered(p))
         /\ Reasons(p) \in SUBSET Int /\ IsFiniteSet(Reasons(p))
<1>1. /\ p.tests \subseteq Tests /\ p.reason \in [Tests -> Int]
      /\ p.profiles \in Seq([name : STRING, filter : STRING])
  BY ProjectsAssumption
<1>2. IsFiniteSet(p.tests)
  BY <1>1, FS_Subset, ProjectsAssumption
<1>3. Filtered(p) \in SUBSET Int /\ IsFiniteSet(Filtered(p))
  <2>1. DOMAIN p.profiles = 1..Len(p.profiles) /\ Len(p.profiles) \in Nat
    BY <1>1
  <2>2. IsFiniteSet(1..Len(p.profiles))
    BY <2>1, FS_Interval
  <2>3. Filtered(p) \in SUBSET (1..Len(p.profiles))
    BY <2>1 DEF Filtered
  <2> QED
    BY <2>1, <2>2, <2>3, FS_Subset
<1>4. Reasons(p) \in SUBSET Int /\ IsFiniteSet(Reasons(p))
  <2> DEFINE all == {p.reason[t] : t \in p.tests}
             f == [t \in p.tests |-> p.reason[t]]
  <2>1. f \in Surjection(p.tests, all)
    BY DEF Surjection
  <2>2. IsFiniteSet(all)
    BY <1>2, <2>1, FS_Surjection
  <2>3. Reasons(p) \in SUBSET all
    BY DEF Reasons
  <2>4. all \in SUBSET Int
    BY <1>1
  <2> QED
    BY <2>2, <2>3, <2>4, FS_Subset
<1> QED
  BY <1>2, <1>3, <1>4

(* A preset is of a profile with a filter or of tests ignored for a reason.*)
LEMMA PresetFacts ==
  ASSUME NEW p \in Projects
  PROVE  /\ Len(Presets(p)) \in Nat /\ DOMAIN Presets(p) = 1..Len(Presets(p))
         /\ \A i \in DOMAIN Presets(p) :
              \/ /\ Presets(p)[i].kind = "filterset" /\ Presets(p)[i].expression \in STRING
                 /\ Presets(p)[i].tests = {}
              \/ /\ Presets(p)[i].kind = "ignored" /\ Presets(p)[i].expression = ""
                 /\ Presets(p)[i].tests \subseteq p.tests
                 /\ \A t \in Presets(p)[i].tests : p.reason[t] # None
<1> DEFINE m == Cardinality(Filtered(p))
           n == Cardinality(Reasons(p))
           F == [i \in 1..m |-> FilterPreset(p, i)]
           R == [i \in 1..n |-> ReasonPreset(p, i)]
           FilterKind == [kind : {"filterset"}, expression : STRING, tests : {{}}]
           ReasonKind == {r \in [kind : {"ignored"}, expression : {""}, tests : SUBSET p.tests] :
                            \A t \in r.tests : p.reason[t] # None}
<1>1. m \in Nat /\ n \in Nat
  BY ProjectFacts, FS_CardinalityType
<1>2. \A i \in 1..m : FilterPreset(p, i) \in FilterKind
  <2> SUFFICES ASSUME NEW i \in 1..m PROVE FilterPreset(p, i) \in FilterKind
    OBVIOUS
  <2>1. Nth(Filtered(p), i) \in Filtered(p)
    BY ProjectFacts, NthIsThere
  <2>2. p.profiles[Nth(Filtered(p), i)].filter \in STRING
    <3>1. p.profiles \in Seq([name : STRING, filter : STRING])
      BY ProjectsAssumption
    <3>2. Nth(Filtered(p), i) \in DOMAIN p.profiles
      BY <2>1 DEF Filtered
    <3>3. p.profiles[Nth(Filtered(p), i)] \in [name : STRING, filter : STRING]
      BY <3>1, <3>2, ElementOf, Zenon
    <3> QED
      BY <3>3
  <2> QED
    BY <2>2 DEF FilterPreset
<1>3. \A i \in 1..n : ReasonPreset(p, i) \in ReasonKind
  <2> SUFFICES ASSUME NEW i \in 1..n PROVE ReasonPreset(p, i) \in ReasonKind
    OBVIOUS
  <2>1. Nth(Reasons(p), i) \in Reasons(p)
    BY ProjectFacts, NthIsThere
  <2>2. Nth(Reasons(p), i) # None
    BY <2>1 DEF Reasons
  <2> QED
    BY <2>2 DEF ReasonPreset
<1> HIDE DEF m, n, FilterKind, ReasonKind
<1>4. F \in Seq(FilterKind \union ReasonKind) /\ Len(F) = m
  BY <1>1, <1>2
<1>5. R \in Seq(FilterKind \union ReasonKind) /\ Len(R) = n
  BY <1>1, <1>3
<1>6. Presets(p) = F \o R
  BY DEF Presets, m, n
<1> HIDE DEF F, R
<1>7. Presets(p) \in Seq(FilterKind \union ReasonKind)
  BY <1>4, <1>5, <1>6
<1>8. /\ Len(Presets(p)) \in Nat /\ DOMAIN Presets(p) = 1..Len(Presets(p))
      /\ \A i \in DOMAIN Presets(p) : Presets(p)[i] \in FilterKind \union ReasonKind
  BY <1>7
<1> QED
  BY <1>8 DEF FilterKind, ReasonKind

-----------------------------------------------------------------------------
LEMMA Minus ==
  ASSUME NEW d \in Int, d + 1 = 0
  PROVE  -d = 1
OBVIOUS

(* wrap_index                                                              *)
LEMMA WrappedIs ==
  ASSUME NEW count \in Nat \ {0}, NEW i \in 1..count
  PROVE  /\ Wrapped(i, count, 1) = IF i = count THEN 1 ELSE i + 1
         /\ Wrapped(i, count, -1) = IF i = 1 THEN count ELSE i - 1
<1>1. \A a \in 0..(count - 1) : (a + count) % count = a /\ a % count = a
  OBVIOUS
<1>2. ASSUME i = count PROVE Wrapped(i, count, 1) = 1
  <2>1. i - 1 + count + 1 = 0 + count + count
    BY <1>2
  <2>2. (0 + count + count) % count = 0
    OBVIOUS
  <2> QED
    BY <2>1, <2>2 DEF Wrapped
<1>3. ASSUME i # count PROVE Wrapped(i, count, 1) = i + 1
  <2>1. i - 1 + count + 1 = i + count /\ i \in 0..(count - 1)
    BY <1>3
  <2> QED
    BY <2>1, <1>1 DEF Wrapped
<1>4. ASSUME i = 1 PROVE Wrapped(i, count, -1) = count
  <2>1. i - 1 + count + (-1) = count - 1 /\ count - 1 \in 0..(count - 1)
    BY <1>4
  <2> QED
    BY <2>1, <1>1 DEF Wrapped
<1>5. ASSUME i # 1 PROVE Wrapped(i, count, -1) = i - 1
  <2>1. i - 1 + count + (-1) = (i - 2) + count /\ i - 2 \in 0..(count - 1)
    BY <1>5
  <2> QED
    BY <2>1, <1>1 DEF Wrapped
<1> QED
  BY <1>2, <1>3, <1>4, <1>5

LEMMA WrappedFacts ==
  ASSUME NEW count \in Nat \ {0}, NEW i \in 1..count, NEW delta \in {-1, 1}
  PROVE  /\ Wrapped(i, count, delta) \in 1..count
         /\ Wrapped(Wrapped(i, count, delta), count, -delta) = i
<1>1. CASE delta = 1
  <2>1. Wrapped(i, count, 1) = (IF i = count THEN 1 ELSE i + 1) /\ Wrapped(i, count, 1) \in 1..count
    BY WrappedIs
  <2>2. Wrapped(Wrapped(i, count, 1), count, -1)
          = IF Wrapped(i, count, 1) = 1 THEN count ELSE Wrapped(i, count, 1) - 1
    BY <2>1, WrappedIs, Zenon
  <2> QED
    BY <1>1, <2>1, <2>2
<1>2. CASE delta = -1
  <2>1. Wrapped(i, count, -1) = (IF i = 1 THEN count ELSE i - 1) /\ Wrapped(i, count, -1) \in 1..count
    BY WrappedIs
  <2>2. Wrapped(Wrapped(i, count, -1), count, 1)
          = IF Wrapped(i, count, -1) = count THEN 1 ELSE Wrapped(i, count, -1) + 1
    BY <2>1, WrappedIs, Zenon
  <2>3. -delta = 1
    <3>1. delta \in Int /\ delta + 1 = 0
      BY <1>2
    <3> QED
      BY <3>1, Minus, Zenon
  <2> QED
    BY <1>2, <2>1, <2>2, <2>3
<1> QED
  BY <1>1, <1>2

-----------------------------------------------------------------------------
(* The invariant.                                                          *)
FieldNames == {"scope", "profile", "filterset", "ignored", "retries", "flaky", "failFast",
               "maxFail", "noCapture", "debugger", "stressCount", "stressDuration"}

\* What an edit may leave in a field.
Texts == Expressions \union STRING
Debuggers == {"", "rust-lldb --args", "rust-gdb --args", "gdb -batch"}
Durations == {"", "30s", "1h"}

\* A filter is a preset that there is, or a text.
Filters ==
  [kind : {"none"}, index : {1}, text : {""}]
    \union [kind : {"preset"}, index : DOMAIN config.presets, text : {""}]
    \union [kind : {"custom"}, index : {1}, text : Texts]

Values ==
  [scope : {"selected", "workspace", "failed"}, profile : DOMAIN config.profiles,
   filterset : Filters, ignored : {"default", "only", "all"}, retries : Int,
   flaky : {"profile", "pass", "fail"}, failFast : {"profile", "on", "off"}, maxFail : Int,
   noCapture : BOOLEAN, debugger : Debuggers, stressCount : Int, stressDuration : Durations]

Input ==
  CASE field = "filterset" -> input \in Texts \union {""}
    [] field = "debugger" -> input \in Debuggers
    [] field = "stressDuration" -> input \in Durations
    [] OTHER -> input \in Int

CInv ==
  /\ project \in Projects /\ config = Config(project)
  /\ panel \in {"closed", "open", "editing"} /\ field \in FieldNames
  /\ values \in Values
  /\ panel = "editing" => field \in Editable /\ Input
  /\ selected \in {"workspace"} \union project.tests
  /\ failed \subseteq project.tests /\ admitted \subseteq project.tests
  /\ running \in BOOLEAN /\ (~running => admitted = {})

-----------------------------------------------------------------------------
(* The arrows.                                                             *)

\* A field that goes round has one place for each of its values.
Round(c) ==
  /\ Len(c) \in Nat \ {0} /\ DOMAIN c = 1..Len(c)
  /\ \A i, j \in DOMAIN c : c[i] = c[j] => i = j

LEMMA CyclesAreRound == \A f \in DOMAIN Cycle : Round(Cycle[f])
<1> SUFFICES ASSUME NEW f \in DOMAIN Cycle PROVE Round(Cycle[f])
  OBVIOUS
<1>1. f \in {"scope", "ignored", "flaky", "failFast", "noCapture"}
  BY DEF Cycle
<1>2. CASE f = "scope"
  BY <1>2 DEF Cycle, Round
<1>3. CASE f = "ignored"
  BY <1>3 DEF Cycle, Round
<1>4. CASE f = "flaky"
  BY <1>4 DEF Cycle, Round
<1>5. CASE f = "failFast"
  BY <1>5 DEF Cycle, Round
<1>6. CASE f = "noCapture"
  <2> DEFINE c == Cycle["noCapture"]
  <2>1. c = <<FALSE, TRUE>>
    BY DEF Cycle
  <2>2. Len(c) = 2 /\ DOMAIN c = 1..2 /\ c[1] = FALSE /\ c[2] = TRUE
    BY <2>1
  <2>3. c[1] # c[2]
    BY <2>2, Zenon
  <2> HIDE DEF c
  <2>4. \A i, j \in DOMAIN c : c[i] = c[j] => i = j
    <3> SUFFICES ASSUME NEW i \in DOMAIN c, NEW j \in DOMAIN c, i # j PROVE c[i] # c[j]
      OBVIOUS
    <3>1. (i = 1 /\ j = 2) \/ (i = 2 /\ j = 1)
      BY <2>2
    <3> QED
      BY <3>1, <2>3
  <2>5. Len(c) \in Nat \ {0} /\ DOMAIN c = 1..Len(c)
    BY <2>2
  <2>6. Round(c)
    BY <2>4, <2>5 DEF Round
  <2> QED
    BY <1>6, <2>6 DEF c
<1> QED
  BY <1>1, <1>2, <1>3, <1>4, <1>5, <1>6

LEMMA InCycleFacts ==
  ASSUME NEW f \in DOMAIN Cycle, NEW at \in DOMAIN Cycle[f], NEW delta \in {-1, 1}
  PROVE  /\ \E i \in DOMAIN Cycle[f] : InCycle(f, Cycle[f][at], delta) = Cycle[f][i]
         /\ InCycle(f, InCycle(f, Cycle[f][at], delta), -delta) = Cycle[f][at]
<1> DEFINE c == Cycle[f]
<1>1. Round(c)
  BY CyclesAreRound
<1>2. \A d : \A i \in DOMAIN c : InCycle(f, c[i], d) = c[Wrapped(i, Len(c), d)]
  <2> SUFFICES ASSUME NEW d, NEW i \in DOMAIN c
               PROVE  InCycle(f, c[i], d) = c[Wrapped(i, Len(c), d)]
    OBVIOUS
  <2>1. (CHOOSE k \in DOMAIN c : c[k] = c[i]) = i
    BY <1>1 DEF Round
  <2> QED
    BY <2>1, Zenon DEF InCycle
<1>3. /\ Wrapped(at, Len(c), delta) \in DOMAIN c
      /\ Wrapped(Wrapped(at, Len(c), delta), Len(c), -delta) = at
  <2> HIDE DEF c
  <2>1. Len(c) \in Nat \ {0} /\ DOMAIN c = 1..Len(c)
    BY <1>1 DEF Round
  <2>2. at \in 1..Len(c)
    BY <2>1 DEF c
  <2> QED
    BY <2>1, <2>2, WrappedFacts, Zenon
<1>4. InCycle(f, c[at], delta) = c[Wrapped(at, Len(c), delta)]
  BY <1>2, Zenon
<1>5. InCycle(f, c[Wrapped(at, Len(c), delta)], -delta) = c[at]
  BY <1>2, <1>3, Zenon
<1> QED
  BY <1>3, <1>4, <1>5, Zenon

LEMMA NumberFacts ==
  ASSUME NEW v \in Int, NEW top \in Nat, NEW delta \in {-1, 1}
  PROVE  /\ NumberAdjusted(v, top, delta) \in Int
         /\ v \in {None} \union 0..top =>
              /\ NumberAdjusted(v, top, delta) \in {None} \union 0..top
              /\ NumberAdjusted(NumberAdjusted(v, top, delta), top, -delta) = v
<1>1. CASE delta = 1
  BY <1>1 DEF NumberAdjusted, None
<1>2. CASE delta = -1
  <2>1. -delta = 1
    <3>1. delta \in Int /\ delta + 1 = 0
      BY <1>2
    <3> QED
      BY <3>1, Minus, Zenon
  <2> QED
    BY <1>2, <2>1 DEF NumberAdjusted, None
<1> QED
  BY <1>1, <1>2

\* What a configuration is made of can be counted.
LEMMA ProfilesAre ==
  ASSUME NEW p \in Projects
  PROVE  /\ Len(p.profiles) \in Nat \ {0} /\ DOMAIN p.profiles = 1..Len(p.profiles)
         /\ Len(Presets(p)) \in Nat /\ DOMAIN Presets(p) = 1..Len(Presets(p))
<1>1. p.profiles \in Seq([name : STRING, filter : STRING]) /\ Len(p.profiles) > 0
  BY ProjectsAssumption
<1>2. Len(p.profiles) \in Nat \ {0} /\ DOMAIN p.profiles = 1..Len(p.profiles)
  BY <1>1
<1> QED
  BY <1>2, PresetFacts

LEMMA ConfigFacts ==
  ASSUME project \in Projects, config = Config(project)
  PROVE  /\ Len(config.profiles) \in Nat \ {0} /\ DOMAIN config.profiles = 1..Len(config.profiles)
         /\ Len(config.presets) \in Nat /\ DOMAIN config.presets = 1..Len(config.presets)
BY ProfilesAre DEF Config

\* What adjust_filter offers: no filter, then the presets.
Offer(k) == IF k = 1 THEN NoFilter ELSE Preset(k - 1)

LEMMA FilterIs ==
  ASSUME NEW n \in Nat, n = Len(config.presets), NEW k \in 1..(n + 1), NEW delta \in {-1, 1}
  PROVE  /\ Wrapped(k, n + 1, delta) \in 1..(n + 1)
         /\ Wrapped(Wrapped(k, n + 1, delta), n + 1, -delta) = k
         /\ FilterAdjusted(Offer(k), delta) = Offer(Wrapped(k, n + 1, delta))
<1>1. n + 1 \in Nat \ {0} /\ 1 + n + 0 = n + 1
  OBVIOUS
<1>2. /\ Wrapped(k, n + 1, delta) \in 1..(n + 1)
      /\ Wrapped(Wrapped(k, n + 1, delta), n + 1, -delta) = k
  BY <1>1, WrappedFacts
<1> DEFINE j == Wrapped(k, n + 1, delta)
<1>3. j \in 1..(1 + n)
  BY <1>2
<1>4. CASE k = 1
  <2>1. Offer(k) = NoFilter /\ NoFilter.kind = "none"
    BY <1>4 DEF Offer, NoFilter
  <2>2. FilterAdjusted(NoFilter, delta)
          = IF j = 1 THEN NoFilter ELSE IF j <= 1 + n THEN Preset(j - 1) ELSE NoFilter
    <3> HIDE DEF j
    <3>1. j = Wrapped(1, 1 + n + 0, delta)
      BY <1>1, <1>4 DEF j
    <3> QED
      BY <2>1, <3>1 DEF FilterAdjusted
  <2> HIDE DEF j
  <2>3. FilterAdjusted(Offer(k), delta) = Offer(j)
    BY <1>3, <2>1, <2>2 DEF Offer
  <2> QED
    BY <1>2, <2>3 DEF j
<1>5. CASE k # 1
  <2>1. /\ Offer(k) = Preset(k - 1) /\ Preset(k - 1).kind = "preset"
        /\ Preset(k - 1).index = k - 1 /\ 1 + (k - 1) = k
    BY <1>5 DEF Offer, Preset
  <2>2. FilterAdjusted(Preset(k - 1), delta)
          = IF j = 1 THEN NoFilter ELSE IF j <= 1 + n THEN Preset(j - 1) ELSE Preset(k - 1)
    <3> HIDE DEF j
    <3> DEFINE u == Preset(k - 1)
    <3>1. u.kind = "preset" /\ 1 + u.index = k
      BY <2>1
    <3>2. j = Wrapped(k, 1 + n + 0, delta)
      BY <1>1 DEF j
    <3> HIDE DEF u
    <3>3. FilterAdjusted(u, delta)
            = IF j = 1 THEN NoFilter ELSE IF j <= 1 + n THEN Preset(j - 1) ELSE u
      BY <3>1, <3>2 DEF FilterAdjusted
    <3> QED
      BY <3>3 DEF u
  <2> HIDE DEF j
  <2>3. FilterAdjusted(Offer(k), delta) = Offer(j)
    BY <1>3, <2>1, <2>2 DEF Offer
  <2> QED
    BY <1>2, <2>3 DEF j
<1> QED
  BY <1>4, <1>5

LEMMA FilterFacts ==
  ASSUME project \in Projects, config = Config(project),
         NEW v \in Filters, NEW delta \in {-1, 1}
  PROVE  /\ FilterAdjusted(v, delta) \in Filters
         /\ v.kind # "custom" => FilterAdjusted(FilterAdjusted(v, delta), -delta) = v
<1>1. PICK n \in Nat : n = Len(config.presets) /\ DOMAIN config.presets = 1..n
  BY ConfigFacts
<1>2. ASSUME NEW k \in 1..(n + 1) PROVE Offer(k) \in Filters
  <2>1. CASE k = 1
    BY <2>1 DEF NoFilter, Filters, Offer
  <2>2. CASE k # 1
    <3>1. k - 1 \in DOMAIN config.presets
      BY <1>1, <2>2
    <3> QED
      BY <2>2, <3>1 DEF Preset, Filters, Offer
  <2> QED
    BY <2>1, <2>2
<1>3. ASSUME NEW u \in Filters, u.kind # "custom"
      PROVE  \E k \in 1..(n + 1) : u = Offer(k)
  <2>1. CASE u.kind = "none"
    <3>1. u = NoFilter
      BY <2>1 DEF Filters, NoFilter
    <3> QED
      BY <3>1, <1>1 DEF Offer
  <2>2. CASE u.kind = "preset"
    <3>1. u = Preset(u.index) /\ u.index \in 1..n
      BY <2>2, <1>1 DEF Filters, Preset
    <3>2. u.index + 1 \in 1..(n + 1) /\ u.index + 1 # 1 /\ (u.index + 1) - 1 = u.index
      BY <3>1, <1>1
    <3> QED
      BY <3>1, <3>2 DEF Offer
  <2> QED
    BY <1>3, <2>1, <2>2 DEF Filters
<1>4. CASE v.kind = "custom"
  <2>1. Wrapped(2 + n, 1 + n + 1, delta) \in 1..(1 + n + 1)
    <3>1. 1 + n + 1 \in Nat \ {0} /\ 2 + n \in 1..(1 + n + 1)
      OBVIOUS
    <3> QED
      BY <3>1, WrappedFacts
  <2>2. FilterAdjusted(v, delta) = v \/ \E k \in 1..(n + 1) : FilterAdjusted(v, delta) = Offer(k)
    <3> DEFINE next == Wrapped(2 + n, 1 + n + 1, delta)
    <3>1. next \in Int
      BY <2>1
    <3> HIDE DEF next
    <3>2. FilterAdjusted(v, delta)
            = IF next = 1 THEN NoFilter ELSE IF next <= 1 + n THEN Preset(next - 1) ELSE v
      BY <1>1, <1>4 DEF FilterAdjusted, next
    <3>3. CASE next = 1
      BY <3>2, <3>3 DEF Offer
    <3>4. CASE next # 1 /\ next <= 1 + n
      <4>1. next \in 1..(n + 1)
        BY <2>1, <3>4 DEF next
      <4> QED
        BY <3>2, <3>4, <4>1 DEF Offer
    <3>5. CASE next # 1 /\ ~(next <= 1 + n)
      BY <3>2, <3>5
    <3> QED
      BY <3>3, <3>4, <3>5
  <2> QED
    BY <1>2, <1>4, <2>2
<1>5. CASE v.kind # "custom"
  <2>1. PICK k \in 1..(n + 1) : v = Offer(k)
    BY <1>3, <1>5
  <2>2. PICK j \in 1..(n + 1) : /\ FilterAdjusted(Offer(k), delta) = Offer(j)
                                /\ Wrapped(j, n + 1, -delta) = k
    BY <1>1, FilterIs
  <2>3. -delta \in {-1, 1}
    <3>1. CASE delta = -1
      <4>1. delta \in Int /\ delta + 1 = 0
        BY <3>1
      <4> QED
        BY <4>1, Minus
    <3> QED
      BY <3>1
  <2>4. FilterAdjusted(Offer(j), -delta) = Offer(k)
    BY <1>1, <2>2, <2>3, FilterIs
  <2> QED
    BY <1>2, <2>1, <2>2, <2>4
<1> QED
  BY <1>4, <1>5

LEMMA RoundFacts ==
  ASSUME NEW f \in DOMAIN Cycle, NEW delta \in {-1, 1},
         NEW v \in {Cycle[f][i] : i \in DOMAIN Cycle[f]}
  PROVE  /\ AdjustedValue(f, v, delta) \in {Cycle[f][i] : i \in DOMAIN Cycle[f]}
         /\ AdjustedValue(f, AdjustedValue(f, v, delta), -delta) = v
<1>1. PICK at \in DOMAIN Cycle[f] : v = Cycle[f][at]
  OBVIOUS
<1>2. \A u, d : AdjustedValue(f, u, d) = InCycle(f, u, d)
  <2>1. f \in {"scope", "ignored", "flaky", "failFast", "noCapture"}
    BY DEF Cycle
  <2>2. f \notin {"profile", "filterset", "debugger", "stressDuration"} /\ f \notin DOMAIN Top
    BY <2>1, ProjectsAssumption
  <2> QED
    BY <2>2 DEF AdjustedValue
<1>3. \E i \in DOMAIN Cycle[f] : InCycle(f, Cycle[f][at], delta) = Cycle[f][i]
  BY InCycleFacts, Zenon
<1>4. InCycle(f, InCycle(f, Cycle[f][at], delta), -delta) = Cycle[f][at]
  BY InCycleFacts, Zenon
<1>5. AdjustedValue(f, v, delta) = InCycle(f, Cycle[f][at], delta)
  BY <1>1, <1>2, Zenon
<1>6. AdjustedValue(f, AdjustedValue(f, v, delta), -delta)
        = InCycle(f, InCycle(f, Cycle[f][at], delta), -delta)
  BY <1>2, <1>5, Zenon
<1> QED
  BY <1>1, <1>3, <1>4, <1>5, <1>6, Zenon

\* The values that each field may have, and those that arrows give back.
ValueSet(f) ==
  CASE f \in DOMAIN Cycle -> {Cycle[f][i] : i \in DOMAIN Cycle[f]}
    [] f = "profile" -> DOMAIN config.profiles
    [] f = "filterset" -> Filters
    [] f = "debugger" -> Debuggers
    [] f = "stressDuration" -> Durations
    [] OTHER -> Int

LEMMA CycleSets ==
  /\ DOMAIN Cycle = {"scope", "ignored", "flaky", "failFast", "noCapture"}
  /\ {Cycle["scope"][i] : i \in DOMAIN Cycle["scope"]} = {"selected", "workspace", "failed"}
  /\ {Cycle["ignored"][i] : i \in DOMAIN Cycle["ignored"]} = {"default", "only", "all"}
  /\ {Cycle["flaky"][i] : i \in DOMAIN Cycle["flaky"]} = {"profile", "pass", "fail"}
  /\ {Cycle["failFast"][i] : i \in DOMAIN Cycle["failFast"]} = {"profile", "on", "off"}
  /\ {Cycle["noCapture"][i] : i \in DOMAIN Cycle["noCapture"]} = BOOLEAN
<1>1. DOMAIN Cycle = {"scope", "ignored", "flaky", "failFast", "noCapture"}
  BY DEF Cycle
<1>2. ASSUME NEW c, NEW u, NEW v, NEW w, c = <<u, v, w>>
      PROVE  {c[i] : i \in DOMAIN c} = {u, v, w}
  <2>1. DOMAIN c = {1, 2, 3} /\ c[1] = u /\ c[2] = v /\ c[3] = w
    BY <1>2
  <2> QED
    BY <2>1, Zenon
<1>3. {<<FALSE, TRUE>>[i] : i \in DOMAIN <<FALSE, TRUE>>} = BOOLEAN
  <2> DEFINE c == <<FALSE, TRUE>>
  <2>1. DOMAIN c = {1, 2} /\ c[1] = FALSE /\ c[2] = TRUE
    OBVIOUS
  <2> HIDE DEF c
  <2>2. {c[i] : i \in DOMAIN c} = {FALSE, TRUE}
    BY <2>1, Zenon
  <2> QED
    BY <2>2, Zenon DEF c
<1>4. /\ Cycle["scope"] = <<"selected", "workspace", "failed">>
      /\ Cycle["ignored"] = <<"default", "only", "all">>
      /\ Cycle["flaky"] = <<"profile", "pass", "fail">>
      /\ Cycle["failFast"] = <<"profile", "on", "off">>
      /\ Cycle["noCapture"] = <<FALSE, TRUE>>
  BY DEF Cycle
<1>5. {Cycle["scope"][i] : i \in DOMAIN Cycle["scope"]} = {"selected", "workspace", "failed"}
  <2>1. Cycle["scope"] = <<"selected", "workspace", "failed">>
    BY <1>4
  <2> QED
    BY <2>1, <1>2
<1>6. {Cycle["ignored"][i] : i \in DOMAIN Cycle["ignored"]} = {"default", "only", "all"}
  <2>1. Cycle["ignored"] = <<"default", "only", "all">>
    BY <1>4
  <2> QED
    BY <2>1, <1>2
<1>7. {Cycle["flaky"][i] : i \in DOMAIN Cycle["flaky"]} = {"profile", "pass", "fail"}
  <2>1. Cycle["flaky"] = <<"profile", "pass", "fail">>
    BY <1>4
  <2> QED
    BY <2>1, <1>2
<1>8. {Cycle["failFast"][i] : i \in DOMAIN Cycle["failFast"]} = {"profile", "on", "off"}
  <2>1. Cycle["failFast"] = <<"profile", "on", "off">>
    BY <1>4
  <2> QED
    BY <2>1, <1>2
<1>9. {Cycle["noCapture"][i] : i \in DOMAIN Cycle["noCapture"]} = BOOLEAN
  BY <1>3, <1>4, Zenon
<1> QED
  BY <1>1, <1>5, <1>6, <1>7, <1>8, <1>9, Zenon

\* A record of the values of the fields, field by field.
LEMMA ValuesAre ==
  /\ \A vs \in Values : \A f \in FieldNames : vs[f] \in ValueSet(f)
  /\ \A vs \in Values : \A f \in FieldNames : \A v \in ValueSet(f) :
       /\ [vs EXCEPT ![f] = v] \in Values
       /\ [vs EXCEPT ![f] = v][f] = v
       /\ \A g \in FieldNames \ {f} : [vs EXCEPT ![f] = v][g] = vs[g]
       /\ [[vs EXCEPT ![f] = v] EXCEPT ![f] = vs[f]] = vs
PROOF
<1>1. /\ ValueSet("scope") = {"selected", "workspace", "failed"}
      /\ ValueSet("ignored") = {"default", "only", "all"}
      /\ ValueSet("flaky") = {"profile", "pass", "fail"}
      /\ ValueSet("failFast") = {"profile", "on", "off"}
      /\ ValueSet("noCapture") = BOOLEAN
      /\ ValueSet("profile") = DOMAIN config.profiles /\ ValueSet("filterset") = Filters
      /\ ValueSet("debugger") = Debuggers /\ ValueSet("stressDuration") = Durations
      /\ ValueSet("retries") = Int /\ ValueSet("maxFail") = Int /\ ValueSet("stressCount") = Int
  BY CycleSets DEF ValueSet
<1>2. /\ \A vs \in Values : DOMAIN vs = FieldNames /\ vs = [f \in FieldNames |-> vs[f]]
      /\ \A vs : vs \in Values <=> vs = [f \in FieldNames |-> vs[f]] /\ \A f \in FieldNames : vs[f] \in ValueSet(f)
  BY <1>1 DEF Values, FieldNames
<1> QED
  BY <1>2

\* An arrow leads from a value of a field to another, and the opposite one back.
LEMMA ArrowFacts ==
  ASSUME project \in Projects, config = Config(project),
         NEW f \in FieldNames, NEW v \in ValueSet(f), NEW delta \in {-1, 1}
  PROVE  /\ AdjustedValue(f, v, delta) \in ValueSet(f)
         /\ Reachable(f, v) => AdjustedValue(f, AdjustedValue(f, v, delta), -delta) = v
<1>1. /\ DOMAIN Cycle = {"scope", "ignored", "flaky", "failFast", "noCapture"}
      /\ DOMAIN Top = {"retries", "maxFail", "stressCount"}
  BY CycleSets, ProjectsAssumption
<1>2. CASE f \in DOMAIN Cycle
  <2>1. ValueSet(f) = {Cycle[f][i] : i \in DOMAIN Cycle[f]}
    BY <1>1, <1>2 DEF ValueSet
  <2> QED
    BY <1>2, <2>1, RoundFacts, Zenon
<1>3. CASE f = "profile"
  <2>1. \A u, d : AdjustedValue(f, u, d) = Wrapped(u, Len(config.profiles), d)
    BY <1>1, <1>3 DEF AdjustedValue
  <2>2. v \in 1..Len(config.profiles) /\ ValueSet(f) = 1..Len(config.profiles)
    BY <1>1, <1>3, ConfigFacts DEF ValueSet
  <2>3. Len(config.profiles) \in Nat \ {0}
    BY ConfigFacts
  <2>4. /\ Wrapped(v, Len(config.profiles), delta) \in 1..Len(config.profiles)
        /\ Wrapped(Wrapped(v, Len(config.profiles), delta), Len(config.profiles), -delta) = v
    BY <2>2, <2>3, WrappedFacts
  <2> QED
    BY <2>1, <2>2, <2>4, Zenon
<1>4. CASE f = "filterset"
  <2>1. \A u, d : AdjustedValue(f, u, d) = FilterAdjusted(u, d)
    BY <1>1, <1>4 DEF AdjustedValue
  <2>2. ValueSet(f) = Filters
    BY <1>1, <1>4 DEF ValueSet
  <2>3. Reachable(f, v) => v.kind # "custom"
    BY <1>1, <1>4 DEF Reachable
  <2>4. /\ FilterAdjusted(v, delta) \in Filters
        /\ v.kind # "custom" => FilterAdjusted(FilterAdjusted(v, delta), -delta) = v
    BY <2>2, FilterFacts, Zenon
  <2> QED
    BY <2>1, <2>2, <2>3, <2>4, Zenon
<1>5. CASE f \in DOMAIN Top
  <2>1. \A u, d : AdjustedValue(f, u, d) = NumberAdjusted(IF u = Word THEN None ELSE u, Top[f], d)
    BY <1>1, <1>5 DEF AdjustedValue
  <2>2. ValueSet(f) = Int
    BY <1>1, <1>5 DEF ValueSet
  <2>3. Reachable(f, v) => v \in {None} \union 0..Top[f]
    BY <1>1, <1>5 DEF Reachable
  <2>4. Top[f] \in Nat
    BY <1>5, <1>1, ProjectsAssumption
  <2>5. \A u : u \in {None} \union 0..Top[f] => u # Word
    BY <2>4 DEF None, Word
  <2> DEFINE u == IF v = Word THEN None ELSE v
  <2>6. u \in Int
    BY <2>2 DEF None
  <2>7. AdjustedValue(f, v, delta) = NumberAdjusted(u, Top[f], delta)
    BY <2>1
  <2> HIDE DEF u
  <2>8. AdjustedValue(f, v, delta) \in Int
    BY <2>4, <2>6, <2>7, NumberFacts
  <2>9. ASSUME Reachable(f, v)
        PROVE  AdjustedValue(f, AdjustedValue(f, v, delta), -delta) = v
    <3>1. u = v /\ v \in {None} \union 0..Top[f]
      BY <2>3, <2>5, <2>9 DEF u
    <3>2. NumberAdjusted(v, Top[f], delta) \in {None} \union 0..Top[f]
      BY <2>4, <2>6, <3>1, NumberFacts
    <3>3. NumberAdjusted(NumberAdjusted(v, Top[f], delta), Top[f], -delta) = v
      BY <2>4, <2>6, <3>1, NumberFacts
    <3>4. NumberAdjusted(v, Top[f], delta) # Word
      BY <2>5, <3>2
    <3> QED
      BY <2>1, <2>7, <3>1, <3>3, <3>4, Zenon
  <2> QED
    BY <2>2, <2>8, <2>9
<1>6. CASE f = "debugger"
  <2>1. \A u, d : AdjustedValue(f, u, d) = IF u = "" THEN DefaultDebugger ELSE ""
    BY <1>1, <1>6 DEF AdjustedValue
  <2>2. ValueSet(f) = Debuggers /\ DefaultDebugger \in Debuggers /\ DefaultDebugger # "" /\ "" \in Debuggers
    BY <1>1, <1>6 DEF ValueSet, Debuggers, DefaultDebugger
  <2>3. Reachable(f, v) => v \in {"", DefaultDebugger}
    BY <1>1, <1>6 DEF Reachable
  <2> QED
    BY <2>1, <2>2, <2>3
<1>7. CASE f = "stressDuration"
  <2>1. \A u, d : AdjustedValue(f, u, d) = IF u = "" THEN "30s" ELSE ""
    BY <1>1, <1>7 DEF AdjustedValue
  <2>2. ValueSet(f) = {"", "30s", "1h"}
    BY <1>1, <1>7 DEF ValueSet, Durations
  <2>3. Reachable(f, v) => v \in {"", "30s"}
    BY <1>1, <1>7 DEF Reachable
  <2> QED
    BY <2>1, <2>2, <2>3
<1> QED
  BY <1>1, <1>2, <1>3, <1>4, <1>5, <1>6, <1>7 DEF FieldNames

LEMMA AdjustedFacts ==
  ASSUME project \in Projects, config = Config(project),
         NEW vs \in Values, NEW f \in FieldNames, NEW delta \in {-1, 1}
  PROVE  /\ Adjusted(vs, f, delta) \in Values
         /\ Reachable(f, vs[f]) => Adjusted(Adjusted(vs, f, delta), f, -delta) = vs
<1> DEFINE w == AdjustedValue(f, vs[f], delta)
<1>1. vs[f] \in ValueSet(f)
  BY ValuesAre, Zenon
<1>2. w \in ValueSet(f) /\ (Reachable(f, vs[f]) => AdjustedValue(f, w, -delta) = vs[f])
  BY <1>1, ArrowFacts, Zenon
<1> HIDE DEF w
<1>3. /\ [vs EXCEPT ![f] = w] \in Values /\ [vs EXCEPT ![f] = w][f] = w
      /\ [[vs EXCEPT ![f] = w] EXCEPT ![f] = vs[f]] = vs
  BY <1>2, ValuesAre
<1>4. Adjusted(vs, f, delta) = [vs EXCEPT ![f] = w]
  BY Zenon DEF Adjusted, w
<1>5. Adjusted(Adjusted(vs, f, delta), f, -delta)
        = [[vs EXCEPT ![f] = w] EXCEPT ![f] = AdjustedValue(f, w, -delta)]
  BY <1>3, <1>4, Zenon DEF Adjusted
<1> QED
  BY <1>2, <1>3, <1>4, <1>5, Zenon

-----------------------------------------------------------------------------
(* The request.                                                            *)

\* The scopes that the panel shows are of tests there are.
LEMMA ScopeFacts ==
  ASSUME CInv
  PROVE  LET scope == Scopes[values.scope]
         IN /\ scope.tests \subseteq project.tests
            /\ scope.kind \in {"Workspace", "Test", "Failed"}
            /\ scope.kind = "Test" => scope.tests = {selected} /\ values.scope = "selected"
<1>1. /\ values.scope \in {"selected", "workspace", "failed"}
      /\ selected \in {"workspace"} \union project.tests /\ failed \subseteq project.tests
  BY DEF CInv, Values
<1>2. CASE values.scope = "selected"
  <2>1. Scopes[values.scope] = SelectedScope
    BY <1>2 DEF Scopes
  <2>2. CASE selected = "workspace"
    <3>1. SelectedScope = [kind |-> "Workspace", tests |-> project.tests]
      BY <2>2 DEF SelectedScope
    <3> QED
      BY <2>1, <3>1
  <2>3. CASE selected # "workspace"
    <3>1. SelectedScope = [kind |-> "Test", tests |-> {selected}]
      BY <2>3 DEF SelectedScope
    <3> QED
      BY <1>1, <1>2, <2>1, <2>3, <3>1
  <2> QED
    BY <2>2, <2>3
<1>3. CASE values.scope = "workspace"
  <2>1. Scopes[values.scope] = [kind |-> "Workspace", tests |-> project.tests]
    BY <1>3 DEF Scopes
  <2> QED
    BY <2>1
<1>4. CASE values.scope = "failed"
  <2>1. Scopes[values.scope] = [kind |-> "Failed", tests |-> failed]
    BY <1>4 DEF Scopes
  <2> QED
    BY <2>1, <1>1
<1> QED
  BY <1>1, <1>2, <1>3, <1>4

\* Either the scope shown, or the tests of a preset, which are ignored.
LEMMA ChosenFacts ==
  ASSUME CInv
  PROVE  LET c == Chosen(values)
         IN /\ c = [scope |-> c.scope, options |-> c.options]
            /\ [c.options EXCEPT !.ignored = "only"].ignored = "only"
            /\ c.options.rest = Options(values).rest
            /\ \/ c.scope = Scopes[values.scope] /\ c.options.ignored = values.ignored
               \/ /\ c.scope.kind = "TestSet" /\ c.options.ignored = "only"
                  /\ c.scope.tests \subseteq project.tests
                  /\ \A t \in c.scope.tests : Ignored(t)
<1> DEFINE f == values.filterset
           asShown == [scope |-> Scopes[values.scope], options |-> Options(values)]
<1>1. asShown.options.ignored = values.ignored
  BY DEF Options
<1>2. CASE f.kind # "preset"
  <2>1. Chosen(values) = asShown
    BY <1>2 DEF Chosen
  <2>2. [Options(values) EXCEPT !.ignored = "only"].ignored = "only"
    BY DEF Options
  <2> QED
    BY <2>1, <2>2, <1>1
<1>3. CASE f.kind = "preset"
  <2> DEFINE preset == config.presets[f.index]
  <2>1. project \in Projects /\ config.presets = Presets(project) /\ f.index \in DOMAIN config.presets
    BY <1>3 DEF CInv, Config, Values, Filters
  <2>0. preset = Presets(project)[f.index] /\ f.index \in DOMAIN Presets(project)
    BY <2>1
  <2>2. \/ preset.kind = "filterset"
        \/ /\ preset.kind = "ignored" /\ preset.tests \subseteq project.tests
           /\ \A t \in preset.tests : project.reason[t] # None
    <3> HIDE DEF preset, f
    <3> QED
      BY <2>0, <2>1, PresetFacts
  <2>3. CASE preset.kind = "filterset"
    <3>1. Chosen(values) = [asShown EXCEPT !.options.filterset = preset.expression]
      BY <1>3, <2>3 DEF Chosen
    <3>2. /\ Chosen(values).scope = Scopes[values.scope]
          /\ Chosen(values).options = [Options(values) EXCEPT !.filterset = preset.expression]
      BY <3>1
    <3>3. /\ Chosen(values).options.rest = Options(values).rest
          /\ Chosen(values).options.ignored = values.ignored
          /\ [Chosen(values).options EXCEPT !.ignored = "only"].ignored = "only"
      BY <3>2 DEF Options
    <3>4. Chosen(values) = [scope |-> Chosen(values).scope, options |-> Chosen(values).options]
      BY <3>1
    <3> QED
      BY <3>2, <3>3, <3>4
  <2>4. CASE preset.kind = "ignored"
    <3>1. Chosen(values) = [asShown EXCEPT
            !.scope = [kind |-> "TestSet", tests |-> preset.tests],
            !.options.ignored = "only"]
      BY <1>3, <2>4 DEF Chosen
    <3>2. /\ Chosen(values).scope = [kind |-> "TestSet", tests |-> preset.tests]
          /\ Chosen(values).options = [Options(values) EXCEPT !.ignored = "only"]
      BY <3>1
    <3>3. /\ Chosen(values).options.rest = Options(values).rest
          /\ Chosen(values).options.ignored = "only"
          /\ [Chosen(values).options EXCEPT !.ignored = "only"].ignored = "only"
      BY <3>2 DEF Options
    <3>4. Chosen(values) = [scope |-> Chosen(values).scope, options |-> Chosen(values).options]
      BY <3>1
    <3> QED
      BY <2>2, <2>4, <3>2, <3>3, <3>4 DEF Ignored
  <2> QED
    BY <2>2, <2>3, <2>4
<1> QED
  BY <1>2, <1>3

\* custom_run_request changes only how ignored tests are taken.
LEMMA RequestIs ==
  LET c == Chosen(values)
      asked == /\ values.scope = "selected" /\ c.scope.kind = "Test"
               /\ c.options.ignored = "default" /\ Ignored(selected)
  IN /\ asked => Request(values) = [c EXCEPT !.options.ignored = "only"]
     /\ ~asked => Request(values) = c
BY DEF Request

LEMMA RequestFacts ==
  ASSUME CInv
  PROVE  LET r == Request(values)
         IN /\ r.scope = Chosen(values).scope
            /\ \/ r.options.ignored = Chosen(values).options.ignored
               \/ r.options.ignored = "only" /\ r.scope.kind = "Test" /\ Ignored(selected)
            /\ /\ r.scope.kind = "Test" /\ Ignored(selected)
               /\ Chosen(values).options.ignored = "default"
               => r.options.ignored = "only"
            /\ r.scope.tests \subseteq project.tests
<1> DEFINE c == Chosen(values)
           asked == /\ values.scope = "selected" /\ c.scope.kind = "Test"
                    /\ c.options.ignored = "default" /\ Ignored(selected)
<1>1. c.scope.tests \subseteq project.tests
  BY ChosenFacts, ScopeFacts
<1>2. c.scope.kind = "Test" => values.scope = "selected"
  BY ChosenFacts, ScopeFacts
<1>3. /\ c = [scope |-> c.scope, options |-> c.options]
      /\ [c.options EXCEPT !.ignored = "only"].ignored = "only"
  BY ChosenFacts
<1>4. CASE asked
  <2>1. Request(values) = [c EXCEPT !.options.ignored = "only"]
    BY <1>4, RequestIs
  <2> HIDE DEF c
  <2>2. /\ Request(values).scope = c.scope
        /\ Request(values).options = [c.options EXCEPT !.ignored = "only"]
    BY <1>3, <2>1
  <2> QED
    BY <1>1, <1>3, <1>4, <2>2 DEF c
<1>5. CASE ~asked
  <2>1. Request(values) = c
    BY <1>5, RequestIs
  <2> QED
    BY <1>1, <1>2, <1>5, <2>1
<1> QED
  BY <1>4, <1>5

-----------------------------------------------------------------------------
(* What the invariant implies.                                             *)
LEMMA FieldsAre == Range(Fields) = FieldNames
<1>1. /\ DOMAIN Fields = 1..12 /\ Fields[1] = "scope" /\ Fields[2] = "profile"
      /\ Fields[3] = "filterset" /\ Fields[4] = "ignored" /\ Fields[5] = "retries"
      /\ Fields[6] = "flaky" /\ Fields[7] = "failFast" /\ Fields[8] = "maxFail"
      /\ Fields[9] = "noCapture" /\ Fields[10] = "debugger" /\ Fields[11] = "stressCount"
      /\ Fields[12] = "stressDuration"
  BY DEF Fields
<1>2. \A i \in 1..12 : Fields[i] \in FieldNames
  BY <1>1 DEF FieldNames
<1>3. \A f \in FieldNames : \E i \in 1..12 : Fields[i] = f
  BY <1>1 DEF FieldNames
<1> QED
  BY <1>1, <1>2, <1>3 DEF Range

LEMMA TypesAre == CInv => TypeOK
<1> SUFFICES ASSUME CInv PROVE TypeOK
  OBVIOUS
<1>1. Range(Fields) = FieldNames
  BY FieldsAre
<1>2. /\ values.profile \in DOMAIN config.profiles
      /\ values.filterset.kind = "preset" => values.filterset.index \in DOMAIN config.presets
  BY DEF CInv, Values, Filters
<1> QED
  BY <1>1, <1>2 DEF CInv, TypeOK

LEMMA KnownTests == CInv => RequestsKnownTests
BY RequestFacts DEF RequestsKnownTests

LEMMA OneTest == CInv => WatchesOneTest
<1> SUFFICES ASSUME CInv, Accepted(values), Watched(Options(values))
             PROVE  /\ Request(values).scope.kind = "Test"
                    /\ Request(values).scope.tests = {selected}
  BY DEF WatchesOneTest
<1>1. Watched(Chosen(values).options)
  BY ChosenFacts DEF Watched
<1>2. Chosen(values).scope.kind = "Test"
  BY <1>1 DEF Accepted
<1>3. Chosen(values).scope = Scopes[values.scope]
  BY <1>2, ChosenFacts
<1> QED
  BY <1>2, <1>3, ScopeFacts, RequestFacts

LEMMA NamedRun == CInv => NamedTestsRun
<1> DEFINE r == Request(values)
<1> SUFFICES ASSUME CInv, values.ignored = "default", r.scope.kind \in {"Test", "TestSet"}
             PROVE  Admits(r) = r.scope.tests
  BY DEF NamedTestsRun
<1>1. CASE r.scope.kind = "Test"
  <2>1. r.scope = Scopes[values.scope] /\ Chosen(values).options.ignored = "default"
    BY <1>1, ChosenFacts, RequestFacts
  <2>2. r.scope.tests = {selected}
    BY <1>1, <2>1, ScopeFacts
  <2>3. \/ Ignored(selected) /\ r.options.ignored = "only"
        \/ ~Ignored(selected) /\ r.options.ignored = "default"
    BY <1>1, <2>1, RequestFacts
  <2> HIDE DEF r
  <2> QED
    BY <2>2, <2>3 DEF Admits
<1>2. CASE r.scope.kind = "TestSet"
  <2>1. r.options.ignored = "only" /\ \A t \in r.scope.tests : Ignored(t)
    BY <1>2, ChosenFacts, ScopeFacts, RequestFacts
  <2> HIDE DEF r
  <2> QED
    BY <2>1 DEF Admits
<1> QED
  BY <1>1, <1>2

LEMMA Undo == CInv => ArrowsUndo
<1> SUFFICES ASSUME CInv, Reachable(field, values[field]), NEW delta \in {-1, 1}
             PROVE  Adjusted(Adjusted(values, field, delta), field, -delta) = values
  BY DEF ArrowsUndo
<1> QED
  BY AdjustedFacts DEF CInv

\* A request depends on what is chosen and on the scope that is shown.
LEMMA SameRequest ==
  ASSUME NEW vs, Chosen(vs) = Chosen(values), vs.scope = values.scope
  PROVE  Request(vs) = Request(values) /\ Accepted(vs) = Accepted(values)
<1>1. Request(vs) = Request(values)
  BY Zenon DEF Request
<1>2. Accepted(vs) = Accepted(values)
  BY Zenon DEF Accepted
<1> QED
  BY <1>1, <1>2

LEMMA Confirming == CInv => ConfirmingKeepsRequest
<1> DEFINE f == values.filterset
           vs == Committed(values, field, EditValue(values, field))
<1> SUFFICES ASSUME CInv, field \in Editable,
                    ~(field = "filterset" /\ f.kind = "preset"
                        /\ config.presets[f.index].kind = "ignored")
             PROVE  Request(vs) = Request(values) /\ Accepted(vs) = Accepted(values)
  BY Zenon DEF ConfirmingKeepsRequest
<1>1. values \in Values /\ field \in FieldNames /\ f \in Filters
  BY DEF CInv, Values
<1>2. CASE field # "filterset"
  <2>1. vs = [values EXCEPT ![field] = values[field]]
    BY <1>2 DEF Committed, EditValue
  <2>2. vs = values
    BY <1>1, <2>1 DEF Values
  <2> QED
    BY <2>2, SameRequest
<1>3. CASE field = "filterset"
  <2> DEFINE preset == config.presets[f.index]
             text == EditValue(values, field)
             g == IF text = "" THEN NoFilter ELSE Custom(text)
  <2>1. vs = [values EXCEPT !.filterset = g]
    BY <1>3 DEF Committed
  <2>2. g.kind # "preset" /\ (IF g.kind = "custom" THEN g.text ELSE "") = text
    BY DEF NoFilter, Custom
  <2> HIDE DEF g
  <2>3. /\ vs.filterset = g /\ vs.scope = values.scope /\ vs.ignored = values.ignored
        /\ vs.profile = values.profile /\ vs.retries = values.retries /\ vs.flaky = values.flaky
        /\ vs.failFast = values.failFast /\ vs.maxFail = values.maxFail
        /\ vs.noCapture = values.noCapture /\ vs.debugger = values.debugger
        /\ vs.stressCount = values.stressCount /\ vs.stressDuration = values.stressDuration
    BY <1>1, <2>1 DEF Values
  <2> HIDE DEF vs
  <2>4. Options(vs) = [Options(values) EXCEPT !.filterset = text]
    <3>1. Options(vs).rest = Options(values).rest
      BY <2>3 DEF Options
    <3>2. Options(vs).filterset = text
      BY <2>2, <2>3 DEF Options
    <3>3. Options(vs).profile = Options(values).profile /\ Options(vs).ignored = Options(values).ignored
      BY <2>3 DEF Options
    <3>4. \A us : Options(us) = [profile |-> Options(us).profile, filterset |-> Options(us).filterset,
                                 ignored |-> Options(us).ignored, rest |-> Options(us).rest]
      BY DEF Options
    <3>5. [Options(values) EXCEPT !.filterset = text]
            = [profile |-> Options(values).profile, filterset |-> text,
               ignored |-> Options(values).ignored, rest |-> Options(values).rest]
      <4>1. \A o, x : o = [profile |-> o.profile, filterset |-> o.filterset,
                          ignored |-> o.ignored, rest |-> o.rest]
              => [o EXCEPT !.filterset = x] = [profile |-> o.profile, filterset |-> x,
                                               ignored |-> o.ignored, rest |-> o.rest]
        OBVIOUS
      <4> HIDE DEF text
      <4> QED
        BY <3>4, <4>1, Zenon
    <3> HIDE DEF text
    <3> QED
      BY <3>1, <3>2, <3>3, <3>4, <3>5
  <2>5. Chosen(vs) = [scope |-> Scopes[values.scope], options |-> Options(vs)]
    BY <2>2, <2>3 DEF Chosen
  <2>6. CASE f.kind = "preset"
    <3>1. f.index \in DOMAIN config.presets /\ project \in Projects /\ config.presets = Presets(project)
      BY <1>1, <2>6 DEF Filters, CInv, Config
    <3>2. preset.kind = "filterset"
      <4>1. preset = Presets(project)[f.index] /\ f.index \in DOMAIN Presets(project)
        BY <3>1
      <4>2. preset.kind # "ignored"
        BY <1>3, <2>6
      <4> HIDE DEF preset, f
      <4> QED
        BY <3>1, <4>1, <4>2, PresetFacts
    <3>3. text = preset.expression
      BY <1>3, <2>6 DEF EditValue
    <3>4. Chosen(values) = [[scope |-> Scopes[values.scope], options |-> Options(values)]
                              EXCEPT !.options.filterset = text]
      BY <2>6, <3>2, <3>3 DEF Chosen
    <3>5. Chosen(values) = [scope |-> Scopes[values.scope],
                            options |-> [Options(values) EXCEPT !.filterset = text]]
      BY <3>4
    <3> QED
      BY <2>3, <2>4, <2>5, <3>5, SameRequest
  <2>7. CASE f.kind # "preset"
    <3>1. text = f.text
      BY <1>3, <2>7 DEF EditValue
    <3>2. (IF f.kind = "custom" THEN f.text ELSE "") = text
      BY <1>1, <2>7, <3>1 DEF Filters
    <3>3. Options(values).filterset = text
      BY <3>2 DEF Options
    <3>4. [Options(values) EXCEPT !.filterset = text] = Options(values)
      BY <3>3 DEF Options
    <3>5. Chosen(values) = [scope |-> Scopes[values.scope], options |-> Options(values)]
      BY <2>7 DEF Chosen
    <3> QED
      BY <2>3, <2>4, <2>5, <3>4, <3>5, SameRequest
  <2> QED
    BY <2>6, <2>7
<1> QED
  BY <1>2, <1>3

LEMMA InvIsEnough == CInv => RequestInv
BY TypesAre, KnownTests, OneTest, NamedRun, Undo, Confirming DEF RequestInv

-----------------------------------------------------------------------------
(* The invariant is inductive.                                             *)
LEMMA InitHolds == Init => CInv
<1> SUFFICES ASSUME Init PROVE CInv
  OBVIOUS
<1>1. project \in Projects /\ config = Config(project)
  BY DEF Init
<1>2. 1 \in DOMAIN config.profiles
  BY <1>1, ConfigFacts
<1>3. NoFilter \in Filters
  BY DEF NoFilter, Filters
<1>4. values \in Values
  <2>1. values = Defaults
    BY DEF Init
  <2>a. "" \in Debuggers /\ "" \in Durations
    BY DEF Debuggers, Durations
  <2>b. None \in Int
    BY DEF None
  <2>2. Defaults \in Values
    BY <1>2, <1>3, <2>a, <2>b DEF Defaults, Values
  <2> QED
    BY <2>1, <2>2
<1>5. field \in FieldNames
  BY DEF Init, FieldNames
<1> QED
  BY <1>1, <1>4, <1>5 DEF Init, CInv

\* What the values are allowed to be depends on the configuration alone.
LEMMA SameConfig == config' = config => Values' = Values /\ Filters' = Filters
BY DEF Values, Filters

LEMMA SameInput == input' = input /\ field' = field => Input' = Input
BY DEF Input

\* A text that an edit leaves is one the field may have.
LEMMA EditFacts ==
  ASSUME CInv, NEW f \in Editable
  PROVE  /\ f = field => (f = "filterset" => EditValue(values, f) \in Texts \union {""})
         /\ f # "filterset" => EditValue(values, f) \in ValueSet(f)
<1>1. f \in FieldNames /\ values \in Values
  BY DEF Editable, FieldNames, CInv
<1>2. CASE f # "filterset"
  <2>1. EditValue(values, f) = values[f]
    BY <1>2 DEF EditValue
  <2>2. values[f] \in ValueSet(f)
    BY <1>1, ValuesAre, Zenon
  <2> QED
    BY <1>2, <2>1, <2>2
<1>3. CASE f = "filterset"
  <2> DEFINE u == values.filterset
             preset == config.presets[u.index]
  <2>1. u \in Filters
    BY <1>1 DEF Values
  <2>2. CASE u.kind = "preset"
    <3>1. preset = Presets(project)[u.index] /\ u.index \in DOMAIN Presets(project) /\ project \in Projects
      BY <2>1, <2>2 DEF Filters, CInv, Config
    <3>2. preset.expression \in STRING \/ preset.expression = ""
      <4> HIDE DEF preset, u
      <4> QED
        BY <3>1, PresetFacts
    <3>3. EditValue(values, f) = preset.expression
      BY <1>3, <2>2 DEF EditValue
    <3> QED
      BY <1>3, <3>2, <3>3 DEF Texts
  <2>3. CASE u.kind # "preset"
    <3>1. EditValue(values, f) = u.text
      BY <1>3, <2>3 DEF EditValue
    <3>2. u.text \in Texts \union {""}
      BY <2>1, <2>3 DEF Filters
    <3> QED
      BY <1>3, <3>1, <3>2
  <2> QED
    BY <2>2, <2>3
<1> QED
  BY <1>2, <1>3

LEMMA EditableSets ==
  /\ ValueSet("maxFail") = Int /\ ValueSet("stressCount") = Int
  /\ ValueSet("debugger") = Debuggers /\ ValueSet("stressDuration") = Durations
  /\ ValueSet("filterset") = Filters
BY CycleSets DEF ValueSet

\* The arrows and edits.
LEMMA ChangePreserves ==
  ASSUME CInv,
         \/ \E delta \in {-1, 1} : Adjust(delta)
         \/ Activate \/ EditInput \/ \E keep \in BOOLEAN : EndEdit(keep)
  PROVE  CInv'
<1>1. /\ project \in Projects /\ config = Config(project) /\ values \in Values
      /\ field \in FieldNames
  BY DEF CInv
<1>2. ASSUME NEW delta \in {-1, 1}, Adjust(delta) PROVE CInv'
  <2>1. values' \in Values
    BY <1>1, <1>2, AdjustedFacts DEF Adjust
  <2>2. config' = config /\ panel' = "open"
    BY <1>2 DEF Adjust, appVars
  <2> QED
    BY <1>1, <1>2, <2>1, <2>2, SameConfig DEF CInv, Adjust, appVars
<1>3. ASSUME Activate, field \in Editable PROVE CInv'
  <2>1. config' = config /\ field' = field /\ input' = EditValue(values, field)
    BY <1>3 DEF Activate, appVars
  <2>2. Input'
    <3>1. field = "filterset" => input' \in Texts \union {""}
      BY <1>3, <2>1, EditFacts
    <3>2. field # "filterset" => input' \in ValueSet(field)
      BY <1>3, <2>1, EditFacts
    <3> QED
      BY <1>3, <2>1, <3>1, <3>2, EditableSets DEF Input, Editable
  <2> QED
    BY <1>3, <2>1, <2>2, SameConfig DEF CInv, Activate, appVars
<1>4. ASSUME Activate, field \notin Editable PROVE CInv'
  <2>1. values' \in Values
    BY <1>1, <1>4, AdjustedFacts DEF Activate
  <2>2. config' = config /\ panel' = "open"
    BY <1>4 DEF Activate, appVars
  <2> QED
    BY <1>1, <1>4, <2>1, <2>2, SameConfig DEF CInv, Activate, appVars
<1>5. ASSUME EditInput PROVE CInv'
  <2>1. field \in Editable /\ field' = field /\ config' = config /\ input' \in Typed(field)
    BY <1>5 DEF CInv, EditInput, appVars
  <2>2. Input'
    <3>1. CASE field = "filterset"
      BY <2>1, <3>1 DEF Input, Typed, Texts
    <3>2. CASE field = "debugger"
      BY <2>1, <3>2 DEF Input, Typed, Debuggers
    <3>3. CASE field = "stressDuration"
      BY <2>1, <3>3 DEF Input, Typed, Durations
    <3>4. CASE field \in {"maxFail", "stressCount"}
      <4>1. Top[field] \in Nat
        BY <3>4, ProjectsAssumption
      <4>2. input' \in {None, Word, Top[field] + 1}
        BY <2>1, <3>4 DEF Typed
      <4>3. input' \in Int
        BY <4>1, <4>2 DEF None, Word
      <4> QED
        BY <2>1, <3>4, <4>3 DEF Input
    <3> QED
      BY <2>1, <3>1, <3>2, <3>3, <3>4 DEF Editable
  <2> QED
    BY <1>5, <2>1, <2>2, SameConfig DEF CInv, EditInput, appVars
<1>6. ASSUME NEW keep \in BOOLEAN, EndEdit(keep) PROVE CInv'
  <2>1. field \in Editable /\ Input /\ config' = config /\ panel' = "open"
    BY <1>6 DEF CInv, EndEdit, appVars
  <2> DEFINE v == IF field # "filterset" THEN input
                  ELSE IF input = "" THEN NoFilter ELSE Custom(input)
  <2>2. v \in ValueSet(field)
    <3>1. CASE field = "filterset"
      <4>1. input = "" \/ input \in Texts
        BY <2>1, <3>1 DEF Input
      <4>2. v \in Filters
        BY <3>1, <4>1 DEF Filters, NoFilter, Custom
      <4> QED
        BY <3>1, <4>2, EditableSets
    <3>2. CASE field # "filterset"
      BY <2>1, <3>2, EditableSets DEF Input, Editable
    <3> QED
      BY <3>1, <3>2
  <2> HIDE DEF v
  <2>3. [values EXCEPT ![field] = v] \in Values
    BY <1>1, <2>2, ValuesAre
  <2>4. values' \in Values
    BY <1>1, <1>6, <2>3 DEF EndEdit, Committed, v
  <2> QED
    BY <1>6, <2>1, <2>4, SameConfig DEF CInv, EndEdit, appVars
<1> QED
  BY <1>2, <1>3, <1>4, <1>5, <1>6

\* The cursor, and the panel.
LEMMA PanelPreserves ==
  ASSUME CInv,
         \/ Open \/ Close \/ \E delta \in {-1, 1} : MoveField(delta)
         \/ \E node \in {"workspace"} \union project.tests : Select(node)
  PROVE  CInv'
<1>1. ASSUME Open PROVE CInv'
  BY <1>1, SameConfig DEF CInv, Open, appVars, FieldNames
<1>2. ASSUME Close PROVE CInv'
  BY <1>2, SameConfig DEF CInv, Close, appVars
<1>3. ASSUME NEW delta \in {-1, 1}, MoveField(delta) PROVE CInv'
  <2>1. field' \in FieldNames
    <3> DEFINE at == CHOOSE i \in DOMAIN Fields : Fields[i] = field
    <3>1. field \in Range(Fields) /\ Range(Fields) = FieldNames
      BY FieldsAre DEF CInv
    <3>2. \E i \in DOMAIN Fields : Fields[i] = field
      BY <3>1 DEF Range
    <3>3. at \in DOMAIN Fields
      BY <3>2
    <3>4. Len(Fields) = 12 /\ DOMAIN Fields = 1..12
      BY DEF Fields
    <3> HIDE DEF at
    <3>5. Wrapped(at, 12, delta) \in 1..12
      <4>1. at \in 1..12 /\ 12 \in Nat \ {0}
        BY <3>3, <3>4
      <4> QED
        BY <4>1, WrappedFacts
    <3>6. field' = Fields[Wrapped(at, 12, delta)]
      BY <1>3, <3>4 DEF MoveField, at
    <3> QED
      BY <3>1, <3>4, <3>5, <3>6 DEF Range
  <2> QED
    BY <1>3, <2>1, SameConfig DEF CInv, MoveField, appVars
<1>4. ASSUME NEW node \in {"workspace"} \union project.tests, Select(node) PROVE CInv'
  BY <1>4, SameConfig DEF CInv, Select
<1> QED
  BY <1>1, <1>2, <1>3, <1>4

\* Runs: of tests that there are.
LEMMA RunPreserves ==
  ASSUME CInv, RunCustom \/ RunSelected \/ RunFinished
  PROVE  CInv'
<1>1. ASSUME RunCustom PROVE CInv'
  <2>1. admitted' \subseteq project.tests
    BY <1>1, RequestFacts DEF RunCustom, StartRun, Admits
  <2> QED
    BY <1>1, <2>1, SameConfig DEF CInv, RunCustom, StartRun
<1>2. ASSUME RunSelected PROVE CInv'
  <2>1. SelectedScope.tests \subseteq project.tests
    BY DEF SelectedScope, CInv
  <2>2. admitted' \subseteq project.tests
    BY <1>2, <2>1 DEF RunSelected, StartRun, Admits
  <2> QED
    BY <1>2, <2>2, SameConfig DEF CInv, RunSelected, StartRun
<1>3. ASSUME RunFinished PROVE CInv'
  <2>1. Input' = Input
    BY <1>3, SameInput DEF RunFinished
  <2> QED
    BY <1>3, <2>1, SameConfig DEF CInv, RunFinished
<1> QED
  BY <1>1, <1>2, <1>3

\* A discovery: what was chosen by index is still there, or is given up.
LEMMA DiscoveryPreserves ==
  ASSUME CInv, NEW p \in Projects, Discovered(p)
  PROVE  CInv'
<1> DEFINE c == Config(p)
           profile == IF values.profile > Len(c.profiles) THEN Len(c.profiles) ELSE values.profile
           filter == IF values.filterset.kind = "preset" /\ values.filterset.index > Len(c.presets)
                     THEN NoFilter ELSE values.filterset
<1>1. /\ project' = p /\ config' = Config(p) /\ panel' = "closed" /\ field' = field
      /\ selected' = "workspace" /\ failed' = {} /\ running' = running /\ admitted' = admitted
      /\ ~running
  BY DEF Discovered, UpdateRunConfig
<1>2. values' = [values EXCEPT !.profile = profile, !.filterset = filter]
  BY DEF Discovered, UpdateRunConfig
<1>3. /\ Len(c.profiles) \in Nat \ {0} /\ DOMAIN c.profiles = 1..Len(c.profiles)
      /\ Len(c.presets) \in Nat /\ DOMAIN c.presets = 1..Len(c.presets)
  BY ProfilesAre DEF Config
<1>4. values \in Values /\ values.profile \in Nat \ {0} /\ values.filterset \in Filters
  BY ConfigFacts DEF CInv, Values
<1>5. profile \in DOMAIN c.profiles
  <2> HIDE DEF c
  <2> QED
    BY <1>3, <1>4
<1>6. filter \in Filters'
  <2>1. CASE values.filterset.kind = "preset"
    <3> DEFINE f == values.filterset
    <3>1. f = Preset(f.index) /\ f.index \in DOMAIN config.presets
      BY <1>4, <2>1 DEF Filters, Preset
    <3>2. f.index \in Nat \ {0}
      <4>1. Len(config.presets) \in Nat /\ DOMAIN config.presets = 1..Len(config.presets)
        BY ConfigFacts DEF CInv
      <4> HIDE DEF f
      <4> QED
        BY <3>1, <4>1
    <3>3. CASE f.index > Len(c.presets)
      BY <2>1, <3>3 DEF Filters, NoFilter
    <3>4. CASE ~(f.index > Len(c.presets))
      <4>1. filter = f
        BY <3>4
      <4> HIDE DEF c, f, filter
      <4>2. f.index \in DOMAIN config'.presets
        BY <1>1, <1>3, <3>2, <3>4 DEF c
      <4>3. Preset(f.index) \in Filters'
        BY <4>2 DEF Filters, Preset
      <4> QED
        BY <3>1, <4>1, <4>3
    <3> QED
      BY <3>3, <3>4
  <2>2. CASE values.filterset.kind # "preset"
    BY <1>4, <2>2 DEF Filters
  <2> QED
    BY <2>1, <2>2
<1> HIDE DEF profile, filter
<1>7. values' \in Values'
  BY <1>1, <1>2, <1>4, <1>5, <1>6 DEF Values
<1> QED
  BY <1>1, <1>7 DEF CInv

LEMMA NextPreserves == CInv /\ [Next]_vars => CInv'
<1> SUFFICES ASSUME CInv, [Next]_vars PROVE CInv'
  OBVIOUS
<1>1. CASE UNCHANGED vars
  <2>1. Input' = Input /\ Values' = Values
    BY <1>1, SameInput, SameConfig DEF vars
  <2> QED
    BY <1>1, <2>1 DEF CInv, vars
<1>2. CASE Next
  BY <1>2, ChangePreserves, PanelPreserves, RunPreserves, DiscoveryPreserves DEF Next
<1> QED
  BY <1>1, <1>2

\* The request that is made is for tests that there are, a debugger or a
\* stress run for the one selected, the tests it names do run, and neither
\* arrows that undo one another nor an edit that changes nothing alter it.
THEOREM RequestIsAsShown == Spec => []RequestInv
<1>1. Spec => []CInv
  BY InitHolds, NextPreserves, PTL DEF Spec
<1> QED
  BY <1>1, InvIsEnough, PTL

=============================================================================
