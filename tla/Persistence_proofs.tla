------------------------- MODULE Persistence_proofs --------------------------
(***************************************************************************)
(* What the two files under ~/.nextdeck keep, for any number of processes, *)
(* whenever a process dies and the disk fails.                             *)
(***************************************************************************)
EXTENDS Persistence, SequenceTheorems, TLAPS

-----------------------------------------------------------------------------
(***************************************************************************)
(* The settings, for any range of widths, number of processes, length of a *)
(* batch and number of changes. That they are kept is proved for processes *)
(* that run one after the other; the width, also for those that overlap.   *)
(***************************************************************************)

(* A row of width keys has begun, or does when the resizes are handled.    *)
RowAhead(b) ==
  \E j \in 1..Len(b) :
    b[j] \in WidthKeys /\ \A k \in 1..j : b[k] \in WidthKeys \union {"resize"}

(* Why the width comes out as intended: before the last key of a row the   *)
(* pane still has the width that the row began with, and after it the one  *)
(* that the key asks for; between rows these are the same.                 *)
RowInv ==
  \A p \in running :
    LET w == settings[p].width IN
    IF modal[p] THEN w = intended[p] /\ w = base[p]
    ELSE IF RowAhead(batch[p]) THEN w = base[p] ELSE w = intended[p]

-----------------------------------------------------------------------------
LEMMA WidthIsInRange ==
  ASSUME SettingsAssumption, NEW w \in Int, NEW e
  PROVE  ClampTreeWidth(w) \in MinWidth..MaxWidth
         /\ ResizeTreeWidth(w, Delta(e)) \in MinWidth..MaxWidth
BY DEF SettingsAssumption, ClampTreeWidth, Clamp, ResizeTreeWidth, Delta

(* Settings in their ranges are stored as they are, and are no file that   *)
(* counts as none.                                                         *)
LEMMA NormalizedIsValid ==
  ASSUME SettingsAssumption
  PROVE  /\ \A s \in Stored : Normalized(s) \in Valid
         /\ \A s \in Valid : s \in Stored /\ Normalized(s) = s /\ s \notin {Torn, NoFile}
         /\ Default \in Valid
<1>1. ASSUME NEW s \in Stored PROVE Normalized(s) \in Valid
  BY <1>1, WidthIsInRange DEF SettingsAssumption, Stored, Valid, Normalized
<1>2. ASSUME NEW s \in Valid PROVE s \in Stored /\ Normalized(s) = s /\ s \notin {Torn, NoFile}
  <2>1. s \in Stored
    BY DEF SettingsAssumption, Stored, Valid
  <2>2. ClampTreeWidth(s.width) = s.width
    BY DEF SettingsAssumption, Valid, ClampTreeWidth, Clamp
  <2>3. Normalized(s) = s
    BY <2>2 DEF Normalized, Valid
  <2> QED
    BY <2>1, <2>3 DEF SettingsAssumption, Stored
<1>3. Default \in Valid
  BY DEF SettingsAssumption, Default, Value, Valid
<1> QED
  BY <1>1, <1>2, <1>3

LEMMA LoadIsValid ==
  ASSUME SettingsAssumption, SettingsTypeOK
  PROVE  Load(config) \in Valid
BY NormalizedIsValid DEF Load, SettingsTypeOK

LEMMA BatchIsSeq ==
  ASSUME SettingsAssumption, NEW b \in Batches
  PROVE  /\ b \in Seq(Events) /\ Len(b) \in 1..MaxBatch /\ b # <<>>
         /\ Head(b) = b[1] /\ Head(b) \in Events
         /\ Tail(b) \in Batches \union {<<>>}
         /\ Len(Tail(b)) = Len(b) - 1
         /\ \A i \in 1..Len(Tail(b)) : Tail(b)[i] = b[i + 1]
<1>1. PICK n \in 1..MaxBatch : b \in [1..n -> Events]
  BY DEF Batches
<1>2. n \in Nat \ {0} /\ MaxBatch \in Nat
  BY DEF SettingsAssumption
<1>3. b \in Seq(Events) /\ Len(b) = n
  BY <1>1, <1>2
<1>4. Head(b) = b[1] /\ Head(b) \in Events /\ Tail(b) \in Seq(Events) /\ Len(Tail(b)) = n - 1
      /\ \A i \in 1..Len(Tail(b)) : Tail(b)[i] = b[i + 1]
  BY <1>2, <1>3
<1>5. Tail(b) \in Batches \union {<<>>}
  <2> DEFINE t == Tail(b)
  <2>1. t \in Seq(Events) /\ Len(t) = n - 1
    BY <1>4
  <2>2. t \in [1..Len(t) -> Events]
    BY <2>1, LenProperties
  <2> HIDE DEF t
  <2>3. ASSUME n = 1 PROVE t \in Batches \union {<<>>}
    <3>1. t = <<>>
      BY <2>1, <2>3, EmptySeq
    <3> QED
      BY <3>1
  <2>4. ASSUME n # 1 PROVE t \in Batches \union {<<>>}
    <3>1. Len(t) \in 1..MaxBatch
      BY <1>2, <2>1, <2>4
    <3> QED
      BY <2>2, <3>1 DEF Batches
  <2>5. t \in Batches \union {<<>>}
    BY <2>3, <2>4
  <2> QED
    BY <2>5 DEF t
<1> QED
  BY <1>2, <1>3, <1>4, <1>5

(* A resize is passed over; a width key is in a row of its own; any other  *)
(* event ends the row.                                                     *)
LEMMA RowOfTail ==
  ASSUME SettingsAssumption, NEW b \in Batches
  PROVE  /\ Head(b) = "resize" => (RowAhead(b) <=> RowAhead(Tail(b)))
         /\ Head(b) \in WidthKeys => RowAhead(b)
         /\ Head(b) \notin WidthKeys \union {"resize"} => ~RowAhead(b)
<1> USE BatchIsSeq DEF RowAhead
<1>0. Len(b) \in Nat \ {0} /\ Len(Tail(b)) = Len(b) - 1 /\ Head(b) = b[1]
      /\ \A i \in 1..Len(Tail(b)) : Tail(b)[i] = b[i + 1]
  OBVIOUS
<1>1. ASSUME Head(b) = "resize", RowAhead(b) PROVE RowAhead(Tail(b))
  <2>1. PICK j \in 1..Len(b) :
          b[j] \in WidthKeys /\ \A k \in 1..j : b[k] \in WidthKeys \union {"resize"}
    BY <1>1
  <2>2. j # 1
    BY <1>0, <1>1, <2>1 DEF WidthKeys
  <2>3. j - 1 \in 1..Len(Tail(b)) /\ Tail(b)[j - 1] = b[j]
    BY <1>0, <2>1, <2>2
  <2>4. \A k \in 1..(j - 1) : Tail(b)[k] \in WidthKeys \union {"resize"}
    BY <1>0, <2>1, <2>3
  <2> QED
    BY <2>1, <2>3, <2>4
<1>2. ASSUME Head(b) = "resize", RowAhead(Tail(b)) PROVE RowAhead(b)
  <2>1. PICK j \in 1..Len(Tail(b)) :
          Tail(b)[j] \in WidthKeys /\ \A k \in 1..j : Tail(b)[k] \in WidthKeys \union {"resize"}
    BY <1>2
  <2>2. j + 1 \in 1..Len(b) /\ b[j + 1] \in WidthKeys
    BY <1>0, <2>1
  <2>3. ASSUME NEW k \in 1..(j + 1) PROVE b[k] \in WidthKeys \union {"resize"}
    <3>1. CASE k = 1
      BY <1>0, <1>2, <3>1
    <3>2. CASE k # 1
      <4>1. k - 1 \in 1..j /\ k - 1 \in 1..Len(Tail(b)) /\ (k - 1) + 1 = k
        BY <2>1, <3>2, <1>0
      <4>2. Tail(b)[k - 1] = b[k]
        BY <1>0, <4>1
      <4> QED
        BY <2>1, <4>1, <4>2
    <3> QED
      BY <3>1, <3>2
  <2> QED
    BY <2>2, <2>3
<1>3. ASSUME Head(b) \in WidthKeys PROVE RowAhead(b)
  <2>1. 1 \in 1..Len(b) /\ b[1] \in WidthKeys /\ \A k \in 1..1 : b[k] \in WidthKeys
    BY <1>0, <1>3
  <2> QED
    BY <2>1
<1>4. ASSUME Head(b) \notin WidthKeys \union {"resize"} PROVE ~RowAhead(b)
  <2>1. \A j \in 1..Len(b) : 1 \in 1..j
    BY <1>0
  <2> QED
    BY <1>0, <1>4, <2>1
<1> QED
  BY <1>1, <1>2, <1>3, <1>4

(* A width key is skipped exactly when its row goes on.                    *)
LEMMA SkipsWithinRow ==
  ASSUME SettingsAssumption, NEW p \in Processes, batch[p] \in Batches,
         ~modal[p], Head(batch[p]) \in WidthKeys
  PROVE  ShouldSkip(p) <=> RowAhead(Tail(batch[p]))
<1> DEFINE b == batch[p]
           class(i) == LatestOnly(p, b[i])
<1>0. /\ Len(b) \in Nat \ {0} /\ Len(Tail(b)) = Len(b) - 1 /\ Head(b) = b[1]
      /\ \A i \in 1..Len(Tail(b)) : Tail(b)[i] = b[i + 1]
  BY BatchIsSeq
<1>1. /\ class(1) = "TestsPaneWidth"
      /\ \A i : class(i) = "TestsPaneWidth" <=> b[i] \in WidthKeys
      /\ \A i : class(i) # "None" <=> b[i] \in WidthKeys \union {"resize"}
  BY <1>0 DEF LatestOnly, WidthKeys
<1>2. ShouldSkip(p) <=>
        \E j \in 2..Len(b) : b[j] \in WidthKeys /\ \A k \in 2..j : b[k] \in WidthKeys \union {"resize"}
  BY <1>1 DEF ShouldSkip
<1>3. ASSUME NEW j \in 2..Len(b), b[j] \in WidthKeys,
             \A k \in 2..j : b[k] \in WidthKeys \union {"resize"}
      PROVE  RowAhead(Tail(b))
  <2>1. j - 1 \in 1..Len(Tail(b)) /\ Tail(b)[j - 1] \in WidthKeys
    BY <1>0, <1>3
  <2>2. \A k \in 1..(j - 1) : Tail(b)[k] \in WidthKeys \union {"resize"}
    BY <1>0, <1>3
  <2> QED
    BY <2>1, <2>2 DEF RowAhead
<1>4. ASSUME RowAhead(Tail(b))
      PROVE  \E j \in 2..Len(b) :
               b[j] \in WidthKeys /\ \A k \in 2..j : b[k] \in WidthKeys \union {"resize"}
  <2>1. PICK j \in 1..Len(Tail(b)) :
          Tail(b)[j] \in WidthKeys /\ \A k \in 1..j : Tail(b)[k] \in WidthKeys \union {"resize"}
    BY <1>4 DEF RowAhead
  <2>2. j + 1 \in 2..Len(b) /\ b[j + 1] \in WidthKeys
    BY <1>0, <2>1
  <2>3. ASSUME NEW k \in 2..(j + 1) PROVE b[k] \in WidthKeys \union {"resize"}
    <3>1. k - 1 \in 1..j /\ k - 1 \in 1..Len(Tail(b)) /\ (k - 1) + 1 = k
      BY <1>0, <2>1
    <3>2. Tail(b)[k - 1] = b[k]
      BY <1>0, <3>1
    <3> QED
      BY <2>1, <3>1, <3>2
  <2> QED
    BY <2>2, <2>3
<1> QED
  BY <1>2, <1>3, <1>4
-----------------------------------------------------------------------------
(* The steps, one by one: the types and the rows.                          *)
WidthInv == SettingsTypeOK /\ RowInv

LEMMA NoRowInNothing == ~RowAhead(<<>>)
<1>1. 1..Len(<<>>) = {}
  OBVIOUS
<1> QED
  BY <1>1 DEF RowAhead

\* Only what belongs to one process has changed.
LEMMA OthersKeepRows ==
  ASSUME WidthInv, NEW p \in Processes,
         settings' \in [Processes -> Valid], modal' \in [Processes -> BOOLEAN],
         \A q \in running' \ {p} :
           /\ q \in running
           /\ settings'[q] = settings[q] /\ modal'[q] = modal[q] /\ batch'[q] = batch[q]
           /\ intended'[q] = intended[q] /\ base'[q] = base[q],
         p \in running' =>
           IF modal'[p] THEN settings'[p].width = intended'[p] /\ settings'[p].width = base'[p]
           ELSE IF RowAhead(batch'[p]) THEN settings'[p].width = base'[p]
                ELSE settings'[p].width = intended'[p]
  PROVE  RowInv'
<1> SUFFICES ASSUME NEW q \in running'
             PROVE  IF modal'[q] THEN settings'[q].width = intended'[q] /\ settings'[q].width = base'[q]
                    ELSE IF RowAhead(batch'[q]) THEN settings'[q].width = base'[q]
                         ELSE settings'[q].width = intended'[q]
  BY DEF RowInv, RowAhead
<1>1. CASE q = p
  BY <1>1
<1>2. CASE q # p
  BY <1>2 DEF WidthInv, RowInv
<1> QED
  BY <1>1, <1>2

LEMMA HoldsKeeps ==
  ASSUME SettingsAssumption, WidthInv, NEW p \in Processes, NEW s \in Valid, Holds(p, s),
         running' \in {running \union {p}, running \ {p}},
         config' \in Stored \union {Torn, NoFile}
  PROVE  WidthInv'
<1>1. /\ settings' = [settings EXCEPT ![p] = s] /\ applied' = [applied EXCEPT ![p] = s.theme]
      /\ modal' = [modal EXCEPT ![p] = FALSE] /\ selected' = [selected EXCEPT ![p] = "theme"]
      /\ batch' = [batch EXCEPT ![p] = <<>>]
      /\ behind' = [behind EXCEPT ![p] = FALSE]
      /\ intended' = [intended EXCEPT ![p] = s.width] /\ base' = [base EXCEPT ![p] = s.width]
      /\ UNCHANGED <<home, writable, changes>>
  BY DEF Holds
<1>2. s.width \in MinWidth..MaxWidth /\ s.theme \in Themes
  BY DEF Valid
<1>3. SettingsTypeOK'
  <2>1. /\ settings' \in [Processes -> Valid] /\ applied' \in [Processes -> Themes]
        /\ intended' \in [Processes -> MinWidth..MaxWidth] /\ base' \in [Processes -> MinWidth..MaxWidth]
    BY <1>1, <1>2 DEF WidthInv, SettingsTypeOK
  <2>2. /\ modal' \in [Processes -> BOOLEAN] /\ behind' \in [Processes -> BOOLEAN]
    BY <1>1, Zenon DEF WidthInv, SettingsTypeOK
  <2>3. /\ selected' \in [Processes -> {"width", "theme"}]
        /\ batch' \in [Processes -> Batches \union {<<>>}]
    BY <1>1 DEF WidthInv, SettingsTypeOK
  <2>4. home' \in BOOLEAN /\ writable' \in BOOLEAN
    BY <1>1, Zenon DEF WidthInv, SettingsTypeOK
  <2>5. running' \subseteq Processes /\ changes' \in 0..MaxChanges
    BY <1>1 DEF WidthInv, SettingsTypeOK
  <2> QED
    BY <2>1, <2>2, <2>3, <2>4, <2>5 DEF SettingsTypeOK, Valid, Batches, Stored, Events
<1>4. RowInv'
  <2>1. \A q \in running' \ {p} :
           /\ q \in running
           /\ settings'[q] = settings[q] /\ modal'[q] = modal[q] /\ batch'[q] = batch[q]
           /\ intended'[q] = intended[q] /\ base'[q] = base[q]
    BY <1>1 DEF WidthInv, SettingsTypeOK
  <2>2. /\ modal'[p] = FALSE /\ batch'[p] = <<>>
        /\ settings'[p].width = intended'[p] /\ settings'[p].width = base'[p]
    BY <1>1 DEF WidthInv, SettingsTypeOK
  <2>3. settings' \in [Processes -> Valid] /\ modal' \in [Processes -> BOOLEAN]
    BY <1>3 DEF SettingsTypeOK, Valid
  <2> QED
    BY <2>1, <2>2, <2>3, NoRowInNothing, OthersKeepRows
<1> QED
  BY <1>3, <1>4 DEF WidthInv

LEMMA LaunchKeeps ==
  ASSUME SettingsAssumption, WidthInv, NEW p \in Processes, Launch(p)
  PROVE  WidthInv'
<1>1. Load(config) \in Valid
  BY LoadIsValid DEF WidthInv
<1> QED
  BY <1>1, HoldsKeeps DEF Launch, WidthInv, SettingsTypeOK

LEMMA StopKeeps ==
  ASSUME SettingsAssumption, WidthInv, NEW p \in Processes, Die(p) \/ DieWriting(p)
  PROVE  WidthInv'
<1>1. Default \in Valid
  BY NormalizedIsValid
<1>2. Stops(p) /\ config' \in Stored \union {Torn, NoFile}
  BY DEF Die, DieWriting, WidthInv, SettingsTypeOK
<1> QED
  BY <1>1, <1>2, HoldsKeeps DEF Stops

LEMMA DrainKeeps ==
  ASSUME SettingsAssumption, WidthInv, NEW p \in Processes, NEW b \in Batches, Drain(p, b)
  PROVE  WidthInv'
<1>1. /\ p \in running /\ batch[p] = <<>>
      /\ batch' = [batch EXCEPT ![p] = b] /\ base' = [base EXCEPT ![p] = intended[p]]
      /\ UNCHANGED <<running, settings, applied, modal, selected, home, config, writable,
                     changes, behind, intended>>
  BY DEF Drain
<1>2. SettingsTypeOK'
  <2>1. batch' \in [Processes -> Batches \union {<<>>}] /\ base' \in [Processes -> MinWidth..MaxWidth]
    BY <1>1 DEF WidthInv, SettingsTypeOK
  <2> QED
    BY <1>1, <2>1 DEF WidthInv, SettingsTypeOK, Valid, Batches, Stored, Events
<1>3. RowInv'
  <2>1. settings[p].width = intended[p]
    BY <1>1, NoRowInNothing DEF WidthInv, RowInv
  <2>2. base'[p] = intended[p]
    BY <1>1 DEF WidthInv, SettingsTypeOK
  <2>3. \A q \in running' \ {p} : batch'[q] = batch[q] /\ base'[q] = base[q]
    BY <1>1 DEF WidthInv, SettingsTypeOK
  <2>4. settings' \in [Processes -> Valid] /\ modal' \in [Processes -> BOOLEAN]
    BY <1>2 DEF SettingsTypeOK, Valid
  <2> QED
    BY <1>1, <2>1, <2>2, <2>3, <2>4, OthersKeepRows
<1> QED
  BY <1>2, <1>3 DEF WidthInv

(* What taking an event does to the history of its process.                *)
LEMMA TakenEvent ==
  ASSUME SettingsAssumption, WidthInv, NEW p \in Processes, NEW e \in Events, Takes(p, e)
  PROVE  /\ p \in running /\ batch[p] \in Batches /\ Head(batch[p]) = e
         /\ batch'[p] = Tail(batch[p])
         /\ batch' \in [Processes -> Batches \union {<<>>}]
         /\ intended' \in [Processes -> MinWidth..MaxWidth]
         /\ base' \in [Processes -> MinWidth..MaxWidth]
         /\ running' = running /\ home' = home /\ writable' = writable
         /\ \A q \in Processes \ {p} :
              batch'[q] = batch[q] /\ intended'[q] = intended[q] /\ base'[q] = base[q]
         /\ intended'[p] = IF e \in WidthKeys /\ (~modal[p] \/ selected[p] = "width")
                           THEN ResizeTreeWidth(IF modal[p] THEN intended[p] ELSE base[p], Delta(e))
                           ELSE intended[p]
         /\ base'[p] = IF e = "resize" \/ (e \in WidthKeys /\ ~modal[p]) THEN base[p]
                       ELSE intended'[p]
<1>1. /\ p \in running /\ batch[p] # <<>> /\ Head(batch[p]) = e
      /\ batch' = [batch EXCEPT ![p] = Tail(@)]
      /\ intended' = [intended EXCEPT ![p] =
           IF e \in WidthKeys /\ (~modal[p] \/ selected[p] = "width")
           THEN ResizeTreeWidth(IF modal[p] THEN @ ELSE base[p], Delta(e)) ELSE @]
      /\ base' = [base EXCEPT ![p] =
           IF e = "resize" \/ (e \in WidthKeys /\ ~modal[p]) THEN @ ELSE intended'[p]]
      /\ UNCHANGED <<running, home, writable>>
  BY DEF Takes, Intends
<1>2. batch[p] \in Batches
  BY <1>1 DEF WidthInv, SettingsTypeOK
<1>3. Tail(batch[p]) \in Batches \union {<<>>}
  BY <1>2, BatchIsSeq
<1>4. intended[p] \in Int /\ base[p] \in Int
  BY DEF WidthInv, SettingsTypeOK, SettingsAssumption
<1>5. ResizeTreeWidth(IF modal[p] THEN intended[p] ELSE base[p], Delta(e)) \in MinWidth..MaxWidth
  BY <1>4, WidthIsInRange
<1>6. intended' \in [Processes -> MinWidth..MaxWidth]
  BY <1>1, <1>5 DEF WidthInv, SettingsTypeOK
<1>7. base' \in [Processes -> MinWidth..MaxWidth]
  BY <1>1, <1>6 DEF WidthInv, SettingsTypeOK
<1>8. batch' \in [Processes -> Batches \union {<<>>}] /\ batch'[p] = Tail(batch[p])
  BY <1>1, <1>3 DEF WidthInv, SettingsTypeOK
<1>9. \A q \in Processes \ {p} :
        batch'[q] = batch[q] /\ intended'[q] = intended[q] /\ base'[q] = base[q]
  BY <1>1 DEF WidthInv, SettingsTypeOK
<1>10. intended'[p] = IF e \in WidthKeys /\ (~modal[p] \/ selected[p] = "width")
                      THEN ResizeTreeWidth(IF modal[p] THEN intended[p] ELSE base[p], Delta(e))
                      ELSE intended[p]
  BY <1>1 DEF WidthInv, SettingsTypeOK
<1>11. base'[p] = IF e = "resize" \/ (e \in WidthKeys /\ ~modal[p]) THEN base[p] ELSE intended'[p]
  BY <1>1 DEF WidthInv, SettingsTypeOK
<1> QED
  BY <1>1, <1>2, <1>6, <1>7, <1>8, <1>9, <1>10, <1>11

\* It remains to look at the row of the process that took the event.
LEMMA TakingKeeps ==
  ASSUME SettingsAssumption, WidthInv, NEW p \in Processes, NEW e \in Events, Takes(p, e),
         settings' \in [Processes -> Valid], applied' \in [Processes -> Themes],
         modal' \in [Processes -> BOOLEAN], selected' \in [Processes -> {"width", "theme"}],
         config' \in Stored \union {Torn, NoFile}, changes' \in 0..MaxChanges,
         behind' \in [Processes -> BOOLEAN],
         \A q \in Processes \ {p} : settings'[q] = settings[q] /\ modal'[q] = modal[q],
         IF modal'[p] THEN settings'[p].width = intended'[p] /\ settings'[p].width = base'[p]
         ELSE IF RowAhead(Tail(batch[p])) THEN settings'[p].width = base'[p]
              ELSE settings'[p].width = intended'[p]
  PROVE  WidthInv'
<1>1. home' \in BOOLEAN /\ writable' \in BOOLEAN
  <2>1. home' = home /\ writable' = writable
    BY TakenEvent
  <2> QED
    BY <2>1, Zenon DEF WidthInv, SettingsTypeOK
<1>2. SettingsTypeOK'
  BY <1>1, TakenEvent DEF WidthInv, SettingsTypeOK, Valid, Batches, Stored, Events
<1>3. RowInv'
  <2>1. running' \subseteq Processes
    BY <1>2 DEF SettingsTypeOK
  <2>2. \A q \in running' \ {p} :
           /\ q \in running
           /\ settings'[q] = settings[q] /\ modal'[q] = modal[q] /\ batch'[q] = batch[q]
           /\ intended'[q] = intended[q] /\ base'[q] = base[q]
    BY <2>1, TakenEvent
  <2>3. batch'[p] = Tail(batch[p])
    BY TakenEvent
  <2> QED
    BY <2>2, <2>3, OthersKeepRows
<1> QED
  BY <1>2, <1>3 DEF WidthInv

\* The row of a process before it takes an event, and what follows the event.
LEMMA RowBefore ==
  ASSUME SettingsAssumption, WidthInv, NEW p \in Processes, NEW e \in Events, Takes(p, e)
  PROVE  LET w == settings[p].width IN
         /\ modal[p] => w = intended[p] /\ w = base[p]
         /\ ~modal[p] /\ e \in WidthKeys => w = base[p]
         /\ e \notin WidthKeys \union {"resize"} => w = intended[p]
         /\ ~modal[p] /\ e = "resize" =>
              IF RowAhead(Tail(batch[p])) THEN w = base[p] ELSE w = intended[p]
BY TakenEvent, RowOfTail DEF WidthInv, RowInv

LEMMA SkipKeeps ==
  ASSUME SettingsAssumption, WidthInv, NEW p \in Processes, NEW e \in Events, Skip(p, e)
  PROVE  WidthInv'
<1>1. /\ Takes(p, e) /\ ShouldSkip(p)
      /\ UNCHANGED <<settings, applied, modal, selected, config, changes, behind>>
  BY DEF Skip
<1>2. IF modal'[p] THEN settings'[p].width = intended'[p] /\ settings'[p].width = base'[p]
      ELSE IF RowAhead(Tail(batch[p])) THEN settings'[p].width = base'[p]
           ELSE settings'[p].width = intended'[p]
  <2>1. CASE e = "resize"
    BY <1>1, <2>1, TakenEvent, RowBefore DEF WidthKeys
  <2>2. CASE e # "resize"
    <3>1. LatestOnly(p, e) # "None"
      <4>1. batch[p][1] = e
        BY <1>1, TakenEvent, BatchIsSeq
      <4> QED
        BY <1>1, <4>1 DEF ShouldSkip
    <3>2. e \in WidthKeys /\ ~modal[p]
      BY <2>2, <3>1 DEF LatestOnly
    <3>3. RowAhead(Tail(batch[p]))
      BY <1>1, <3>2, TakenEvent, SkipsWithinRow
    <3> QED
      BY <1>1, <2>2, <3>2, <3>3, TakenEvent, RowBefore
  <2> QED
    BY <2>1, <2>2
<1>3. /\ settings' \in [Processes -> Valid] /\ applied' \in [Processes -> Themes]
      /\ selected' \in [Processes -> {"width", "theme"}]
      /\ config' \in Stored \union {Torn, NoFile} /\ changes' \in 0..MaxChanges
  BY <1>1 DEF WidthInv, SettingsTypeOK
<1>4. modal' \in [Processes -> BOOLEAN] /\ behind' \in [Processes -> BOOLEAN]
  BY <1>1, Zenon DEF WidthInv, SettingsTypeOK
<1> QED
  BY <1>1, <1>2, <1>3, <1>4, TakingKeeps

LEMMA WalkKeeps ==
  ASSUME SettingsAssumption, WidthInv, NEW p \in Processes, NEW e \in Events, Walk(p, e)
  PROVE  WidthInv'
<1>1. /\ Takes(p, e) /\ e \notin WidthKeys
      /\ modal' = [modal EXCEPT ![p] = (@ /\ e # "esc") \/ (~@ /\ e = "comma")]
      /\ selected' = [selected EXCEPT ![p] =
           IF modal[p] /\ e = "down" THEN (IF @ = "width" THEN "theme" ELSE "width") ELSE @]
      /\ UNCHANGED <<settings, applied, config, changes, behind>>
  BY DEF Walk
<1>2. modal' \in [Processes -> BOOLEAN] /\ behind' \in [Processes -> BOOLEAN]
  BY <1>1, Zenon DEF WidthInv, SettingsTypeOK
<1>3. /\ modal'[p] = ((modal[p] /\ e # "esc") \/ (~modal[p] /\ e = "comma"))
      /\ \A q \in Processes \ {p} : modal'[q] = modal[q]
  BY <1>1, Zenon DEF WidthInv, SettingsTypeOK
<1>4. /\ settings' \in [Processes -> Valid] /\ applied' \in [Processes -> Themes]
      /\ selected' \in [Processes -> {"width", "theme"}]
      /\ config' \in Stored \union {Torn, NoFile} /\ changes' \in 0..MaxChanges
  BY <1>1 DEF WidthInv, SettingsTypeOK
<1>5. IF modal'[p] THEN settings'[p].width = intended'[p] /\ settings'[p].width = base'[p]
      ELSE IF RowAhead(Tail(batch[p])) THEN settings'[p].width = base'[p]
           ELSE settings'[p].width = intended'[p]
  <2>1. CASE e = "resize"
    <3>1. e # "esc" /\ e # "comma"
      BY <2>1
    <3>2. modal'[p] <=> modal[p]
      BY <1>3, <3>1, Zenon
    <3> QED
      BY <1>1, <2>1, <3>2, TakenEvent, RowBefore
  <2>2. CASE e # "resize"
    BY <1>1, <2>2, TakenEvent, RowBefore
  <2> QED
    BY <2>1, <2>2
<1> QED
  BY <1>1, <1>2, <1>3, <1>4, <1>5, TakingKeeps

LEMMA AdjustedIsValid ==
  ASSUME SettingsAssumption, SettingsTypeOK, NEW p \in Processes, NEW e \in Events,
         NEW s \in Adjusted(p, e)
  PROVE  /\ s \in Valid
         /\ s.width = IF modal[p] /\ selected[p] = "theme" THEN settings[p].width
                      ELSE ResizeTreeWidth(settings[p].width, Delta(e))
<1>1. settings[p] \in Valid /\ settings[p].width \in Int
  BY DEF SettingsTypeOK, SettingsAssumption, Valid
<1>2. ResizeTreeWidth(settings[p].width, Delta(e)) \in MinWidth..MaxWidth
  BY <1>1, WidthIsInRange
<1> QED
  BY <1>1, <1>2 DEF Adjusted, Value, Valid

LEMMA ChangesKeeps ==
  ASSUME SettingsAssumption, WidthInv, NEW p \in Processes, NEW e \in Events,
         AtLimit(p, e) \/ Saved(p, e) \/ NotSaved(p, e)
  PROVE  WidthInv'
<1>1. /\ Takes(p, e) /\ ~ShouldSkip(p) /\ e \in WidthKeys
      /\ settings' \in {[settings EXCEPT ![p] = s] : s \in Adjusted(p, e)}
      /\ UNCHANGED <<modal, selected>>
  BY DEF AtLimit, Saved, NotSaved, Changes
<1>2. PICK s \in Adjusted(p, e) : settings' = [settings EXCEPT ![p] = s]
  BY <1>1
<1>3. s \in Valid /\ s.theme \in Themes
  BY <1>2, AdjustedIsValid DEF WidthInv, Valid
<1>4. /\ settings' \in [Processes -> Valid] /\ settings'[p] = s
      /\ \A q \in Processes \ {p} : settings'[q] = settings[q]
  BY <1>2, <1>3 DEF WidthInv, SettingsTypeOK
<1>5. config' \in Stored \union {Torn, NoFile}
  BY <1>3, <1>4, NormalizedIsValid DEF AtLimit, Saved, NotSaved, WidthInv, SettingsTypeOK
<1>6. applied' \in [Processes -> Themes] /\ selected' \in [Processes -> {"width", "theme"}]
  BY <1>1, <1>3, <1>4 DEF AtLimit, Saved, NotSaved, WidthInv, SettingsTypeOK
<1>7. changes' \in 0..MaxChanges
  BY DEF AtLimit, Saved, NotSaved, MakesChange, WidthInv, SettingsTypeOK, SettingsAssumption
<1>8. modal' \in [Processes -> BOOLEAN] /\ behind' \in [Processes -> BOOLEAN] /\ modal' = modal
  BY <1>1, Zenon DEF AtLimit, Saved, NotSaved, WidthInv, SettingsTypeOK
<1>9. IF modal'[p] THEN settings'[p].width = intended'[p] /\ settings'[p].width = base'[p]
      ELSE IF RowAhead(Tail(batch[p])) THEN settings'[p].width = base'[p]
           ELSE settings'[p].width = intended'[p]
  <2>1. s.width = IF modal[p] /\ selected[p] = "theme" THEN settings[p].width
                  ELSE ResizeTreeWidth(settings[p].width, Delta(e))
    BY <1>2, AdjustedIsValid DEF WidthInv
  <2>2. selected[p] \in {"width", "theme"} /\ e # "resize"
    BY <1>1 DEF WidthInv, SettingsTypeOK, WidthKeys
  <2>3. CASE modal[p]
    BY <1>1, <1>4, <1>8, <2>1, <2>2, <2>3, TakenEvent, RowBefore
  <2>4. CASE ~modal[p]
    <3>1. ~RowAhead(Tail(batch[p]))
      BY <1>1, <2>4, TakenEvent, SkipsWithinRow
    <3> QED
      BY <1>1, <1>4, <1>8, <2>1, <2>2, <2>4, <3>1, TakenEvent, RowBefore
  <2> QED
    BY <2>3, <2>4
<1> QED
  BY <1>1, <1>4, <1>5, <1>6, <1>7, <1>8, <1>9, TakingKeeps

LEMMA DiskChangesKeeps ==
  ASSUME SettingsAssumption, WidthInv, DiskChanges
  PROVE  WidthInv'
<1>1. /\ changes < MaxChanges /\ changes' = changes + 1 /\ writable' = ~writable
      /\ UNCHANGED <<processVars, home, config, behind, intended, base>>
  BY DEF DiskChanges
<1>2. changes' \in 0..MaxChanges
  BY <1>1 DEF WidthInv, SettingsTypeOK, SettingsAssumption
<1>3. writable' \in BOOLEAN
  BY <1>1, Zenon
<1>4. SettingsTypeOK'
  BY <1>1, <1>2, <1>3 DEF processVars, WidthInv, SettingsTypeOK, Valid, Batches, Stored, Events
<1>5. RowInv'
  BY <1>1 DEF processVars, WidthInv, RowInv, RowAhead
<1> QED
  BY <1>4, <1>5 DEF WidthInv

LEMMA InitIInv ==
  ASSUME SettingsAssumption, SettingsInit
  PROVE  WidthInv
<1>1. Default \in Valid /\ Default.width \in MinWidth..MaxWidth /\ Default.theme \in Themes
      /\ Default.width = DefaultWidth /\ Default.theme = DefaultTheme
  BY NormalizedIsValid DEF Valid, Default, Value
<1>2. /\ running \subseteq Processes
      /\ settings \in [Processes -> Valid] /\ applied \in [Processes -> Themes]
      /\ selected \in [Processes -> {"width", "theme"}]
      /\ batch \in [Processes -> Batches \union {<<>>}]
      /\ config \in Stored \union {Torn, NoFile}
      /\ changes \in 0..MaxChanges
      /\ intended \in [Processes -> MinWidth..MaxWidth] /\ base \in [Processes -> MinWidth..MaxWidth]
  BY <1>1 DEF SettingsInit, SettingsAssumption
<1>3. /\ modal \in [Processes -> BOOLEAN] /\ behind \in [Processes -> BOOLEAN]
      /\ home \in BOOLEAN /\ writable \in BOOLEAN
  BY Zenon DEF SettingsInit
<1>4. RowInv
  BY DEF SettingsInit, RowInv
<1> QED
  BY <1>2, <1>3, <1>4 DEF WidthInv, SettingsTypeOK

LEMMA NextKeeps ==
  ASSUME SettingsAssumption, WidthInv, [SettingsNext]_settingsVars
  PROVE  WidthInv'
<1>1. CASE \E p \in Processes : Launch(p)
  BY <1>1, LaunchKeeps
<1>2. CASE \E p \in Processes : Die(p) \/ DieWriting(p)
  BY <1>2, StopKeeps
<1>3. CASE \E p \in Processes : \E b \in Batches : Drain(p, b)
  BY <1>3, DrainKeeps
<1>4. CASE \E p \in Processes : \E e \in Events : Skip(p, e)
  BY <1>4, SkipKeeps
<1>5. CASE \E p \in Processes : \E e \in Events : Walk(p, e)
  BY <1>5, WalkKeeps
<1>6. CASE \E p \in Processes : \E e \in Events : AtLimit(p, e) \/ Saved(p, e) \/ NotSaved(p, e)
  BY <1>6, ChangesKeeps
<1>7. CASE DiskChanges
  BY <1>7, DiskChangesKeeps
<1>8. CASE UNCHANGED settingsVars
  BY <1>8 DEF settingsVars, processVars, historyVars, WidthInv, SettingsTypeOK, RowInv, RowAhead,
              Valid, Batches, Stored, Events
<1> QED
  BY <1>1, <1>2, <1>3, <1>4, <1>5, <1>6, <1>7, <1>8 DEF SettingsNext

THEOREM WidthInvariance ==
  ASSUME SettingsAssumption
  PROVE  SettingsSpec => []WidthInv
<1>1. SettingsInit => WidthInv
  BY InitIInv
<1>2. WidthInv /\ [SettingsNext]_settingsVars => WidthInv'
  BY NextKeeps
<1> QED
  BY <1>1, <1>2, PTL DEF SettingsSpec

-----------------------------------------------------------------------------
(* Settings stay in their ranges, whatever the file held                   *)
(* (config::load, AppSettings::normalized, resize_tree_width).             *)
THEOREM SettingsTypeCorrect ==
  ASSUME SettingsAssumption
  PROVE  SettingsSpec => []SettingsTypeOK
<1>1. WidthInv => SettingsTypeOK
  BY DEF WidthInv
<1> QED
  BY <1>1, WidthInvariance, PTL

(* However keys and resizes are batched, the pane ends with the width that *)
(* the last key of each row asks for (should_skip_stale_event).            *)
THEOREM Width ==
  ASSUME SettingsAssumption
  PROVE  SettingsSpec => []WidthIsAsIntended
<1>1. ASSUME WidthInv PROVE WidthIsAsIntended
  <2> SUFFICES ASSUME NEW p \in running,
                      batch[p] = <<>> \/ Head(batch[p]) \notin WidthKeys \union {"resize"}
               PROVE  settings[p].width = intended[p]
    BY DEF WidthIsAsIntended
  <2>1. ~RowAhead(batch[p])
    <3>1. batch[p] \in Batches \union {<<>>}
      BY <1>1 DEF WidthInv, SettingsTypeOK
    <3> QED
      BY <3>1, NoRowInNothing, RowOfTail
  <2> QED
    BY <1>1, <2>1 DEF WidthInv, RowInv
<1>2. WidthInv => WidthIsAsIntended
  BY <1>1
<1> QED
  BY <1>2, WidthInvariance, PTL

-----------------------------------------------------------------------------
(* What the next start will find, with one process at a time.              *)
KInv ==
  /\ SettingsTypeOK /\ SettingsAreKept
  /\ \A p, q \in running : p = q

LEMMA KeepsKept ==
  ASSUME SettingsAssumption, ~Overlap, KInv, SettingsTypeOK', [SettingsNext]_settingsVars
  PROVE  SettingsAreKept' /\ \A p, q \in running' : p = q
<1> USE DEF KInv, SettingsTypeOK
<1>1. CASE \E p \in Processes : Launch(p)
  <2>1. PICK p \in Processes : Launch(p)
    BY <1>1
  <2>2. running' = {p} /\ Holds(p, Load(config)) /\ UNCHANGED config /\ home' = home
    BY <2>1 DEF Launch, Holds
  <2>3. settings'[p] = Load(config) /\ applied'[p] = Load(config).theme
    BY <2>2 DEF Holds
  <2>4. Load(config)' = Load(config)
    BY <2>2 DEF Load
  <2> QED
    BY <2>2, <2>3, <2>4 DEF SettingsAreKept
<1>2. CASE \E p \in Processes : Die(p) \/ DieWriting(p)
  <2>1. PICK p \in Processes : Stops(p)
    BY <1>2 DEF Die, DieWriting
  <2>2. running' = {}
    BY <2>1 DEF Stops
  <2> QED
    BY <2>2 DEF SettingsAreKept
<1>3. CASE \E p \in Processes : \E b \in Batches : Drain(p, b)
  BY <1>3 DEF Drain, SettingsAreKept, Load
<1>4. CASE \E p \in Processes : \E e \in Events : Skip(p, e) \/ Walk(p, e) \/ AtLimit(p, e)
  <2>1. UNCHANGED <<running, settings, applied, config, behind, home>>
    BY <1>4 DEF Skip, Walk, AtLimit, Takes, Changes
  <2> QED
    BY <2>1 DEF SettingsAreKept, Load
<1>5. CASE \E p \in Processes : \E e \in Events : Saved(p, e)
  <2>1. PICK p \in Processes : \E e \in Events : Saved(p, e)
    BY <1>5
  <2>2. /\ running' = running /\ p \in running /\ home' = home
        /\ config' = IF home THEN Normalized(settings'[p]) ELSE config
        /\ applied' = [applied EXCEPT ![p] = settings'[p].theme]
    BY <2>1 DEF Saved, Changes, Takes
  <2>3. settings'[p] \in Valid
    OBVIOUS
  <2>4. home => Load(config)' = settings'[p]
    BY <2>2, <2>3, NormalizedIsValid DEF Load
  <2>5. applied'[p] = settings'[p].theme
    BY <2>2
  <2> QED
    BY <2>2, <2>4, <2>5 DEF SettingsAreKept
<1>6. CASE \E p \in Processes : \E e \in Events : NotSaved(p, e)
  <2>1. PICK p \in Processes : \E e \in Events : NotSaved(p, e)
    BY <1>6
  <2>2. running' = running /\ p \in running /\ behind' = [behind EXCEPT ![p] = TRUE]
    BY <2>1 DEF NotSaved, Changes, Takes
  <2>3. behind'[p] = TRUE
    BY <2>2, Zenon
  <2> QED
    BY <2>2, <2>3 DEF SettingsAreKept
<1>7. CASE DiskChanges
  BY <1>7 DEF DiskChanges, processVars, SettingsAreKept, Load
<1>8. CASE UNCHANGED settingsVars
  BY <1>8 DEF settingsVars, processVars, historyVars, SettingsAreKept, Load
<1> QED
  BY <1>1, <1>2, <1>3, <1>4, <1>5, <1>6, <1>7, <1>8 DEF SettingsNext

(* Unless its last save has failed, what a process shows is what the next  *)
(* start will find and what its screen is drawn with, as long as no two    *)
(* processes overlap (config::save, apply_runtime_settings).               *)
THEOREM Kept ==
  ASSUME SettingsAssumption, ~Overlap
  PROVE  SettingsSpec => []SettingsAreKept
<1>1. SettingsInit => SettingsAreKept /\ \A p, q \in running : p = q
  BY DEF SettingsInit, SettingsAreKept
<1>2. SettingsInit /\ SettingsTypeOK => KInv
  BY <1>1 DEF KInv
<1>3. KInv /\ SettingsTypeOK' /\ [SettingsNext]_settingsVars => KInv'
  BY KeepsKept DEF KInv
<1>4. KInv => SettingsAreKept
  BY DEF KInv
<1> QED
  BY <1>2, <1>3, <1>4, SettingsTypeCorrect, PTL DEF SettingsSpec

-----------------------------------------------------------------------------
(***************************************************************************)
(* The preferences, for any number of processes one after the other,       *)
(* workspaces, arguments, values and manifests.                            *)
(***************************************************************************)

USE PreferencesAssumption

(* The overrides of a manifest are preferences again.                      *)
LEMMA OverridesAreSound ==
  ASSUME NEW m \in Manifests, NEW ps \in Prefs
  PROVE  /\ Overrides(m, ps) \in Prefs
         /\ Reconcile(m, ps) \in Prefs
         /\ \A a \in Args : Reconcile(m, ps)[a] \in (IF m[a].allowed = {} THEN {Unset} ELSE m[a].allowed)
         /\ PersistableOf({m}, ps) = Overrides(m, ps)
  <1>1. Overrides(m, ps) \in Prefs
    BY DEF Overrides, Prefs
  <1>2. Reconcile(m, ps) \in Prefs
    BY DEF Reconcile, Prefs
  <1>3. \A a \in Args : Reconcile(m, ps)[a] \in (IF m[a].allowed = {} THEN {Unset} ELSE m[a].allowed)
    BY DEF Reconcile, Prefs
  <1>4. PersistableOf({m}, ps) = Overrides(m, ps)
    <2>1. (CHOOSE x \in {m} : TRUE) = m
      OBVIOUS
    <2> QED
      BY <2>1 DEF PersistableOf
  <1> QED
    BY <1>1, <1>2, <1>3, <1>4

LEMMA PersistableIsSound ==
  ASSUME NEW ms \in {{}} \union {{m} : m \in Manifests}, NEW ps \in Prefs
  PROVE  PersistableOf(ms, ps) \in Prefs
  <1>1. CASE ms = {}
    BY <1>1 DEF PersistableOf
  <1>2. CASE ms # {}
    <2>1. PICK m \in Manifests : ms = {m}
      BY <1>2
    <2> QED
      BY <2>1, OverridesAreSound
  <1> QED
    BY <1>1, <1>2

-----------------------------------------------------------------------------
LEMMA InitTypes == Init => TypeOK
  <1> SUFFICES ASSUME Init PROVE TypeOK
    OBVIOUS
  <1>2. NoPrefs \in Prefs
    BY DEF NoPrefs, Prefs
  <1>1. file \in [readable : BOOLEAN, entries : [Workspaces -> Prefs]]
    <2>1. Unreadable \in [readable : BOOLEAN, entries : [Workspaces -> Prefs]]
      BY <1>2 DEF Unreadable
    <2>2. Remembered \subseteq Prefs
      BY DEF Prefs
    <2>3. [readable : {TRUE}, entries : [Workspaces -> Remembered]]
            \subseteq [readable : BOOLEAN, entries : [Workspaces -> Prefs]]
      BY <2>2
    <2> QED
      BY <2>1, <2>3 DEF Init
  <1>3. image \in [Processes -> [Workspaces -> Prefs]]
    BY <1>2 DEF Init
  <1>4. chosen \in [Workspaces -> Prefs] /\ certain \in [Workspaces -> BOOLEAN]
    BY <1>1 DEF Init
  <1>5. prefs \in [Processes -> Prefs] /\ manifest \in [Processes -> {{}} \union {{m} : m \in Manifests}]
    BY <1>2 DEF Init
  <1>6. \A p \in Processes : manifest[p] = {}
    BY DEF Init
  <1> QED
    BY <1>1, <1>3, <1>4, <1>5, <1>6 DEF Init, TypeOK

(* Types, in the parts that the steps treat alike.                         *)
ShownTypes ==
  /\ prefs \in [Processes -> Prefs]
  /\ manifest \in [Processes -> {{}} \union {{m} : m \in Manifests}]
  /\ \A p \in Processes : \A m \in manifest[p] : \A a \in Args :
       prefs[p][a] \in (IF m[a].allowed = {} THEN {Unset} ELSE m[a].allowed)

SaveTypes ==
  /\ revision \in [Processes -> 0..MaxRevision] /\ persisted \in [Processes -> 0..MaxRevision]
  /\ attempt \in [Processes -> 0..MaxRevision] /\ cooling \in [Processes -> BOOLEAN]
  /\ phase \in [Processes -> {"idle", "batch", "read", "write", "rename"}]
  /\ leaving \in [Processes -> BOOLEAN] /\ up \subseteq Processes

DiskTypes ==
  /\ image \in [Processes -> [Workspaces -> Prefs]]
  /\ file \in [readable : BOOLEAN, entries : [Workspaces -> Prefs]]
  /\ working \in BOOLEAN /\ faults \in 0..MaxFaults

HistTypes ==
  /\ touched \in [Processes -> SUBSET Args]
  /\ chosen \in [Workspaces -> Prefs] /\ certain \in [Workspaces -> BOOLEAN]

LEMMA TypeParts == TypeOK <=> ShownTypes /\ SaveTypes /\ DiskTypes /\ HistTypes
  BY DEF TypeOK, ShownTypes, SaveTypes, DiskTypes, HistTypes

LEMMA ShownStep ==
  ASSUME TypeOK, Next
  PROVE  ShownTypes'
  <1> USE TypeParts DEF ShownTypes, SaveTypes, DiskTypes, HistTypes
  <1>0. NoPrefs \in Prefs
    BY DEF NoPrefs, Prefs
  <1>1. ASSUME NEW p \in Processes, Start(p) PROVE ShownTypes'
    <2>1. prefs' \in [Processes -> Prefs]
      BY <1>0, <1>1 DEF Start
    <2>2. manifest' = [manifest EXCEPT ![p] = {}] /\ \A q \in Processes : q # p => prefs'[q] = prefs[q]
      BY <1>1 DEF Start
    <2> QED
      BY <2>1, <2>2
  <1>2. ASSUME NEW p \in Processes, NEW m \in Manifests, InfoLoaded(p, m) PROVE ShownTypes'
    <2>1. prefs' = [prefs EXCEPT ![p] = Reconcile(m, prefs[p])] /\ manifest' = [manifest EXCEPT ![p] = {m}]
      BY <1>2 DEF InfoLoaded
    <2>2. prefs[p] \in Prefs
      OBVIOUS
    <2> DEFINE r == Reconcile(m, prefs[p])
    <2>3. r \in Prefs /\ \A a \in Args : r[a] \in (IF m[a].allowed = {} THEN {Unset} ELSE m[a].allowed)
      BY <2>2, OverridesAreSound
    <2> HIDE DEF r
    <2>4. prefs' = [prefs EXCEPT ![p] = r] /\ manifest' = [manifest EXCEPT ![p] = {m}]
      BY <2>1 DEF r
    <2> QED
      BY <2>3, <2>4
  <1>3. ASSUME NEW p \in Processes, LoadFailed(p) PROVE ShownTypes'
    <2>1. prefs' = [prefs EXCEPT ![p] = Persistable(p)] /\ manifest' = [manifest EXCEPT ![p] = {}]
      BY <1>3 DEF LoadFailed
    <2>2. Persistable(p) \in Prefs
      BY PersistableIsSound DEF Persistable
    <2> QED
      BY <2>1, <2>2
  <1>4. ASSUME NEW p \in Processes, NEW a \in Args, NEW v \in Values, SetArg(p, a, v) PROVE ShownTypes'
    <2>1. prefs' = [prefs EXCEPT ![p][a] = v] /\ manifest' = manifest
      BY <1>4 DEF SetArg
    <2>2. PICK m \in manifest[p] : v \in m[a].allowed
      BY <1>4 DEF SetArg
    <2>3. manifest[p] = {m}
      <3>1. manifest[p] \in {{}} \union {{n} : n \in Manifests}
        OBVIOUS
      <3>2. PICK n \in Manifests : manifest[p] = {n}
        BY <2>2, <3>1
      <3> QED
        BY <2>2, <3>2
    <2>4. prefs' \in [Processes -> Prefs]
      BY <2>1 DEF Prefs
    <2>5. \A b \in Args : prefs'[p][b] = IF b = a THEN v ELSE prefs[p][b]
      BY <2>1 DEF Prefs
    <2>6. \A q \in Processes : q # p => prefs'[q] = prefs[q]
      BY <2>1
    <2>7. ASSUME NEW q \in Processes, NEW n \in manifest'[q], NEW b \in Args
          PROVE  prefs'[q][b] \in (IF n[b].allowed = {} THEN {Unset} ELSE n[b].allowed)
      <3>1. n \in manifest[q]
        BY <2>1
      <3>2. prefs[q][b] \in (IF n[b].allowed = {} THEN {Unset} ELSE n[b].allowed)
        BY <3>1
      <3>3. CASE q = p /\ b = a
        <4>1. n = m
          BY <3>1, <3>3, <2>3
        <4> QED
          BY <4>1, <3>3, <2>2, <2>5
      <3>4. CASE ~(q = p /\ b = a)
        BY <3>2, <3>4, <2>5, <2>6
      <3> QED
        BY <3>3, <3>4
    <2>8. manifest' \in [Processes -> {{}} \union {{x} : x \in Manifests}]
      BY <2>1
    <2> QED
      BY <2>4, <2>7, <2>8
  <1>5. ASSUME UNCHANGED <<prefs, manifest>> PROVE ShownTypes'
    <2>1. prefs' = prefs /\ manifest' = manifest
      BY <1>5
    <2>2. (prefs \in [Processes -> Prefs])' /\ (manifest \in [Processes -> {{}} \union {{m} : m \in Manifests}])'
      BY <2>1
    <2> QED
      BY <2>1, <2>2
  <1>6. ASSUME NEW p \in Processes,
               Tick(p) \/ Quit(p) \/ Flush(p) \/ Save(p) \/ CooldownEnds(p) \/ Leave(p) \/ Crash(p)
        PROVE ShownTypes'
    BY <1>5, <1>6 DEF Tick, Quit, Flush, Save, ReadFile, WriteTemporary, Rename, SaveFails,
                      CooldownEnds, Leave, Crash, stop, flushOnly
  <1>7. ASSUME DiskFails \/ DiskRecovers PROVE ShownTypes'
    BY <1>5, <1>7 DEF DiskFails, DiskRecovers, procVars
  <1> QED
    BY <1>1, <1>2, <1>3, <1>4, <1>6, <1>7 DEF Next

LEMMA SaveStep ==
  ASSUME TypeOK, Next
  PROVE  SaveTypes'
  <1> USE TypeParts DEF SaveTypes
  <1>1. ASSUME NEW p \in Processes, Start(p) PROVE SaveTypes'
    BY <1>1 DEF Start
  <1>2. ASSUME NEW p \in Processes, NEW m \in Manifests, InfoLoaded(p, m) PROVE SaveTypes'
    BY <1>2 DEF InfoLoaded, Handles, Dirty, diskVars
  <1>3. ASSUME NEW p \in Processes, LoadFailed(p) \/ Tick(p) PROVE SaveTypes'
    BY <1>3 DEF LoadFailed, Tick, Handles, diskVars, histVars
  <1>4. ASSUME NEW p \in Processes, NEW a \in Args, NEW v \in Values, SetArg(p, a, v) PROVE SaveTypes'
    BY <1>4 DEF SetArg, Handles, Dirty, diskVars
  <1>5. ASSUME NEW p \in Processes, Quit(p) PROVE SaveTypes'
    BY <1>5 DEF Quit
  <1>6. ASSUME NEW p \in Processes, Flush(p) PROVE SaveTypes'
    <2>1. revision' = revision /\ persisted' = persisted /\ leaving' = leaving /\ up' = up
      BY <1>6 DEF Flush, flushOnly
    <2>2. attempt' \in [Processes -> 0..MaxRevision]
      BY <1>6 DEF Flush
    <2>3. cooling' \in [Processes -> BOOLEAN]
      BY <1>6, Zenon DEF Flush
    <2>4. phase' \in [Processes -> {"idle", "batch", "read", "write", "rename"}]
      BY <1>6 DEF Flush
    <2> QED
      BY <2>1, <2>2, <2>3, <2>4
  <1>7. ASSUME NEW p \in Processes, Save(p) PROVE SaveTypes'
    BY <1>7 DEF Save, ReadFile, WriteTemporary, Rename, SaveFails, flushOnly
  <1>8. ASSUME NEW p \in Processes, CooldownEnds(p) PROVE SaveTypes'
    BY <1>8 DEF CooldownEnds
  <1>9. ASSUME NEW p \in Processes, Leave(p) \/ Crash(p) PROVE SaveTypes'
    BY <1>9 DEF Leave, Crash, stop
  <1>10. ASSUME DiskFails \/ DiskRecovers PROVE SaveTypes'
    BY <1>10 DEF DiskFails, DiskRecovers, procVars
  <1> QED
    BY <1>1, <1>2, <1>3, <1>4, <1>5, <1>6, <1>7, <1>8, <1>9, <1>10 DEF Next

LEMMA DiskStep ==
  ASSUME TypeOK, Next
  PROVE  DiskTypes'
  <1> USE TypeParts DEF DiskTypes
  <1>1. ASSUME UNCHANGED <<image, file, working, faults>> PROVE DiskTypes'
    BY <1>1
  <1>2. ASSUME NEW p \in Processes, ReadFile(p) PROVE DiskTypes'
    <2>1. Persistable(p) \in Prefs
      BY PersistableIsSound DEF Persistable, ShownTypes
    <2>2. [file.entries EXCEPT ![WorkspaceOf[p]] = Persistable(p)] \in [Workspaces -> Prefs]
      BY <2>1
    <2> QED
      BY <1>2, <2>2 DEF ReadFile, flushOnly
  <1>3. ASSUME NEW p \in Processes, Rename(p) PROVE DiskTypes'
    BY <1>3 DEF Rename, flushOnly
  <1>4. ASSUME NEW p \in Processes, WriteTemporary(p) \/ SaveFails(p) \/ Flush(p) PROVE DiskTypes'
    BY <1>1, <1>4 DEF WriteTemporary, SaveFails, Flush, flushOnly
  <1>5. ASSUME NEW p \in Processes, NEW m \in Manifests, InfoLoaded(p, m) PROVE DiskTypes'
    BY <1>1, <1>5 DEF InfoLoaded, Handles, diskVars
  <1>6. ASSUME NEW p \in Processes, NEW a \in Args, NEW v \in Values, SetArg(p, a, v) PROVE DiskTypes'
    BY <1>1, <1>6 DEF SetArg, Handles, diskVars
  <1>7. ASSUME NEW p \in Processes,
               Start(p) \/ LoadFailed(p) \/ Tick(p) \/ Quit(p) \/ CooldownEnds(p) \/ Leave(p) \/ Crash(p)
        PROVE DiskTypes'
    BY <1>1, <1>7 DEF Start, LoadFailed, Tick, Quit, CooldownEnds, Leave, Crash, stop, Handles, diskVars
  <1>8. ASSUME DiskFails \/ DiskRecovers PROVE DiskTypes'
    <2>1. image' = image /\ file' = file
      BY <1>8 DEF DiskFails, DiskRecovers, procVars
    <2>2. working' \in BOOLEAN
      BY <1>8 DEF DiskFails, DiskRecovers
    <2>3. faults' \in 0..MaxFaults
      BY <1>8 DEF DiskFails, DiskRecovers
    <2> QED
      BY <2>1, <2>2, <2>3
  <1> QED
    BY <1>2, <1>3, <1>4, <1>5, <1>6, <1>7, <1>8 DEF Next, Save

LEMMA HistStep ==
  ASSUME TypeOK, Next
  PROVE  HistTypes'
  <1> USE TypeParts DEF HistTypes
  <1>1. ASSUME UNCHANGED histVars PROVE HistTypes'
    BY <1>1 DEF histVars
  <1>2. \A p \in Processes : PersistableOf(manifest'[p], prefs'[p]) \in Prefs
    BY ShownStep, PersistableIsSound DEF ShownTypes
  <1>3. file.readable \in BOOLEAN
    BY DEF DiskTypes
  <1>4. ASSUME NEW p \in Processes, NEW m \in Manifests, InfoLoaded(p, m) PROVE HistTypes'
    BY <1>2, <1>3, <1>4 DEF InfoLoaded, Shows, ChangedBy
  <1>5. ASSUME NEW p \in Processes, NEW a \in Args, NEW v \in Values, SetArg(p, a, v) PROVE HistTypes'
    BY <1>2, <1>3, <1>5 DEF SetArg, Shows
  <1>6. ASSUME NEW p \in Processes, Start(p) PROVE HistTypes'
    BY <1>6 DEF Start
  <1>7. ASSUME NEW p \in Processes, Leave(p) \/ Crash(p) PROVE HistTypes'
    <2>1. (certain[WorkspaceOf[p]] /\ ~Pending(p)) \in BOOLEAN
      OBVIOUS
    <2> QED
      BY <1>7, <2>1 DEF Leave, Crash, stop
  <1>8. ASSUME NEW p \in Processes,
               LoadFailed(p) \/ Tick(p) \/ Quit(p) \/ Flush(p) \/ Save(p) \/ CooldownEnds(p)
        PROVE HistTypes'
    BY <1>1, <1>8 DEF LoadFailed, Tick, Quit, Flush, Save, ReadFile, WriteTemporary, Rename,
                      SaveFails, CooldownEnds, flushOnly
  <1>9. ASSUME DiskFails \/ DiskRecovers PROVE HistTypes'
    BY <1>1, <1>9 DEF DiskFails, DiskRecovers
  <1> QED
    BY <1>4, <1>5, <1>6, <1>7, <1>8, <1>9 DEF Next

LEMMA TypeStep ==
  ASSUME TypeOK, Next
  PROVE  TypeOK'
  <1>1. ShownTypes' /\ SaveTypes' /\ DiskTypes' /\ HistTypes'
    BY ShownStep, SaveStep, DiskStep, HistStep
  <1> QED
    BY <1>1 DEF TypeOK, ShownTypes, SaveTypes, DiskTypes, HistTypes

(* Type correctness: what a panel shows is always allowed by its manifest. *)
THEOREM PreferencesTypeCorrect == Spec => []TypeOK
  <1>1. ASSUME TypeOK, UNCHANGED vars PROVE TypeOK'
    BY <1>1 DEF TypeOK, vars, procVars, diskVars, histVars
  <1>2. TypeOK /\ [Next]_vars => TypeOK'
    BY <1>1, TypeStep
  <1> QED
    BY InitTypes, <1>2, PTL DEF Spec

-----------------------------------------------------------------------------
(* A save that has read the file has read a file that can be read; nothing *)
(* but a rename ever replaces it, so it stays so until the rename.         *)
BegunOnReadable ==
  /\ TypeOK
  /\ \A p \in Processes : phase[p] \in {"write", "rename"} => file.readable

LEMMA ReadableStep ==
  ASSUME BegunOnReadable, Next
  PROVE  /\ file'.readable = file.readable
         /\ \A p \in Processes : phase'[p] \in {"write", "rename"} => file'.readable
  <1> USE DEF BegunOnReadable
  <1>0. phase \in [Processes -> {"idle", "batch", "read", "write", "rename"}]
    BY DEF TypeOK
  <1> DEFINE Goal == /\ file'.readable = file.readable
                     /\ \A q \in Processes : phase'[q] \in {"write", "rename"} => file'.readable
  <1>1. ASSUME file' = file, \A q \in Processes :
                 phase'[q] \in {"write", "rename"} => phase[q] \in {"write", "rename"}
        PROVE  Goal
    BY <1>1
  <1>2. ASSUME NEW p \in Processes, ReadFile(p) PROVE Goal
    BY <1>2, <1>0 DEF ReadFile
  <1>3. ASSUME NEW p \in Processes, Rename(p) PROVE Goal
    BY <1>3, <1>0 DEF Rename
  <1>4. ASSUME NEW p \in Processes,
               WriteTemporary(p) \/ SaveFails(p) \/ Flush(p) \/ Start(p) \/ LoadFailed(p)
                 \/ Tick(p) \/ Quit(p) \/ CooldownEnds(p) \/ Leave(p) \/ Crash(p)
        PROVE Goal
    <2>1. file' = file
      BY <1>4 DEF WriteTemporary, SaveFails, Flush, Start, LoadFailed, Tick, Quit, CooldownEnds,
                  Leave, Crash, stop, Handles, diskVars
    <2>2. \A q \in Processes : phase'[q] \in {"write", "rename"} => phase[q] \in {"write", "rename"}
      BY <1>4, <1>0 DEF WriteTemporary, SaveFails, Flush, Start, LoadFailed, Tick, Quit,
                        CooldownEnds, Leave, Crash, stop, Handles
    <2> QED
      BY <1>1, <2>1, <2>2
  <1>5. ASSUME NEW p \in Processes, NEW m \in Manifests, InfoLoaded(p, m) PROVE Goal
    BY <1>5, <1>0, <1>1 DEF InfoLoaded, Handles, diskVars
  <1>6. ASSUME NEW p \in Processes, NEW a \in Args, NEW v \in Values, SetArg(p, a, v) PROVE Goal
    BY <1>6, <1>0, <1>1 DEF SetArg, Handles, diskVars
  <1>7. ASSUME DiskFails \/ DiskRecovers PROVE Goal
    BY <1>7, <1>1 DEF DiskFails, DiskRecovers, procVars
  <1> HIDE DEF Goal
  <1>8. Goal
    BY <1>2, <1>3, <1>4, <1>5, <1>6, <1>7 DEF Next, Save
  <1> QED
    BY <1>8 DEF Goal

LEMMA ReadableInvariant == Spec => []BegunOnReadable
  <1>1. Init => BegunOnReadable
    BY InitTypes DEF Init, BegunOnReadable
  <1>2. ASSUME BegunOnReadable, UNCHANGED vars PROVE BegunOnReadable'
    <2>1. TypeOK'
      BY <1>2 DEF BegunOnReadable, TypeOK, vars, procVars, diskVars, histVars
    <2> QED
      BY <1>2, <2>1 DEF BegunOnReadable, vars, procVars, diskVars
  <1>3. ASSUME BegunOnReadable, Next PROVE BegunOnReadable'
    <2>1. TypeOK'
      BY <1>3, TypeStep DEF BegunOnReadable
    <2> QED
      BY <1>3, <2>1, ReadableStep DEF BegunOnReadable
  <1>4. BegunOnReadable /\ [Next]_vars => BegunOnReadable'
    BY <1>2, <1>3
  <1> QED
    BY <1>1, <1>4, PTL DEF Spec

(* However many processes run and wherever they stop, the file is never    *)
(* seen half written, and one in an unknown schema is never replaced.      *)
THEOREM FileIsWhole == Spec => NeverTorn
  <1>1. BegunOnReadable /\ [Next]_vars => [file'.readable = file.readable]_file
    BY ReadableStep DEF vars, diskVars
  <1> QED
    BY <1>1, ReadableInvariant, PTL DEF Spec, NeverTorn

-----------------------------------------------------------------------------
(* With one process at a time and a file that could be read when it began, *)
(* the invariant that makes a save safe: whatever the process has not      *)
(* touched is on disk as it shows it, and what it is about to write is the *)
(* file as it is with its own entry as it is.                              *)
OneAtATime == \A p, q \in up : p = q

Counted == \A p \in Processes : persisted[p] <= revision[p]

ImageIsDue ==
  \A p \in up : phase[p] \in {"write", "rename"} =>
    /\ file.readable
    /\ image[p] = [file.entries EXCEPT ![WorkspaceOf[p]] = Persistable(p)]

RestIsOnDisk ==
  \A p \in up : file.readable =>
    \A a \in Args : a \notin touched[p] => Persistable(p)[a] = file.entries[WorkspaceOf[p]][a]

SaveInv == TypeOK /\ OneAtATime /\ Counted /\ ImageIsDue /\ RestIsOnDisk /\ SavedIsOnDisk

(* Steps that leave alone everything the invariant relates.                *)
LEMMA QuietStep ==
  ASSUME SaveInv, UNCHANGED <<up, prefs, manifest, revision, persisted, image, file, touched>>,
         \A q \in Processes : phase'[q] \in {"write", "rename"} => phase[q] \in {"write", "rename"}
  PROVE  (OneAtATime /\ Counted /\ ImageIsDue /\ RestIsOnDisk /\ SavedIsOnDisk)'
  <1>1. up \subseteq Processes
    BY DEF SaveInv, TypeOK
  <1>2. \A q \in Processes : Persistable(q)' = Persistable(q) /\ Pending(q)' = Pending(q)
    BY DEF Persistable, Pending
  <1>3. OneAtATime' /\ Counted'
    BY DEF SaveInv, OneAtATime, Counted
  <1>4. ImageIsDue'
    BY <1>1, <1>2 DEF SaveInv, ImageIsDue
  <1>5. RestIsOnDisk'
    BY <1>1, <1>2 DEF SaveInv, RestIsOnDisk
  <1>6. SavedIsOnDisk'
    BY <1>1, <1>2 DEF SaveInv, SavedIsOnDisk
  <1> QED
    BY <1>3, <1>4, <1>5, <1>6

(* Steps by which the only process changes what it shows, in a batch.      *)
LEMMA ShownChanges ==
  ASSUME SaveInv, TypeOK', NEW p \in up,
         UNCHANGED <<up, persisted, file>>, phase'[p] = "batch",
         touched[p] \subseteq touched'[p],
         \A a \in Args : a \notin touched'[p] => Persistable(p)'[a] = Persistable(p)[a],
         Counted', Pending(p)' \/ (Persistable(p)' = Persistable(p) /\ revision' = revision)
  PROVE  (OneAtATime /\ Counted /\ ImageIsDue /\ RestIsOnDisk /\ SavedIsOnDisk)'
  <1>1. \A q \in up' : q = p
    BY DEF SaveInv, OneAtATime
  <1>2. OneAtATime'
    BY <1>1 DEF OneAtATime
  <1>3. ImageIsDue'
    BY <1>1 DEF ImageIsDue
  <1>4. RestIsOnDisk'
    BY <1>1 DEF SaveInv, RestIsOnDisk
  <1>5. SavedIsOnDisk'
    BY <1>1 DEF SaveInv, SavedIsOnDisk, Pending
  <1> QED
    BY <1>2, <1>3, <1>4, <1>5

LEMMA SaveInvStep ==
  ASSUME SaveInv, Next, ~Overlap, ~FlakyDisk
  PROVE  SaveInv'
  <1> DEFINE Goal == (OneAtATime /\ Counted /\ ImageIsDue /\ RestIsOnDisk /\ SavedIsOnDisk)'
  <1>t. TypeOK /\ TypeOK'
    BY TypeStep DEF SaveInv
  <1>p. /\ phase \in [Processes -> {"idle", "batch", "read", "write", "rename"}]
        /\ prefs \in [Processes -> Prefs] /\ manifest \in [Processes -> {{}} \union {{m} : m \in Manifests}]
        /\ revision \in [Processes -> 0..MaxRevision] /\ persisted \in [Processes -> 0..MaxRevision]
        /\ touched \in [Processes -> SUBSET Args] /\ up \subseteq Processes
        /\ image \in [Processes -> [Workspaces -> Prefs]]
        /\ file \in [readable : BOOLEAN, entries : [Workspaces -> Prefs]]
    BY <1>t DEF TypeOK
  <1>1. ASSUME NEW p \in Processes, Start(p) PROVE Goal
    <2>1. up = {} /\ working /\ up' = {p}
      BY <1>1, Zenon DEF Start
    <2>2. /\ prefs'[p] = IF file.readable THEN file.entries[WorkspaceOf[p]] ELSE NoPrefs
          /\ manifest'[p] = {} /\ revision'[p] = 0 /\ persisted'[p] = 0 /\ phase'[p] = "idle"
          /\ file' = file
      BY <1>1, <1>p, <2>1 DEF Start, diskVars
    <2>3. file.readable => Persistable(p)' = file'.entries[WorkspaceOf[p]]
      BY <2>2 DEF Persistable, PersistableOf
    <2>4. Counted'
      BY <1>1, <1>p DEF Start, Counted, SaveInv
    <2>5. OneAtATime' /\ ImageIsDue'
      BY <2>1, <2>2 DEF OneAtATime, ImageIsDue
    <2>6. RestIsOnDisk' /\ SavedIsOnDisk'
      BY <2>1, <2>2, <2>3 DEF RestIsOnDisk, SavedIsOnDisk
    <2> QED
      BY <2>4, <2>5, <2>6
  <1>2. ASSUME NEW p \in Processes, NEW m \in Manifests, InfoLoaded(p, m) PROVE Goal
    <2>1. /\ p \in up /\ up' = up /\ persisted' = persisted /\ file' = file
          /\ phase' = [phase EXCEPT ![p] = "batch"]
          /\ prefs' = [prefs EXCEPT ![p] = Reconcile(m, prefs[p])]
          /\ manifest' = [manifest EXCEPT ![p] = {m}]
          /\ touched' = [touched EXCEPT ![p] = touched[p] \union ChangedBy(p, m)]
          /\ IF ChangedBy(p, m) # {} THEN Dirty(p) ELSE UNCHANGED revision
      BY <1>2 DEF InfoLoaded, Handles, diskVars
    <2>2. Persistable(p)' = Overrides(m, Reconcile(m, prefs[p]))
      BY <2>1, <1>p, OverridesAreSound DEF Persistable
    <2>3. Persistable(p) \in Prefs /\ Persistable(p)' \in Prefs
      BY <2>2, <1>p, OverridesAreSound, PersistableIsSound DEF Persistable
    <2>4. \A a \in Args : a \notin touched'[p] => Persistable(p)'[a] = Persistable(p)[a]
      BY <2>1, <2>2, <1>p DEF ChangedBy
    <2>5. CASE ChangedBy(p, m) = {}
      <3>1. \A a \in Args : Persistable(p)'[a] = Persistable(p)[a]
        BY <2>5, <2>2 DEF ChangedBy
      <3>2. Persistable(p)' = Persistable(p)
        BY <3>1, <2>3 DEF Prefs
      <3>3. revision' = revision /\ Counted'
        BY <2>1, <2>5 DEF SaveInv, Counted
      <3> QED
        BY <1>t, <1>p, <2>1, <2>4, <3>2, <3>3, ShownChanges
    <2>6. CASE ChangedBy(p, m) # {}
      <3>1. revision' = [revision EXCEPT ![p] = revision[p] + 1]
        BY <2>1, <2>6 DEF Dirty
      <3>2. Counted' /\ Pending(p)'
        BY <3>1, <2>1, <1>p DEF SaveInv, Counted, Pending
      <3> QED
        BY <1>t, <1>p, <2>1, <2>4, <3>2, ShownChanges
    <2> QED
      BY <2>5, <2>6
  <1>3. ASSUME NEW p \in Processes, NEW a \in Args, NEW v \in Values, SetArg(p, a, v) PROVE Goal
    <2>1. /\ p \in up /\ up' = up /\ persisted' = persisted /\ file' = file /\ manifest' = manifest
          /\ phase' = [phase EXCEPT ![p] = "batch"]
          /\ prefs' = [prefs EXCEPT ![p][a] = v]
          /\ touched' = [touched EXCEPT ![p] = touched[p] \union {a}]
          /\ revision' = [revision EXCEPT ![p] = revision[p] + 1]
      BY <1>3 DEF SetArg, Handles, diskVars, Dirty
    <2>2. PICK m \in Manifests : manifest[p] = {m}
      BY <1>3, <1>p DEF SetArg
    <2>3. prefs'[p] \in Prefs /\ \A b \in Args : b # a => prefs'[p][b] = prefs[p][b]
      BY <2>1, <1>p DEF Prefs
    <2>4. Persistable(p) = Overrides(m, prefs[p]) /\ Persistable(p)' = Overrides(m, prefs'[p])
      <3>1. prefs[p] \in Prefs /\ prefs'[p] \in Prefs /\ manifest'[p] = {m}
        BY <2>1, <2>2, <2>3, <1>p
      <3>2. /\ PersistableOf({m}, prefs[p]) = Overrides(m, prefs[p])
            /\ PersistableOf({m}, prefs'[p]) = Overrides(m, prefs'[p])
        BY <3>1, OverridesAreSound
      <3> QED
        BY <2>2, <3>1, <3>2 DEF Persistable
    <2>5. \A b \in Args : b \notin touched'[p] => Persistable(p)'[b] = Persistable(p)[b]
      BY <2>1, <2>3, <2>4, <1>p DEF Overrides
    <2>6. Counted' /\ Pending(p)'
      BY <2>1, <1>p DEF SaveInv, Counted, Pending
    <2> QED
      BY <1>t, <1>p, <2>1, <2>5, <2>6, ShownChanges
  <1>4. ASSUME NEW p \in Processes, LoadFailed(p) PROVE Goal
    <2>1. /\ p \in up /\ up' = up /\ persisted' = persisted /\ file' = file
          /\ phase' = [phase EXCEPT ![p] = "batch"]
          /\ prefs' = [prefs EXCEPT ![p] = Persistable(p)] /\ manifest' = [manifest EXCEPT ![p] = {}]
          /\ touched' = touched /\ revision' = revision
      BY <1>4 DEF LoadFailed, Handles, diskVars, histVars
    <2>2. Persistable(p)' = Persistable(p)
      BY <2>1, <1>p DEF Persistable, PersistableOf
    <2>3. Counted'
      BY <2>1 DEF SaveInv, Counted
    <2> QED
      BY <1>t, <1>p, <2>1, <2>2, <2>3, ShownChanges
  <1>5. ASSUME NEW p \in Processes, ReadFile(p) PROVE Goal
    <2>1. /\ p \in up /\ up' = up /\ file' = file /\ file.readable
          /\ UNCHANGED <<prefs, manifest, revision, persisted, touched>>
          /\ image' = [image EXCEPT ![p] = [file.entries EXCEPT ![WorkspaceOf[p]] = Persistable(p)]]
      BY <1>5 DEF ReadFile, flushOnly, histVars
    <2>2. \A q \in up : q = p
      BY <2>1 DEF SaveInv, OneAtATime
    <2>3. Persistable(p)' = Persistable(p) /\ Pending(p)' = Pending(p)
      BY <2>1 DEF Persistable, Pending
    <2>4. ImageIsDue'
      BY <2>1, <2>2, <2>3, <1>p DEF ImageIsDue
    <2>5. OneAtATime' /\ Counted' /\ RestIsOnDisk' /\ SavedIsOnDisk'
      BY <2>1, <2>2, <2>3 DEF SaveInv, OneAtATime, Counted, RestIsOnDisk, SavedIsOnDisk
    <2> QED
      BY <2>4, <2>5
  <1>6. ASSUME NEW p \in Processes, Rename(p) PROVE Goal
    <2>1. /\ p \in up /\ up' = up /\ phase[p] = "rename"
          /\ file' = [readable |-> TRUE, entries |-> image[p]]
          /\ UNCHANGED <<prefs, manifest, revision, touched>>
          /\ persisted' = [persisted EXCEPT ![p] = revision[p]] /\ phase' = [phase EXCEPT ![p] = "idle"]
      BY <1>6 DEF Rename, flushOnly, histVars
    <2>2. \A q \in up : q = p
      BY <2>1 DEF SaveInv, OneAtATime
    <2>3. Persistable(p)' = Persistable(p)
      BY <2>1 DEF Persistable
    <2>4. file'.entries[WorkspaceOf[p]] = Persistable(p)
      <3>1. image[p] = [file.entries EXCEPT ![WorkspaceOf[p]] = Persistable(p)]
        BY <2>1 DEF SaveInv, ImageIsDue
      <3>2. file.entries \in [Workspaces -> Prefs] /\ WorkspaceOf[p] \in Workspaces
        BY <1>p
      <3>3. file'.entries = image[p]
        BY <2>1
      <3> QED
        BY <3>1, <3>2, <3>3
    <2>5. Counted'
      BY <2>1, <1>p DEF SaveInv, Counted
    <2>6. OneAtATime' /\ ImageIsDue'
      BY <2>1, <2>2, <1>p DEF OneAtATime, ImageIsDue
    <2>7. RestIsOnDisk' /\ SavedIsOnDisk'
      BY <2>1, <2>2, <2>3, <2>4 DEF RestIsOnDisk, SavedIsOnDisk
    <2> QED
      BY <2>5, <2>6, <2>7
  <1>7. ASSUME NEW p \in Processes, Leave(p) \/ Crash(p) PROVE Goal
    <2>1. p \in up /\ UNCHANGED <<prefs, manifest, revision, persisted, touched, file>> /\ up' = up \ {p}
      BY <1>7 DEF Leave, Crash, stop, diskVars
    <2>2. up' = {}
      BY <2>1 DEF SaveInv, OneAtATime
    <2>3. Counted'
      BY <2>1 DEF SaveInv, Counted
    <2> QED
      BY <2>2, <2>3 DEF OneAtATime, ImageIsDue, RestIsOnDisk, SavedIsOnDisk
  <1>8. ASSUME NEW p \in Processes,
               WriteTemporary(p) \/ SaveFails(p) \/ Flush(p) \/ Tick(p) \/ Quit(p) \/ CooldownEnds(p)
        PROVE Goal
    <2>1. UNCHANGED <<up, prefs, manifest, revision, persisted, image, file, touched>>
      BY <1>8 DEF WriteTemporary, SaveFails, Flush, Tick, Quit, CooldownEnds, Handles, flushOnly,
                  diskVars, histVars
    <2>2. \A q \in Processes : phase'[q] \in {"write", "rename"} => phase[q] \in {"write", "rename"}
      BY <1>8, <1>p DEF WriteTemporary, SaveFails, Flush, Tick, Quit, CooldownEnds, Handles
    <2> QED
      BY <2>1, <2>2, QuietStep
  <1>9. ASSUME DiskFails \/ DiskRecovers PROVE Goal
    <2>1. UNCHANGED <<up, prefs, manifest, revision, persisted, image, file, touched, phase>>
      BY <1>9 DEF DiskFails, DiskRecovers, procVars, histVars
    <2> QED
      BY <2>1, QuietStep
  <1> HIDE DEF Goal
  <1>10. Goal
    BY <1>1, <1>2, <1>3, <1>4, <1>5, <1>6, <1>7, <1>8, <1>9 DEF Next, Save
  <1> QED
    BY <1>t, <1>10 DEF Goal, SaveInv

LEMMA SaveInvariant ==
  ASSUME ~Overlap, ~FlakyDisk
  PROVE  Spec => []SaveInv
  <1>1. Init => SaveInv
    <2>1. ASSUME Init PROVE OneAtATime /\ Counted /\ ImageIsDue /\ RestIsOnDisk /\ SavedIsOnDisk
      <3>1. up = {} /\ \A p \in Processes : persisted[p] = 0 /\ revision[p] = 0
        BY <2>1 DEF Init
      <3> QED
        BY <3>1 DEF OneAtATime, Counted, ImageIsDue, RestIsOnDisk, SavedIsOnDisk
    <2> QED
      BY <2>1, InitTypes DEF SaveInv
  <1>2. ASSUME SaveInv, UNCHANGED vars PROVE SaveInv'
    <2>1. TypeOK'
      BY <1>2 DEF SaveInv, TypeOK, vars, procVars, diskVars, histVars
    <2> QED
      BY <1>2, <2>1, QuietStep DEF SaveInv, vars, procVars, diskVars, histVars
  <1>3. SaveInv /\ [Next]_vars => SaveInv'
    BY <1>2, SaveInvStep
  <1> QED
    BY <1>1, <1>3, PTL DEF Spec

(* One process at a time, a file that can be read when it begins: once     *)
(* nothing is pending, the file holds what the panel shows.                *)
THEOREM SavedIsKept ==
  ASSUME ~Overlap, ~FlakyDisk
  PROVE  Spec => []SavedIsOnDisk
  <1>1. SaveInv => SavedIsOnDisk
    BY DEF SaveInv
  <1> QED
    BY <1>1, SaveInvariant, PTL

(* Then a save also changes no entry but its own and no value there that   *)
(* the process has not changed itself.                                     *)
THEOREM SavesAreModest ==
  ASSUME ~Overlap, ~FlakyDisk
  PROVE  Spec => SaveLeavesTheRest
  <1> DEFINE Modest == \A p \in Processes : Rename(p) =>
                \A w \in Workspaces, a \in Args :
                  (w # WorkspaceOf[p] \/ a \notin touched[p]) =>
                     file'.entries[w][a] = file.entries[w][a]
  <1>1. ASSUME SaveInv PROVE [Modest]_file
    <2>1. ASSUME NEW p \in Processes, Rename(p), NEW w \in Workspaces, NEW a \in Args,
                 w # WorkspaceOf[p] \/ a \notin touched[p]
          PROVE  file'.entries[w][a] = file.entries[w][a]
      <3>1. file'.entries = [file.entries EXCEPT ![WorkspaceOf[p]] = Persistable(p)] /\ file.readable
        BY <1>1, <2>1 DEF SaveInv, ImageIsDue, Rename
      <3>2. file.entries \in [Workspaces -> Prefs]
        BY <1>1 DEF SaveInv, TypeOK
      <3>3. p \in up
        BY <2>1 DEF Rename
      <3>4. CASE w # WorkspaceOf[p]
        BY <3>1, <3>2, <3>4
      <3>5. CASE w = WorkspaceOf[p]
        <4>1. Persistable(p)[a] = file.entries[w][a]
          BY <1>1, <2>1, <3>1, <3>3, <3>5 DEF SaveInv, RestIsOnDisk
        <4> QED
          BY <4>1, <3>1, <3>2, <3>5
      <3> QED
        BY <3>4, <3>5
    <2> QED
      BY <2>1
  <1> HIDE DEF Modest
  <1>2. Spec => [][Modest]_file
    BY <1>1, SaveInvariant, PTL
  <1> QED
    BY <1>2 DEF Modest, SaveLeavesTheRest

-----------------------------------------------------------------------------
(* What ties the panel, the disk and the choices of the user together:     *)
(* while a process runs its overrides are the choices for its workspace;   *)
(* when it has ended with nothing pending, the file holds them.            *)
ChosenInv ==
  /\ \A w \in Workspaces : certain[w] => file.readable
  /\ \A p \in up : certain[WorkspaceOf[p]] => Persistable(p) = chosen[WorkspaceOf[p]]
  /\ \A w \in Workspaces :
       certain[w] /\ (\A p \in up : WorkspaceOf[p] # w) => file.entries[w] = chosen[w]

\* Nothing that the invariant relates has changed.
LEMMA RestedChosen ==
  ASSUME SaveInv, ChosenInv, UNCHANGED <<up, file, chosen, certain>>,
         \A p \in up : Persistable(p)' = Persistable(p)
  PROVE  ChosenInv'
  <1>1. up \subseteq Processes /\ \A p \in Processes : WorkspaceOf[p] \in Workspaces
    BY DEF SaveInv, TypeOK
  <1> QED
    BY <1>1 DEF ChosenInv

\* The only process shows something new, which is chosen thereby.
LEMMA ShownChosen ==
  ASSUME SaveInv, TypeOK', ChosenInv, NEW p \in up, UNCHANGED <<up, file>>, Shows(p),
         certain' = [certain EXCEPT ![WorkspaceOf[p]] = file.readable]
  PROVE  ChosenInv'
  <1>1. p \in Processes /\ WorkspaceOf[p] \in Workspaces /\ (\A q \in up : q = p)
    BY DEF SaveInv, OneAtATime, TypeOK
  <1>2. /\ chosen \in [Workspaces -> Prefs] /\ certain \in [Workspaces -> BOOLEAN]
    BY DEF SaveInv, TypeOK
  <1>3. Persistable(p)' = chosen'[WorkspaceOf[p]]
    BY <1>1, <1>2 DEF Shows, Persistable
  <1>4. certain'[WorkspaceOf[p]] = file.readable
    BY <1>1, <1>2
  <1>5. \A w \in Workspaces : w # WorkspaceOf[p] => certain'[w] = certain[w] /\ chosen'[w] = chosen[w]
    BY <1>1, <1>2 DEF Shows
  <1>6. \A w \in Workspaces : certain'[w] => file'.readable
    BY <1>4, <1>5 DEF ChosenInv
  <1>7. \A q \in up' : certain'[WorkspaceOf[q]] => Persistable(q)' = chosen'[WorkspaceOf[q]]
    BY <1>1, <1>3
  <1>8. \A w \in Workspaces :
          certain'[w] /\ (\A q \in up' : WorkspaceOf[q] # w) => file'.entries[w] = chosen'[w]
    BY <1>5 DEF ChosenInv
  <1> QED
    BY <1>6, <1>7, <1>8 DEF ChosenInv

LEMMA ChosenStep ==
  ASSUME SaveInv, ChosenInv, Next, ~Overlap, ~FlakyDisk
  PROVE  ChosenInv'
  <1>t. TypeOK /\ TypeOK' /\ SaveInv'
    BY SaveInvStep DEF SaveInv
  <1>p. /\ prefs \in [Processes -> Prefs] /\ manifest \in [Processes -> {{}} \union {{m} : m \in Manifests}]
        /\ up \subseteq Processes /\ file \in [readable : BOOLEAN, entries : [Workspaces -> Prefs]]
        /\ chosen \in [Workspaces -> Prefs] /\ certain \in [Workspaces -> BOOLEAN]
        /\ persisted \in [Processes -> 0..MaxRevision]
    BY <1>t DEF TypeOK
  <1>w. \A p \in Processes : WorkspaceOf[p] \in Workspaces
    OBVIOUS
  <1>1. ASSUME NEW p \in Processes, Start(p) PROVE ChosenInv'
    <2>1. up = {} /\ working /\ up' = {p} /\ UNCHANGED <<file, chosen, certain>>
      BY <1>1, Zenon DEF Start, diskVars
    <2>2. /\ prefs'[p] = IF file.readable THEN file.entries[WorkspaceOf[p]] ELSE NoPrefs
          /\ manifest'[p] = {}
      BY <1>1, <1>p, <2>1 DEF Start
    <2>3. file.readable => Persistable(p)' = file.entries[WorkspaceOf[p]]
      BY <2>2 DEF Persistable, PersistableOf
    <2>4. \A w \in Workspaces : certain[w] => file.readable /\ file.entries[w] = chosen[w]
      BY <2>1 DEF ChosenInv
    <2> QED
      BY <1>w, <2>1, <2>3, <2>4 DEF ChosenInv
  <1>2. ASSUME NEW p \in Processes, NEW m \in Manifests, InfoLoaded(p, m) PROVE ChosenInv'
    BY <1>2, <1>t, ShownChosen DEF InfoLoaded, Handles, diskVars
  <1>3. ASSUME NEW p \in Processes, NEW a \in Args, NEW v \in Values, SetArg(p, a, v) PROVE ChosenInv'
    BY <1>3, <1>t, ShownChosen DEF SetArg, Handles, diskVars
  <1>4. ASSUME NEW p \in Processes, LoadFailed(p) PROVE ChosenInv'
    <2>1. /\ UNCHANGED <<up, file, chosen, certain>>
          /\ prefs' = [prefs EXCEPT ![p] = Persistable(p)] /\ manifest' = [manifest EXCEPT ![p] = {}]
      BY <1>4 DEF LoadFailed, Handles, diskVars, histVars
    <2>2. \A q \in up : Persistable(q)' = Persistable(q)
      BY <2>1, <1>p DEF Persistable, PersistableOf
    <2> QED
      BY <2>1, <2>2, RestedChosen
  <1>5. ASSUME NEW p \in Processes, Rename(p) PROVE ChosenInv'
    <2>1. /\ p \in up /\ up' = up /\ phase[p] = "rename"
          /\ file' = [readable |-> TRUE, entries |-> image[p]]
          /\ UNCHANGED <<prefs, manifest, chosen, certain>>
      BY <1>5 DEF Rename, flushOnly, histVars
    <2>2. \A q \in Processes : Persistable(q)' = Persistable(q)
      BY <2>1 DEF Persistable
    <2>3. file'.readable /\ file'.entries = [file.entries EXCEPT ![WorkspaceOf[p]] = Persistable(p)]
      BY <2>1 DEF SaveInv, ImageIsDue
    <2>4. \A w \in Workspaces : w # WorkspaceOf[p] => file'.entries[w] = file.entries[w]
      BY <1>p, <2>3
    <2> QED
      BY <1>p, <2>1, <2>2, <2>3, <2>4 DEF ChosenInv
  <1>6. ASSUME NEW p \in Processes, Leave(p) \/ Crash(p) PROVE ChosenInv'
    <2>1. /\ p \in up /\ up' = up \ {p} /\ UNCHANGED <<file, chosen>>
          /\ certain' = [certain EXCEPT ![WorkspaceOf[p]] = certain[WorkspaceOf[p]] /\ ~Pending(p)]
      BY <1>6 DEF Leave, Crash, stop, diskVars
    <2>2. up' = {} /\ \A q \in up : q = p
      BY <2>1 DEF SaveInv, OneAtATime
    <2>3. \A w \in Workspaces : certain'[w] => certain[w] /\ (w = WorkspaceOf[p] => ~Pending(p))
      BY <1>p, <1>w, <2>1
    <2>4. ~Pending(p) /\ file.readable => file.entries[WorkspaceOf[p]] = Persistable(p)
      BY <2>1 DEF SaveInv, SavedIsOnDisk
    <2>5. ASSUME NEW w \in Workspaces, certain'[w] PROVE file.readable /\ file.entries[w] = chosen[w]
      <3>1. certain[w] /\ file.readable
        BY <2>3, <2>5 DEF ChosenInv
      <3>2. CASE w = WorkspaceOf[p]
        BY <2>1, <2>3, <2>4, <2>5, <3>1, <3>2 DEF ChosenInv
      <3>3. CASE w # WorkspaceOf[p]
        BY <2>2, <3>1, <3>3 DEF ChosenInv
      <3> QED
        BY <3>1, <3>2, <3>3
    <2> QED
      BY <2>1, <2>2, <2>5 DEF ChosenInv
  <1>7. ASSUME NEW p \in Processes,
               ReadFile(p) \/ WriteTemporary(p) \/ SaveFails(p) \/ Flush(p) \/ Tick(p) \/ Quit(p)
                 \/ CooldownEnds(p)
        PROVE ChosenInv'
    <2>1. UNCHANGED <<up, prefs, manifest, file, chosen, certain>>
      BY <1>7 DEF ReadFile, WriteTemporary, SaveFails, Flush, Tick, Quit, CooldownEnds, Handles,
                  flushOnly, diskVars, histVars
    <2> QED
      BY <2>1, RestedChosen DEF Persistable
  <1>8. ASSUME DiskFails \/ DiskRecovers PROVE ChosenInv'
    <2>1. UNCHANGED <<up, prefs, manifest, file, chosen, certain>>
      BY <1>8 DEF DiskFails, DiskRecovers, procVars, histVars
    <2> QED
      BY <2>1, RestedChosen DEF Persistable
  <1> QED
    BY <1>1, <1>2, <1>3, <1>4, <1>5, <1>6, <1>7, <1>8 DEF Next, Save

LEMMA ChosenInvariant ==
  ASSUME ~Overlap, ~FlakyDisk
  PROVE  Spec => [](SaveInv /\ ChosenInv)
  <1>1. Init => ChosenInv
    BY DEF Init, ChosenInv
  <1>2. ASSUME SaveInv, ChosenInv, UNCHANGED vars PROVE ChosenInv'
    BY <1>2, RestedChosen DEF Persistable, vars, procVars, diskVars, histVars
  <1>3. SaveInv /\ ChosenInv /\ [Next]_vars => ChosenInv'
    BY <1>2, ChosenStep
  <1> QED
    BY <1>1, <1>3, SaveInvariant, PTL DEF Spec

(* Then whatever the manifests were before, however often they failed to   *)
(* load and however processes ended, provided that the last one had saved: *)
(* a panel that gets its manifest shows what the user had chosen, or the   *)
(* manifest's default where nothing else is allowed or was chosen.         *)
THEOREM ChoicesReturn ==
  ASSUME ~Overlap, ~FlakyDisk
  PROVE  Spec => ReturnsAsChosen
  <1> DEFINE Returns ==
        \A p \in Processes, m \in Manifests :
          (InfoLoaded(p, m) /\ manifest[p] = {} /\ certain[WorkspaceOf[p]])
            => \A a \in Args : m[a].allowed # {} =>
                 prefs'[p][a] = IF chosen[WorkspaceOf[p]][a] \in m[a].allowed
                                THEN chosen[WorkspaceOf[p]][a] ELSE m[a].default
  <1>1. ASSUME SaveInv, ChosenInv PROVE [Returns]_manifest
    <2>1. ASSUME NEW p \in Processes, NEW m \in Manifests, InfoLoaded(p, m), manifest[p] = {},
                 certain[WorkspaceOf[p]]
          PROVE  \A a \in Args : m[a].allowed # {} =>
                   prefs'[p][a] = IF chosen[WorkspaceOf[p]][a] \in m[a].allowed
                                  THEN chosen[WorkspaceOf[p]][a] ELSE m[a].default
      <3>1. p \in up /\ prefs' = [prefs EXCEPT ![p] = Reconcile(m, prefs[p])]
        BY <2>1 DEF InfoLoaded, Handles
      <3>2. prefs[p] = chosen[WorkspaceOf[p]]
        BY <1>1, <2>1, <3>1 DEF ChosenInv, Persistable, PersistableOf
      <3>3. prefs'[p] = Reconcile(m, chosen[WorkspaceOf[p]])
        BY <1>1, <3>1, <3>2 DEF SaveInv, TypeOK
      <3> QED
        BY <3>3 DEF Reconcile
    <2> QED
      BY <2>1
  <1> HIDE DEF Returns
  <1>2. Spec => [][Returns]_manifest
    BY <1>1, ChosenInvariant, PTL
  <1> QED
    BY <1>2 DEF Returns, ReturnsAsChosen
=============================================================================
