------------------------------ MODULE Output_proofs -----------------------------
(***************************************************************************)
(* The output of tests, from the pipes of nextest to the rows of the pane. *)
(* First OutputCapture: what was printed is shown, and a framed event      *)
(* once, for any tests, chunks, frames and polls.  The inductive invariant *)
(* says where every piece of output is: given to a pane, in the hands of a *)
(* task, in a collector, in a block, or in a line not yet read; and what   *)
(* the tracker of snapshots may forget without anything being lost.  Then  *)
(* Scroll and OutputPane: what is shown of it, and what a search finds.    *)
(***************************************************************************)
EXTENDS OutputCapture, OutputPane, FiniteSetTheorems, SequenceTheorems, NaturalsInduction,
        WellFoundedInduction, TLAPS

-----------------------------------------------------------------------------
(* A set of naturals that is not empty has a least element: what stands    *)
(* for induction here.                                                     *)
LEMMA Least ==
  ASSUME NEW T, T \subseteq Nat, T # {}
  PROVE  \E n \in T : \A m \in T : n <= m
<1>1. IsWellFoundedOn(OpToRel(<, Nat), Nat)
  BY NatLessThanWellFounded
<1>2. PICK n \in T : \A m \in T : ~(<<m, n>> \in OpToRel(<, Nat))
  BY <1>1, WFMin
<1>3. \A m \in T : m < n => <<m, n>> \in OpToRel(<, Nat)
  BY DEF OpToRel
<1>4. \A m \in T : ~(m < n) => n <= m
  OBVIOUS
<1> QED
  BY <1>2, <1>3, <1>4

(* FlattenSeq joins its sequences one after the other.                     *)
LEMMA FlattenedBy ==
  ASSUME NEW S, NEW ss \in Seq(Seq(S)), ss # <<>>
  PROVE  \E f \in [1..Len(ss) -> Seq(S)] :
           /\ FlattenSeq(ss) = f[Len(ss)]
           /\ \A i \in 1..Len(ss) : f[i] = IF i = 1 THEN ss[i] ELSE f[i - 1] \o ss[i]
<1> DEFINE n == Len(ss)
           Piece(f, i) == IF i = 1 THEN ss[i] ELSE f[i - 1] \o ss[i]
           Stage(f) == [i \in 1..n |-> Piece(f, i)]
           Partial(m, g) == g \in [1..m -> Seq(S)] /\ \A i \in 1..m : g[i] = Piece(g, i)
           flatten == CHOOSE f : f = Stage(f)
<1>n. n \in Nat /\ n # 0 /\ \A i \in 1..n : ss[i] \in Seq(S)
  OBVIOUS
<1>1. \A m \in 0..n : \E g : Partial(m, g)
  <2> DEFINE missing == {m \in 0..n : ~\E g : Partial(m, g)}
  <2> SUFFICES ASSUME missing # {}
               PROVE  FALSE
    OBVIOUS
  <2>0. missing \subseteq Nat
    BY <1>n
  <2>1. PICK m \in missing : \A k \in missing : m <= k
    <3> HIDE DEF missing
    <3> QED
      BY <2>0, Least
  <2>2. Partial(0, [i \in {} |-> <<>>])
    OBVIOUS
  <2>3. m \in 1..n /\ m - 1 \in 0..n /\ m - 1 \notin missing
    <3> HIDE DEF Partial, n
    <3>1. m # 0 /\ m \in 0..n
      BY <2>2
    <3>2. m \in 1..n /\ m - 1 \in 0..n /\ ~(m <= m - 1)
      BY <3>1, <1>n
    <3> HIDE DEF missing
    <3> QED
      BY <2>1, <3>2
  <2>4. PICK g : Partial(m - 1, g)
    <3> HIDE DEF Partial, n
    <3> QED
      BY <2>3
  <2>g. \A i \in 1..m - 1 : g[i] = Piece(g, i)
    BY <2>4
  <2> DEFINE h == [i \in 1..m |-> IF i = m THEN Piece(g, m) ELSE g[i]]
  <2>5. Piece(g, m) \in Seq(S)
    <3>1. CASE m = 1
      BY <3>1, <1>n, <2>3
    <3>2. CASE m # 1
      <4>1. g[m - 1] \in Seq(S) /\ ss[m] \in Seq(S)
        BY <3>2, <1>n, <2>3, <2>4
      <4> QED
        BY <4>1, <3>2
    <3> QED
      BY <3>1, <3>2
  <2>6. \A i \in 1..m : h[i] = Piece(h, i)
    <3> SUFFICES ASSUME NEW i \in 1..m
                 PROVE  h[i] = Piece(h, i)
      OBVIOUS
    <3>1. i # 1 => i - 1 \in 1..m /\ i - 1 # m /\ h[i - 1] = g[i - 1]
      BY <2>3
    <3>2. Piece(h, i) = Piece(g, i)
      BY <3>1
    <3>3. i # m => i \in 1..m - 1 /\ g[i] = Piece(g, i)
      <4>1. i # m => i \in 1..m - 1
        BY <2>3
      <4> HIDE DEF Piece
      <4> QED
        BY <4>1, <2>g
    <3> QED
      BY <3>2, <3>3
  <2>7. h \in [1..m -> Seq(S)]
    BY <2>3, <2>4, <2>5
  <2>8. Partial(m, h)
    BY <2>6, <2>7
  <2> QED
    BY <2>1, <2>8
<1>2. PICK g : Partial(n, g)
  <2> HIDE DEF Partial
  <2> QED
    BY <1>1, <1>n
<1>3. g = Stage(g)
  BY <1>2
<1>4. flatten = Stage(flatten)
  <2> HIDE DEF Stage
  <2> QED
    BY <1>3
<1>5. \A i \in 1..n : flatten[i] \in Seq(S)
  <2> DEFINE bad == {i \in 1..n : flatten[i] \notin Seq(S)}
  <2> HIDE DEF flatten
  <2> SUFFICES ASSUME bad # {}
               PROVE  FALSE
    OBVIOUS
  <2>0. bad \subseteq Nat
    BY <1>n
  <2>1. PICK i \in bad : \A k \in bad : i <= k
    <3> HIDE DEF bad
    <3> QED
      BY <2>0, Least
  <2>2. flatten[i] = Piece(flatten, i)
    BY <1>4
  <2>3. CASE i = 1
    BY <2>1, <2>2, <2>3, <1>n
  <2>4. CASE i # 1
    <3>1. i - 1 \in 1..n /\ i - 1 \notin bad
      BY <2>1, <2>4, <1>n
    <3>2. flatten[i - 1] \in Seq(S) /\ ss[i] \in Seq(S)
      BY <3>1, <1>n
    <3>3. flatten[i - 1] \o ss[i] \in Seq(S)
      BY <3>2
    <3> QED
      BY <2>1, <2>2, <2>4, <3>3
  <2> QED
    BY <2>3, <2>4
<1>6. FlattenSeq(ss) = flatten[n]
  BY <1>n DEF FlattenSeq
<1>7. flatten \in [1..n -> Seq(S)]
  <2> HIDE DEF flatten, Piece
  <2> QED
    BY <1>4, <1>5
<1>8. \A i \in 1..n : flatten[i] = Piece(flatten, i)
  <2> HIDE DEF flatten, Piece
  <2> QED
    BY <1>4
<1> QED
  <2> HIDE DEF flatten
  <2> QED
    BY <1>6, <1>7, <1>8

(* What FlattenSeq makes of sequences over a set is a sequence over it.    *)
LEMMA Flattened ==
  ASSUME NEW S, NEW ss \in Seq(Seq(S))
  PROVE  FlattenSeq(ss) \in Seq(S)
<1>1. CASE ss = <<>>
  <2>1. FlattenSeq(ss) = <<>>
    BY <1>1 DEF FlattenSeq
  <2> QED
    BY <2>1
<1>2. CASE ss # <<>>
  <2>1. Len(ss) \in 1..Len(ss)
    BY <1>2
  <2> QED
    BY <1>2, <2>1, FlattenedBy
<1> QED
  BY <1>1, <1>2

-----------------------------------------------------------------------------
(* Sequences.                                                              *)
LEMMA Concatenated ==
  ASSUME NEW S, NEW s \in Seq(S), NEW t \in Seq(S)
  PROVE  /\ s \o t \in Seq(S)
         /\ Range(s \o t) = Range(s) \union Range(t)
<1>1. /\ s \o t \in Seq(S) /\ Len(s \o t) = Len(s) + Len(t)
      /\ Len(s) \in Nat /\ Len(t) \in Nat
      /\ DOMAIN s = 1..Len(s) /\ DOMAIN t = 1..Len(t) /\ DOMAIN (s \o t) = 1..Len(s) + Len(t)
      /\ \A i \in 1..Len(s) : (s \o t)[i] = s[i]
      /\ \A i \in 1..Len(t) : (s \o t)[Len(s) + i] = t[i]
  OBVIOUS
<1>2. ASSUME NEW x \in Range(s) \union Range(t)
      PROVE  x \in Range(s \o t)
  <2>1. CASE x \in Range(s)
    <3>1. PICK i \in 1..Len(s) : x = s[i]
      BY <1>1, <2>1 DEF Range
    <3>2. i \in 1..Len(s) + Len(t) /\ (s \o t)[i] = x
      BY <1>1, <3>1
    <3> QED
      BY <1>1, <3>2 DEF Range
  <2>2. CASE x \in Range(t)
    <3>1. PICK i \in 1..Len(t) : x = t[i]
      BY <1>1, <2>2 DEF Range
    <3>2. Len(s) + i \in 1..Len(s) + Len(t) /\ (s \o t)[Len(s) + i] = x
      BY <1>1, <3>1
    <3> QED
      BY <1>1, <3>2 DEF Range
  <2> QED
    BY <1>2, <2>1, <2>2
<1>3. ASSUME NEW x \in Range(s \o t)
      PROVE  x \in Range(s) \union Range(t)
  <2>1. PICK i \in 1..Len(s) + Len(t) : x = (s \o t)[i]
    BY <1>1 DEF Range
  <2>2. CASE i \in 1..Len(s)
    BY <1>1, <2>1, <2>2 DEF Range
  <2>3. CASE i \notin 1..Len(s)
    <3>1. i - Len(s) \in 1..Len(t) /\ i = Len(s) + (i - Len(s))
      BY <1>1, <2>1, <2>3
    <3>2. x = t[i - Len(s)]
      BY <1>1, <2>1, <3>1
    <3> QED
      BY <1>1, <3>1, <3>2 DEF Range
  <2> QED
    BY <2>2, <2>3
<1> QED
  BY <1>1, <1>2, <1>3

\* What is in a sequence is its head or in its tail.
LEMMA Emptied ==
  ASSUME NEW S, NEW s \in Seq(S), s # <<>>
  PROVE  /\ Head(s) \in S /\ Tail(s) \in Seq(S)
         /\ Range(s) = {Head(s)} \union Range(Tail(s))
<1>1. /\ Head(s) \in S /\ Tail(s) \in Seq(S) /\ Head(s) = s[1]
      /\ Len(s) \in Nat \ {0} /\ DOMAIN s = 1..Len(s) /\ DOMAIN Tail(s) = 1..Len(s) - 1
      /\ \A i \in 1..Len(s) - 1 : Tail(s)[i] = s[i + 1]
  OBVIOUS
<1>2. ASSUME NEW x \in Range(s)
      PROVE  x \in {Head(s)} \union Range(Tail(s))
  <2>1. PICK i \in 1..Len(s) : x = s[i]
    BY <1>1 DEF Range
  <2>2. CASE i = 1
    BY <1>1, <2>1, <2>2
  <2>3. CASE i # 1
    <3>1. i - 1 \in 1..Len(s) - 1 /\ Tail(s)[i - 1] = x
      BY <1>1, <2>1, <2>3
    <3> QED
      BY <1>1, <3>1 DEF Range
  <2> QED
    BY <2>2, <2>3
<1>3. ASSUME NEW x \in {Head(s)} \union Range(Tail(s))
      PROVE  x \in Range(s)
  <2>1. CASE x = Head(s)
    <3>1. 1 \in 1..Len(s)
      BY <1>1
    <3> QED
      BY <1>1, <2>1, <3>1 DEF Range
  <2>2. CASE x \in Range(Tail(s))
    <3>1. PICK i \in 1..Len(s) - 1 : x = Tail(s)[i]
      BY <1>1, <2>2 DEF Range
    <3>2. i + 1 \in 1..Len(s) /\ s[i + 1] = x
      BY <1>1, <3>1
    <3> QED
      BY <1>1, <3>2 DEF Range
  <2> QED
    BY <1>3, <2>1, <2>2
<1> QED
  BY <1>1, <1>2, <1>3

(* output_delta leaves nothing out that is not in the text before.         *)
LEMMA DeltaFacts ==
  ASSUME NEW S, NEW previous \in Seq(S), NEW current \in Seq(S)
  PROVE  /\ Range(OutputDelta(previous, current)) \subseteq Range(current)
         /\ Range(current) \subseteq Range(previous) \union Range(OutputDelta(previous, current))
<1>n. Len(previous) \in Nat /\ Len(current) \in Nat
  OBVIOUS
<1>d. DOMAIN previous = 1..Len(previous) /\ DOMAIN current = 1..Len(current)
  OBVIOUS
<1>1. CASE current = previous
  <2>1. Range(<<>>) = {}
    BY DEF Range
  <2> QED
    BY <1>1, <2>1 DEF OutputDelta
<1>2. CASE current # previous /\ ~IsPrefix(previous, current)
  BY <1>2 DEF OutputDelta
<1>3. CASE current # previous /\ IsPrefix(previous, current)
  <2> DEFINE n == Len(previous)
             delta == SubSeq(current, n + 1, Len(current))
  <2>1. OutputDelta(previous, current) = delta
    BY <1>3 DEF OutputDelta
  <2>2. n <= Len(current) /\ SubSeq(previous, 1, n) = SubSeq(current, 1, n)
    BY <1>3 DEF IsPrefix
  <2>3. \A i \in 1..n : current[i] = previous[i]
    <3>1. \A i \in 1..n : SubSeq(previous, 1, n)[i] = previous[i]
      OBVIOUS
    <3>2. \A i \in 1..n : SubSeq(current, 1, n)[i] = current[i]
      BY <2>2, <1>n
    <3> QED
      BY <2>2, <3>1, <3>2
  <2>4. /\ DOMAIN delta = 1..Len(current) - n
        /\ \A i \in 1..Len(current) - n : delta[i] = current[n + i]
    BY <2>2, <1>n
  <2> HIDE DEF delta
  <2>5. ASSUME NEW x \in Range(delta)
        PROVE  x \in Range(current)
    <3>1. PICK i \in 1..Len(current) - n : x = delta[i]
      BY <2>4 DEF Range
    <3>2. n + i \in 1..Len(current) /\ x = current[n + i]
      BY <2>2, <2>4, <3>1, <1>n
    <3> QED
      BY <3>2, <1>d DEF Range
  <2>6. ASSUME NEW x \in Range(current)
        PROVE  x \in Range(previous) \union Range(delta)
    <3>1. PICK i \in 1..Len(current) : x = current[i]
      BY <1>d DEF Range
    <3>2. CASE i \in 1..n
      BY <3>1, <3>2, <2>3, <1>d DEF Range
    <3>3. CASE i \notin 1..n
      <4>1. i - n \in 1..Len(current) - n /\ n + (i - n) = i
        BY <3>1, <3>3, <1>n
      <4>2. x = delta[i - n]
        BY <2>4, <3>1, <4>1
      <4> QED
        BY <4>1, <4>2, <2>4 DEF Range
    <3> QED
      BY <3>2, <3>3
  <2> QED
    BY <2>1, <2>5, <2>6
<1> QED
  BY <1>1, <1>2, <1>3

\* Sequences of one and of two elements.
LEMMA Short ==
  ASSUME NEW S, NEW a \in S, NEW b \in S
  PROVE  <<a>> \in Seq(S) /\ <<a, b>> \in Seq(S) /\ Range(<<a>>) = {a}
<1>1. <<a>> \in Seq(S) /\ <<a, b>> \in Seq(S)
  OBVIOUS
<1>2. DOMAIN <<a>> = {1} /\ <<a>>[1] = a
  OBVIOUS
<1>3. Range(<<a>>) = {<<a>>[1]}
  BY <1>2 DEF Range
<1> QED
  BY <1>1, <1>2, <1>3

\* A line more on a pipe.
LEMMA Appended ==
  ASSUME NEW S, NEW s \in Seq(S), NEW x \in S
  PROVE  Append(s, x) \in Seq(S) /\ Range(Append(s, x)) = Range(s) \union {x}
<1> DEFINE t == <<x>>
<1>1. t \in Seq(S) /\ Range(t) = {x}
  BY Short
<1>2. Append(s, x) = s \o t
  OBVIOUS
<1> HIDE DEF t
<1>3. s \o t \in Seq(S) /\ Range(s \o t) = Range(s) \union {x}
  BY <1>1, Concatenated
<1> QED
  BY <1>2, <1>3

-----------------------------------------------------------------------------
(* The invariant, in parts.                                                *)
\* Types.
Kinds == {"none", "started", "ok", "failed", "text", "header", "nameOk", "nameFailed", "runner",
          "bar", "info", "name", "output"}
AnyLine == [kind : Kinds, test : Tests \union {None}, output : Seq(Chunks)]
RecordLine == [kind : {"started", "ok", "failed"}, test : Tests, output : Seq(Chunks)]
LinesType == [text : Seq(Chunks), name : Tests \union {None}, failure : BOOLEAN]
BlockType == [pane : Tests \union {None}, text : Seq(Chunks)]
EventType == [pane : Panes \union {None}, chunks : SUBSET Chunks]
Places == {"read", "final", "observe", "observeInfo", "collect", "runner", "send", "dedupe",
           "flush", "done"}

ErrLine == {line \in AnyLine : line.kind # "text" => line.output = <<>>}
TaskType == [at : Places, then : Places, line : AnyLine, block : BlockType, event : EventType]
SuccessType == [lastStarted : Tests \union {None}, lastSuccess : Tests \union {None},
                candidates : SUBSET Tests, emitted : SUBSET Tests,
                collecting : Tests \union {None}, lines : LinesType]
InfoBlockType == [open : BOOLEAN, key : Tests \union {None}, inOutput : BOOLEAN,
                  text : Seq(Chunks)]

\* nextest and its pipes.
NextestTypes ==
  /\ failing \in Failings
  /\ fate \in [Tests -> {"waiting", "running", "done"}]
  /\ printed \in [Tests -> 0..MaxChunks] /\ exited \in BOOLEAN
  /\ stdout \in Seq(RecordLine) /\ stderr \in Seq(ErrLine)

\* The tasks: a block is held only before it is looked up in the tracker, an
\* event only before it is sent.
TaskTypes ==
  /\ task \in [Readers -> TaskType] /\ task["stderr"].line \in ErrLine
  /\ \A r \in Readers :
       /\ task[r].at = "dedupe" => task[r].block.pane \in Tests
       /\ task[r].at # "dedupe" => task[r].block = Nothing
       /\ task[r].at \notin {"send", "observe", "observeInfo"} => task[r].event = NoOutput
       /\ "done" \in {task[r].at, task[r].then} => task[r].at \in {"dedupe", "send", "done"}

\* The collectors.
CollectorTypes ==
  /\ success \in SuccessType
  /\ success.collecting = None => success.lines = NoLines
  /\ info \in [running : SUBSET Tests, block : InfoBlockType]
  /\ info.block.open \/ info.block = Closed

\* The tracker, and the panes.
TrackerTypes ==
  /\ snapshots \in [Tests -> Seq(Chunks)] /\ seen \subseteq Chunks
  /\ shown \in [Panes \X Chunks -> Nat]

\* All types.
CaptureTypes == NextestTypes /\ TaskTypes /\ CollectorTypes /\ TrackerTypes

\* How far each task is with its pipe.
LoopInv ==
  /\ exited => \A t \in Tests : fate[t] = "done"
  /\ \A r \in Readers :
       task[r].at \notin {"dedupe", "send"} => task[r].then \in {"read", task[r].at}
  /\ LET out == task["stdout"]
     IN /\ out.at \in {"read", "dedupe", "final", "observe", "observeInfo", "send", "done"}
        /\ out.then \in {"read", "final", "done"}
        /\ "done" \in {out.at, out.then} => exited /\ stdout = <<>>
        /\ (out.at \in {"final", "observe", "observeInfo"} \/ out.then = "final") =>
             out.line \in RecordLine
        /\ out.at \in {"observe", "observeInfo"} => out.event.pane = out.line.test
  /\ LET err == task["stderr"]
     IN /\ err.at \in {"read", "dedupe", "collect", "runner", "send", "flush", "done"}
        /\ err.then \in {"read", "collect", "runner", "flush", "done"}
        /\ {err.at, err.then} \intersect {"flush", "done"} # {} =>
             exited /\ stderr = <<>> /\ info.block = Closed
        /\ "done" \in {err.at, err.then} => success.collecting = None

\* A chunk was given to a pane, or is about to be.
Has(dest, c) ==
  \/ shown[<<dest, c>>] > 0
  \/ \E r \in Readers : task[r].event.pane = dest /\ c \in task[r].event.chunks

\* What a snapshot contains was given to its test, but for events, which may
\* have been given to another one.
SnapInv ==
  \A t \in Tests : \A c \in Range(snapshots[t]) :
    IF c[2] \in Frames THEN c \in seen ELSE Has(t, c)

\* An event that was seen has been given to a test.
SeenInv == \A c \in seen : \E t \in Tests : Has(t, c)

\* A task is about to send the chunk.
Pending(r, c) == task[r].event.pane \in Tests /\ c \in task[r].event.chunks

\* A framed event is with one task, or with one test and once.
OnceInv ==
  \A c \in Chunks : c[2] \in Frames =>
    /\ \A t \in Tests : Has(t, c) => c \in seen
    /\ ~(Pending("stdout", c) /\ Pending("stderr", c))
    /\ \A r \in Readers, t \in Tests : Pending(r, c) => shown[<<t, c>>] = 0
    /\ \A t \in Tests : shown[<<t, c>>] <= 1
    /\ \A t, u \in Tests : shown[<<t, c>>] > 0 /\ shown[<<u, c>>] > 0 => t = u

\* What the tracker leaves out is somewhere else.
DedupInv == SnapInv /\ SeenInv /\ OnceInv

\* The chunk is in a record of the test that has not been looked at.
InRecord(t, c) ==
  \/ \E line \in Range(stdout) :
       line.kind # "started" /\ line.test = t /\ c \in Range(line.output)
  \/ /\ "final" \in {task["stdout"].at, task["stdout"].then}
     /\ task["stdout"].line.kind # "started" /\ task["stdout"].line.test = t
     /\ c \in Range(task["stdout"].line.output)

\* The text of a failed test is with the test, or its record is to be read.
FailedInv ==
  \A t \in failing : \A k \in 1..printed[t] :
    fate[t] = "done" /\ k \notin Frames => Has(t, <<t, k>>) \/ InRecord(t, <<t, k>>)

\* The chunk is on its way through stderr.
InStderr(c) ==
  \/ \E line \in Range(stderr) : c \in Range(line.output)
  \/ /\ {task["stderr"].at, task["stderr"].then} \intersect {"collect", "runner"} # {}
     /\ c \in Range(task["stderr"].line.output)
  \/ info.block.key # None /\ c \in Range(info.block.text)
  \/ success.collecting # None /\ c \in Range(success.lines.text)
  \/ \E r \in Readers : c \in Range(task[r].block.text)

\* No line that names a failure.
NoFailure ==
  /\ \A line \in Range(stderr) : line.kind # "nameFailed"
  /\ task["stderr"].line.kind # "nameFailed" /\ ~success.lines.failure

\* Without failures every chunk is with a pane or on its way.
LossInv ==
  failing = {} =>
    /\ NoFailure
    /\ \A t \in Tests : \A k \in 1..printed[t] :
         fate[t] = "done" => InStderr(<<t, k>>) \/ \E dest \in Panes : Has(dest, <<t, k>>)

\* The inductive invariant.
CaptureInv == CaptureTypes /\ LoopInv /\ DedupInv /\ FailedInv /\ LossInv

\* What output_chunks finds new, and that the rest is known already.
LEMMA NewFacts ==
  ASSUME CaptureTypes, NEW t \in Tests, NEW output \in Seq(Chunks)
  PROVE  /\ NewChunks(t, output) \subseteq Range(output) /\ NewChunks(t, output) \subseteq Chunks
         /\ Range(output) \subseteq Chunks
         /\ \A c \in NewChunks(t, output) : c[2] \in Frames => c \notin seen
         /\ \A c \in Range(output) :
              \/ c \in NewChunks(t, output) \/ c \in Range(snapshots[t])
              \/ c[2] \in Frames /\ c \in seen
<1>1. snapshots[t] \in Seq(Chunks)
  BY DEF CaptureTypes, TrackerTypes
<1>2. /\ Range(OutputDelta(snapshots[t], output)) \subseteq Range(output)
      /\ Range(output) \subseteq Range(snapshots[t]) \union Range(OutputDelta(snapshots[t], output))
  BY <1>1, DeltaFacts
<1>3. Range(output) \subseteq Chunks
  BY DEF Range
<1> QED
  BY <1>2, <1>3 DEF NewChunks, IsNew

-----------------------------------------------------------------------------
(* Chunks that were seen: what the collectors' locks guarantee.            *)

\* Whatever a pane had, it still has.
Keeps == \A dest \in Panes : \A c \in Chunks : Has(dest, c) => Has(dest, c)'

\* output_chunks under its lock: what it takes out of a text was given to a
\* pane before, and no event gets into the hands of both tasks.
LEMMA RememberKeeps ==
  ASSUME CaptureTypes, DedupInv, NEW r \in Readers, NEW t \in Tests, NEW output \in Seq(Chunks),
         Remember(t, output), UNCHANGED shown, task[r].event = NoOutput,
         task'[r].event.chunks = NewChunks(t, output),
         NewChunks(t, output) # {} => task'[r].event.pane = t,
         \A q \in Readers \ {r} : task'[q].event = task[q].event
  PROVE  /\ DedupInv' /\ Keeps
         /\ \A c \in Range(output) : c[2] \notin Frames => Has(t, c)'
         /\ \A c \in Range(output) : \E u \in Tests : Has(u, c)'
<1> DEFINE fresh == NewChunks(t, output)
<1>1. /\ fresh \subseteq Range(output) /\ fresh \subseteq Chunks /\ Range(output) \subseteq Chunks
      /\ \A c \in fresh : c[2] \in Frames => c \notin seen
      /\ \A c \in Range(output) :
           c \in fresh \/ c \in Range(snapshots[t]) \/ (c[2] \in Frames /\ c \in seen)
  BY NewFacts
<1>2. /\ snapshots' = [snapshots EXCEPT ![t] = output]
      /\ seen' = seen \union {c \in fresh : c[2] \in Frames}
      /\ snapshots \in [Tests -> Seq(Chunks)] /\ seen \subseteq Chunks
  BY DEF Remember, CaptureTypes, TrackerTypes
<1>e. /\ task[r].event = NoOutput /\ task'[r].event.chunks = fresh
      /\ fresh # {} => task'[r].event.pane = t
      /\ \A q \in Readers \ {r} : task'[q].event = task[q].event
      /\ shown' = shown
  OBVIOUS
<1>n. NoOutput.chunks = {} /\ Tests \subseteq Panes
  BY DEF NoOutput, Output, Panes
<1> HIDE DEF fresh
<1>3. ASSUME NEW dest, NEW c, Has(dest, c)
      PROVE  Has(dest, c)'
  <2>1. CASE shown[<<dest, c>>] > 0
    BY <2>1, <1>e DEF Has
  <2>2. CASE \E q \in Readers : task[q].event.pane = dest /\ c \in task[q].event.chunks
    BY <2>2, <1>e, <1>n DEF Has
  <2> QED
    BY <1>3, <2>1, <2>2 DEF Has
<1>4. ASSUME NEW c \in fresh
      PROVE  Has(t, c)'
  BY <1>e, <1>4 DEF Has
<1>5. \A c \in Range(output) : c[2] \notin Frames => Has(t, c)'
  BY <1>1, <1>3, <1>4 DEF DedupInv, SnapInv
<1>6. ASSUME NEW c \in seen
      PROVE  \E u \in Tests : Has(u, c)'
  BY <1>3 DEF DedupInv, SeenInv
<1>7. \A c \in Range(output) : \E u \in Tests : Has(u, c)'
  <2> SUFFICES ASSUME NEW c \in Range(output)
               PROVE  \E u \in Tests : Has(u, c)'
    OBVIOUS
  <2>1. CASE c \in seen
    BY <2>1, <1>6
  <2>2. CASE c \notin seen
    <3>1. c \in fresh \/ c[2] \notin Frames
      BY <2>2, <1>1 DEF DedupInv, SnapInv
    <3> QED
      BY <3>1, <1>4, <1>5
  <2> QED
    BY <2>1, <2>2
<1>8. SnapInv'
  <2> SUFFICES ASSUME NEW u \in Tests, NEW c \in Range(snapshots'[u])
               PROVE  IF c[2] \in Frames THEN c \in seen' ELSE Has(u, c)'
    BY DEF SnapInv
  <2>1. CASE u = t
    <3>1. c \in Range(output)
      BY <2>1, <1>2
    <3>2. c[2] \in Frames => c \in seen'
      BY <3>1, <1>1, <1>2 DEF DedupInv, SnapInv
    <3> QED
      BY <2>1, <3>1, <3>2, <1>5
  <2>2. CASE u # t
    <3>1. c \in Range(snapshots[u])
      BY <2>2, <1>2
    <3> QED
      BY <3>1, <1>2, <1>3 DEF DedupInv, SnapInv
  <2> QED
    BY <2>1, <2>2
<1>9. SeenInv'
  BY <1>2, <1>4, <1>6 DEF SeenInv
<1>10. OnceInv'
  <2> SUFFICES ASSUME NEW c \in Chunks, c[2] \in Frames
               PROVE  /\ \A u \in Tests : Has(u, c)' => c \in seen'
                      /\ ~(Pending("stdout", c)' /\ Pending("stderr", c)')
                      /\ \A q \in Readers, u \in Tests : Pending(q, c)' => shown'[<<u, c>>] = 0
                      /\ \A u \in Tests : shown'[<<u, c>>] <= 1
                      /\ \A u, v \in Tests : shown'[<<u, c>>] > 0 /\ shown'[<<v, c>>] > 0 => u = v
    BY DEF OnceInv
  <2>1. /\ \A u \in Tests : Has(u, c) => c \in seen
        /\ ~(Pending("stdout", c) /\ Pending("stderr", c))
        /\ \A q \in Readers, u \in Tests : Pending(q, c) => shown[<<u, c>>] = 0
        /\ \A u \in Tests : shown[<<u, c>>] <= 1
        /\ \A u, v \in Tests : shown[<<u, c>>] > 0 /\ shown[<<v, c>>] > 0 => u = v
    BY DEF DedupInv, OnceInv
  <2>2. CASE c \notin fresh
    <3>1. ~Pending(r, c)' /\ \A q \in Readers \ {r} : Pending(q, c)' <=> Pending(q, c)
      BY <2>2, <1>e DEF Pending
    <3>2. \A u \in Tests : Has(u, c)' => Has(u, c)
      BY <2>2, <1>e DEF Has
    <3> QED
      BY <2>1, <3>1, <3>2, <1>2, <1>e DEF Readers
  <2>3. CASE c \in fresh
    <3>1. c \notin seen /\ c \in seen'
      BY <2>3, <1>1, <1>2
    <3>2. \A u \in Tests : shown[<<u, c>>] = 0
      <4> SUFFICES ASSUME NEW u \in Tests
                   PROVE  shown[<<u, c>>] = 0
        OBVIOUS
      <4>1. ~(shown[<<u, c>>] > 0)
        BY <2>1, <3>1 DEF Has
      <4>2. shown[<<u, c>>] \in Nat
        BY <1>n DEF CaptureTypes, TrackerTypes
      <4> QED
        BY <4>1, <4>2
    <3>3. \A q \in Readers \ {r} : ~Pending(q, c)'
      BY <2>1, <3>1, <1>e DEF Pending, Has
    <3> QED
      BY <3>1, <3>2, <3>3, <1>e DEF Readers
  <2> QED
    BY <2>2, <2>3
<1> QED
  BY <1>3, <1>5, <1>7, <1>8, <1>9, <1>10 DEF DedupInv, Keeps

\* An event that is sent moves from the task to the pane.
LEMMA ShowKeeps ==
  ASSUME CaptureTypes, DedupInv, NEW r \in Readers, Show(task[r].event),
         UNCHANGED <<snapshots, seen>>, task'[r].event = NoOutput,
         \A q \in Readers \ {r} : task'[q].event = task[q].event
  PROVE  DedupInv' /\ Keeps
<1> DEFINE e == task[r].event
           given(dest, c) == e.pane = dest /\ c \in e.chunks
<1>1. /\ shown \in [Panes \X Chunks -> Nat] /\ snapshots \in [Tests -> Seq(Chunks)]
      /\ seen \subseteq Chunks /\ Tests \subseteq Panes
  BY DEF CaptureTypes, TrackerTypes, Panes
<1>2. \A dest \in Panes : \A c \in Chunks :
        shown'[<<dest, c>>] = IF given(dest, c) THEN shown[<<dest, c>>] + 1 ELSE shown[<<dest, c>>]
  BY <1>1 DEF Show
<1>n. NoOutput.chunks = {}
  BY DEF NoOutput, Output
<1>3. ASSUME NEW dest \in Panes, NEW c \in Chunks
      PROVE  Has(dest, c) <=> Has(dest, c)'
  <2>1. shown[<<dest, c>>] \in Nat
    BY <1>1
  <2>2. Has(dest, c)' <=> \/ shown'[<<dest, c>>] > 0
                          \/ \E q \in Readers \ {r} : task[q].event.pane = dest
                                                      /\ c \in task[q].event.chunks
    BY <1>n DEF Has
  <2>3. Has(dest, c) <=> \/ shown[<<dest, c>>] > 0 \/ given(dest, c)
                         \/ \E q \in Readers \ {r} : task[q].event.pane = dest
                                                     /\ c \in task[q].event.chunks
    BY DEF Has
  <2>4. shown'[<<dest, c>>] > 0 <=> shown[<<dest, c>>] > 0 \/ given(dest, c)
    BY <1>2, <2>1
  <2> QED
    BY <2>2, <2>3, <2>4
<1>4. SnapInv'
  <2> SUFFICES ASSUME NEW t \in Tests, NEW c \in Range(snapshots[t])
               PROVE  IF c[2] \in Frames THEN c \in seen ELSE Has(t, c)'
    BY DEF SnapInv
  <2>1. c \in Chunks
    <3>1. snapshots[t] \in Seq(Chunks)
      BY <1>1
    <3> QED
      BY <3>1 DEF Range
  <2> QED
    BY <2>1, <1>1, <1>3 DEF DedupInv, SnapInv
<1>5. SeenInv'
  BY <1>1, <1>3 DEF DedupInv, SeenInv
<1>6. OnceInv'
  <2> SUFFICES ASSUME NEW c \in Chunks, c[2] \in Frames
               PROVE  /\ \A u \in Tests : Has(u, c)' => c \in seen
                      /\ ~(Pending("stdout", c)' /\ Pending("stderr", c)')
                      /\ \A q \in Readers, u \in Tests : Pending(q, c)' => shown'[<<u, c>>] = 0
                      /\ \A u \in Tests : shown'[<<u, c>>] <= 1
                      /\ \A u, v \in Tests : shown'[<<u, c>>] > 0 /\ shown'[<<v, c>>] > 0 => u = v
    BY DEF OnceInv
  <2>1. /\ \A u \in Tests : Has(u, c) => c \in seen
        /\ ~(Pending("stdout", c) /\ Pending("stderr", c))
        /\ \A q \in Readers, u \in Tests : Pending(q, c) => shown[<<u, c>>] = 0
        /\ \A u \in Tests : shown[<<u, c>>] <= 1
        /\ \A u, v \in Tests : shown[<<u, c>>] > 0 /\ shown[<<v, c>>] > 0 => u = v
    BY DEF DedupInv, OnceInv
  <2>2. ~Pending(r, c)' /\ \A q \in Readers \ {r} : Pending(q, c)' <=> Pending(q, c)
    BY <1>n DEF Pending
  <2>3. \A u \in Tests :
          /\ shown[<<u, c>>] \in Nat
          /\ shown'[<<u, c>>] = IF given(u, c) THEN shown[<<u, c>>] + 1 ELSE shown[<<u, c>>]
    BY <1>1, <1>2
  <2>4. \A u \in Tests : Has(u, c)' => c \in seen
    BY <1>1, <1>3, <2>1
  <2>5. CASE ~Pending(r, c)
    <3>1. \A u \in Tests : shown'[<<u, c>>] = shown[<<u, c>>]
      BY <2>3, <2>5 DEF Pending
    <3> QED
      BY <2>1, <2>2, <2>4, <3>1 DEF Readers
  <2>6. CASE Pending(r, c)
    <3>1. \A u \in Tests : shown[<<u, c>>] = 0
      BY <2>1, <2>6
    <3>2. \A q \in Readers \ {r} : ~Pending(q, c)
      BY <2>1, <2>6 DEF Readers
    <3>3. \A u \in Tests : shown'[<<u, c>>] = IF u = e.pane THEN 1 ELSE 0
      BY <2>3, <2>6, <3>1 DEF Pending
    <3>4. \A u \in Tests : shown'[<<u, c>>] <= 1
      BY <3>3
    <3>5. \A u, v \in Tests : shown'[<<u, c>>] > 0 /\ shown'[<<v, c>>] > 0 => u = v
      BY <3>3
    <3> QED
      BY <2>2, <2>4, <3>2, <3>4, <3>5 DEF Readers
  <2> QED
    BY <2>5, <2>6
<1> QED
  BY <1>3, <1>4, <1>5, <1>6 DEF DedupInv, Keeps

\* Nothing is given to a test.
LEMMA StaysKept ==
  ASSUME CaptureTypes, DedupInv, UNCHANGED <<snapshots, seen, shown>>,
         \A q \in Readers : \/ task'[q].event = task[q].event
                            \/ /\ task[q].event = NoOutput
                               /\ task'[q].event.pane \notin Tests \/ task'[q].event.chunks = {}
  PROVE  DedupInv' /\ Keeps
<1>n. NoOutput.chunks = {} /\ Tests \subseteq Panes
  BY DEF NoOutput, Output, Panes
<1>1. ASSUME NEW dest, NEW c, Has(dest, c)
      PROVE  Has(dest, c)'
  BY <1>1, <1>n DEF Has
<1>2. ASSUME NEW t \in Tests, NEW c, Has(t, c)'
      PROVE  Has(t, c)
  BY <1>2 DEF Has
<1>3. \A q \in Readers : \A c : Pending(q, c)' => Pending(q, c)
  BY DEF Pending
<1>4. SnapInv' /\ SeenInv'
  BY <1>1 DEF DedupInv, SnapInv, SeenInv
<1>5. OnceInv'
  BY <1>2, <1>3 DEF DedupInv, OnceInv, Readers
<1> QED
  BY <1>1, <1>4, <1>5 DEF DedupInv, Keeps

-----------------------------------------------------------------------------
(* The types of the steps.                                                 *)
LEMMA Blanks ==
  /\ NoOutput \in EventType /\ NoOutput.chunks = {} /\ NoOutput.pane = None
  /\ Nothing \in BlockType /\ Nothing.text = <<>> /\ Range(Nothing.text) = {}
  /\ NoLines \in LinesType /\ NoLines.text = <<>> /\ NoLines.name = None
  /\ NoLines.failure = FALSE
  /\ Closed \in InfoBlockType /\ Closed.key = None /\ Closed.open = FALSE
  /\ \A t \in Tests \union {None} : /\ OpenAt(t) \in InfoBlockType /\ OpenAt(t).key = t
                                    /\ OpenAt(t).open = TRUE /\ OpenAt(t).text = <<>>
<1>1. NoOutput \in EventType /\ NoOutput.chunks = {} /\ NoOutput.pane = None
  BY DEF NoOutput, Output, EventType
<1>2. Nothing \in BlockType /\ Nothing.text = <<>>
  BY DEF Nothing, Gathered, BlockType
<1>3. Range(Nothing.text) = {}
  BY <1>2 DEF Range
<1>f. FALSE \in BOOLEAN /\ TRUE \in BOOLEAN
  OBVIOUS
<1>4. /\ NoLines \in LinesType /\ NoLines.text = <<>> /\ NoLines.name = None
      /\ NoLines.failure = FALSE
  BY <1>f DEF NoLines, LinesType
<1>5. Closed \in InfoBlockType /\ Closed.key = None /\ Closed.open = FALSE
  BY <1>f DEF Closed, InfoBlockType
<1>6. \A t \in Tests \union {None} : /\ OpenAt(t) \in InfoBlockType /\ OpenAt(t).key = t
                                     /\ OpenAt(t).open = TRUE /\ OpenAt(t).text = <<>>
  BY <1>f DEF OpenAt, InfoBlockType
<1> QED
  BY <1>1, <1>2, <1>3, <1>4, <1>5, <1>6

\* Go moves one task.
LEMMA GoFacts ==
  ASSUME TaskTypes, NEW r \in Readers, NEW at \in Places, NEW then \in Places,
         NEW event \in EventType, Go(r, at, then, event)
  PROVE  /\ task' \in [Readers -> TaskType] /\ task'["stderr"].line \in ErrLine
         /\ task'[r].at = at /\ task'[r].then = then /\ task'[r].block = Nothing
         /\ task'[r].event = event /\ task'[r].line = task[r].line
         /\ \A q \in Readers \ {r} : task'[q] = task[q]
<1>1. task \in [Readers -> TaskType] /\ task["stderr"].line \in ErrLine /\ "stderr" \in Readers
  BY DEF TaskTypes, Readers
<1> DEFINE new == [task[r] EXCEPT !.at = at, !.then = then, !.block = Nothing, !.event = event]
<1>2. /\ new \in TaskType /\ new.at = at /\ new.then = then /\ new.block = Nothing
      /\ new.event = event /\ new.line = task[r].line
  BY <1>1, Blanks DEF TaskType
<1>3. task' = [task EXCEPT ![r] = new]
  BY DEF Go
<1> HIDE DEF new
<1> QED
  BY <1>1, <1>2, <1>3

\* It leaves the types as they are.
LEMMA GoTypes ==
  ASSUME TaskTypes, NEW r \in Readers, NEW at \in Places \ {"dedupe"}, NEW then \in Places,
         NEW event \in EventType, Go(r, at, then, event),
         at \notin {"send", "observe", "observeInfo"} => event = NoOutput,
         "done" \in {at, then} => at \in {"send", "done"}
  PROVE  TaskTypes'
<1>1. /\ task' \in [Readers -> TaskType] /\ task'["stderr"].line \in ErrLine
      /\ task'[r].at = at /\ task'[r].then = then /\ task'[r].block = Nothing
      /\ task'[r].event = event
      /\ \A q \in Readers \ {r} : task'[q] = task[q]
  BY GoFacts
<1> QED
  BY <1>1 DEF TaskTypes

\* finish_event.
LEMMA FinishFacts ==
  ASSUME CollectorTypes
  PROVE  /\ FinishedBlock \in BlockType
         /\ FinishedBlock # Nothing => FinishedBlock.pane \in Tests
         /\ AfterBlock \in SuccessType
         /\ AfterBlock.collecting = None /\ AfterBlock.lines = NoLines
         /\ ~success.lines.failure /\ success.collecting # None =>
              Range(FinishedBlock.text) = Range(success.lines.text)
<1>1. /\ success \in SuccessType /\ success.lines \in LinesType
      /\ success.collecting = None => success.lines = NoLines
  BY DEF CollectorTypes, SuccessType
<1>2. success.collecting # None => BlockKey \in Tests
  BY <1>1 DEF BlockKey, SuccessType
<1>3. success.lines.text \in Seq(Chunks)
  BY <1>1 DEF LinesType
<1>4. /\ FinishedBlock \in BlockType
      /\ FinishedBlock # Nothing => FinishedBlock.pane \in Tests
  <2>1. CASE FinishedBlock = Nothing
    BY <2>1, Blanks
  <2>2. CASE FinishedBlock # Nothing
    <3>1. FinishedBlock = Gathered(BlockKey, success.lines.text) /\ success.collecting # None
      BY <2>2 DEF FinishedBlock
    <3> QED
      BY <3>1, <1>2, <1>3 DEF Gathered, BlockType
  <2> QED
    BY <2>1, <2>2
<1>5. ~success.lines.failure /\ success.collecting # None =>
        Range(FinishedBlock.text) = Range(success.lines.text)
  <2> SUFFICES ASSUME ~success.lines.failure, success.collecting # None
               PROVE  FinishedBlock.text = success.lines.text
    OBVIOUS
  <2>1. CASE success.lines.text = <<>>
    BY <2>1, Blanks DEF FinishedBlock
  <2>2. CASE success.lines.text # <<>>
    BY <2>2 DEF FinishedBlock, Gathered
  <2> QED
    BY <2>1, <2>2
<1>6. /\ AfterBlock \in SuccessType
      /\ AfterBlock.collecting = None /\ AfterBlock.lines = NoLines
  <2> DEFINE closed == [success EXCEPT !.collecting = None, !.lines = NoLines]
  <2>1. closed \in SuccessType /\ closed.collecting = None /\ closed.lines = NoLines
    BY <1>1, Blanks DEF SuccessType
  <2>2. CASE success.collecting = None
    BY <2>2, <1>1 DEF AfterBlock
  <2>3. CASE success.collecting # None /\ success.lines.failure
    BY <2>1, <2>3 DEF AfterBlock
  <2>4. CASE success.collecting # None /\ ~success.lines.failure
    <3>1. AfterBlock = [closed EXCEPT !.candidates = @ \ {BlockKey},
                                      !.emitted = @ \union {BlockKey},
                                      !.lastSuccess = IF @ = BlockKey THEN None ELSE @]
      BY <2>4 DEF AfterBlock
    <3> HIDE DEF closed
    <3> QED
      BY <3>1, <2>1, <2>4, <1>2 DEF SuccessType
  <2> QED
    BY <2>2, <2>3, <2>4
<1> QED
  BY <1>4, <1>5, <1>6

\* consume_success_output_line: what becomes of the lines of the open block.
LEMMA CollectFacts ==
  ASSUME CollectorTypes, NEW line \in AnyLine
  PROVE  LET next == CollectLine(line).next
             consumed == CollectLine(line).consumed
         IN /\ next \in SuccessType /\ (next.collecting = None => next.lines = NoLines)
            /\ EndsBlock(line) => ~consumed /\ next = AfterBlock
            /\ ~EndsBlock(line) /\ success.collecting # None =>
                 /\ consumed /\ next.collecting = success.collecting
                 /\ next.lines = WithLine(success.lines, line)
            /\ ~EndsBlock(line) /\ success.collecting = None =>
                 /\ consumed => line.kind = "header"
                 /\ next.lines = NoLines
            /\ ~consumed => next.collecting = None
<1>1. /\ success \in SuccessType /\ success.lines \in LinesType
      /\ success.collecting = None => success.lines = NoLines
  BY DEF CollectorTypes, SuccessType
<1>2. /\ AfterBlock \in SuccessType
      /\ AfterBlock.collecting = None /\ AfterBlock.lines = NoLines
  BY FinishFacts
<1>3. CASE EndsBlock(line)
  <2>1. line.kind # "header"
    BY <1>3 DEF EndsBlock, IsRecord
  <2>2. CollectLine(line) = [consumed |-> FALSE, next |-> AfterBlock]
    BY <1>2, <1>3, <2>1 DEF CollectLine
  <2> QED
    BY <1>2, <1>3, <2>2
<1>4. CASE ~EndsBlock(line) /\ success.collecting # None
  <2> DEFINE new == [success EXCEPT !.lines = WithLine(success.lines, line)]
  <2>1. CollectLine(line) = [consumed |-> TRUE, next |-> new]
    BY <1>4 DEF CollectLine
  <2>2. WithLine(success.lines, line) \in LinesType
    <3>1. /\ success.lines.text \in Seq(Chunks) /\ line.output \in Seq(Chunks)
          /\ success.lines.name \in Tests \union {None} /\ line.test \in Tests \union {None}
          /\ success.lines.failure \in BOOLEAN
      BY <1>1 DEF LinesType, AnyLine
    <3>2. success.lines.text \o line.output \in Seq(Chunks)
      BY <3>1
    <3>3. (success.lines.failure \/ line.kind = "nameFailed") \in BOOLEAN
      OBVIOUS
    <3> QED
      BY <3>1, <3>2, <3>3 DEF WithLine, LinesType
  <2>3. /\ new \in SuccessType /\ new.collecting = success.collecting
        /\ new.lines = WithLine(success.lines, line)
    BY <2>2, <1>1 DEF SuccessType
  <2> HIDE DEF new
  <2> QED
    BY <1>4, <2>1, <2>3
<1>5. CASE ~EndsBlock(line) /\ success.collecting = None
  <2> DEFINE owner == IF success.lastSuccess # None THEN success.lastSuccess
                      ELSE success.lastStarted
             new == [success EXCEPT !.collecting = owner, !.lines = NoLines, !.lastSuccess = None]
  <2>1. new \in SuccessType /\ new.lines = NoLines
    BY <1>1, Blanks DEF SuccessType
  <2>2. CASE line.kind = "header" /\ owner # None
    <3>1. CollectLine(line) = [consumed |-> TRUE, next |-> new]
      BY <1>5, <2>2 DEF CollectLine
    <3> HIDE DEF new
    <3> QED
      BY <1>5, <2>1, <2>2, <3>1
  <2>3. CASE ~(line.kind = "header" /\ owner # None)
    <3>1. CollectLine(line) = [consumed |-> FALSE, next |-> success]
      BY <1>5, <2>3 DEF CollectLine
    <3> QED
      BY <1>1, <1>5, <3>1
  <2> QED
    BY <2>2, <2>3
<1> QED
  BY <1>3, <1>4, <1>5

\* consume_line of the list of running tests: the text gathered for a test is
\* kept until it is finished, and a line that is taken is part of it or empty.
LEMMA InfoFacts ==
  ASSUME CollectorTypes, NEW line \in ErrLine
  PROVE  LET step == InfoStep(line)
         IN /\ step.block \in InfoBlockType /\ (step.block.open \/ step.block = Closed)
            /\ info.block.key # None /\ ~step.finishes =>
                 /\ step.block.key = info.block.key
                 /\ Range(info.block.text) \subseteq Range(step.block.text)
            /\ step.consumed =>
                 \/ line.output = <<>>
                 \/ step.block.key # None /\ Range(line.output) \subseteq Range(step.block.text)
<1> DEFINE block == info.block
<1>b. block = info.block
  OBVIOUS
<1>1. /\ block \in InfoBlockType
      /\ (block.open \/ block = Closed)
      /\ info.running \subseteq Tests
  BY DEF CollectorTypes
<1> HIDE DEF block
<1>2. /\ line.kind # "text" => line.output = <<>>
      /\ line.output \in Seq(Chunks) /\ line.test \in Tests \union {None}
  BY DEF ErrLine, AnyLine
<1> DEFINE Fits(consumed, finishes, b) ==
             /\ b \in InfoBlockType /\ (b.open \/ b = Closed)
             /\ block.key # None /\ ~finishes =>
                  b.key = block.key /\ Range(block.text) \subseteq Range(b.text)
             /\ consumed =>
                  \/ line.output = <<>>
                  \/ b.key # None /\ Range(line.output) \subseteq Range(b.text)
<1>s. SUFFICES \E consumed, finishes \in BOOLEAN : \E b :
                 InfoStep(line) = Step(consumed, finishes, b) /\ Fits(consumed, finishes, b)
  <2> SUFFICES ASSUME NEW consumed \in BOOLEAN, NEW finishes \in BOOLEAN, NEW b,
                      InfoStep(line) = Step(consumed, finishes, b), Fits(consumed, finishes, b)
               PROVE  /\ InfoStep(line).block \in InfoBlockType
                      /\ (InfoStep(line).block.open \/ InfoStep(line).block = Closed)
                      /\ info.block.key # None /\ ~InfoStep(line).finishes =>
                           /\ InfoStep(line).block.key = info.block.key
                           /\ Range(info.block.text) \subseteq Range(InfoStep(line).block.text)
                      /\ InfoStep(line).consumed =>
                           \/ line.output = <<>>
                           \/ /\ InfoStep(line).block.key # None
                              /\ Range(line.output) \subseteq Range(InfoStep(line).block.text)
    OBVIOUS
  <2>1. /\ InfoStep(line).consumed = consumed /\ InfoStep(line).finishes = finishes
        /\ InfoStep(line).block = b
    BY DEF Step
  <2> QED
    BY <2>1, <1>b
<1>f. FALSE \in BOOLEAN /\ TRUE \in BOOLEAN
  OBVIOUS
<1>3. CASE ~block.open
  <2>1. block = Closed
    BY <1>1, <1>3
  <2>2. \/ line.kind = "info" /\ InfoStep(line) = Step(TRUE, FALSE, OpenAt(None))
        \/ line.kind = "bar" /\ InfoStep(line) = Step(TRUE, FALSE, Closed)
        \/ InfoStep(line) = Step(FALSE, FALSE, Closed)
    BY <1>b, <1>3 DEF InfoStep
  <2> QED
    BY <2>1, <2>2, <1>2, <1>s, <1>b, Blanks
<1>4. CASE block.open
  <2>1. CASE line.kind \in {"header", "runner"}
    <3>1. InfoStep(line) = Step(FALSE, TRUE, Closed)
      BY <1>b, <1>4, <2>1 DEF InfoStep
    <3> QED
      BY <3>1, <1>s, <1>b, Blanks
  <2>2. CASE line.kind \in {"info", "bar"}
    <3>1. InfoStep(line) = Step(TRUE, TRUE, OpenAt(None))
      BY <1>b, <1>4, <2>2 DEF InfoStep
    <3> QED
      BY <3>1, <2>2, <1>2, <1>s, <1>b, Blanks
  <2>3. CASE line.kind = "name" /\ line.test \in info.running
    <3>1. InfoStep(line) = Step(TRUE, TRUE, OpenAt(line.test))
      BY <1>b, <1>4, <2>3 DEF InfoStep
    <3> QED
      BY <3>1, <2>3, <1>2, <1>s, <1>b, Blanks
  <2>4. CASE line.kind = "output"
    <3> DEFINE new == [block EXCEPT !.inOutput = TRUE]
    <3>1. InfoStep(line) = Step(TRUE, FALSE, new)
      BY <1>b, <1>4, <2>4 DEF InfoStep
    <3>t. TRUE \in BOOLEAN
      OBVIOUS
    <3>2. /\ new \in InfoBlockType /\ new.open = block.open /\ new.key = block.key
          /\ new.text = block.text
      BY <1>1, <3>t DEF InfoBlockType
    <3> HIDE DEF new
    <3> QED
      BY <3>1, <3>2, <2>4, <1>2, <1>4, <1>s, <1>b
  <2>5. CASE /\ line.kind \notin {"header", "runner", "info", "bar", "output"}
             /\ ~(line.kind = "name" /\ line.test \in info.running)
             /\ block.inOutput /\ block.key # None
    <3> DEFINE new == [block EXCEPT !.text = block.text \o line.output]
    <3>1. InfoStep(line) = Step(TRUE, FALSE, new)
      BY <1>b, <1>4, <2>5 DEF InfoStep
    <3>2. /\ block.text \in Seq(Chunks) /\ block.text \o line.output \in Seq(Chunks)
          /\ Range(block.text \o line.output) = Range(block.text) \union Range(line.output)
      BY <1>1, <1>2, Concatenated DEF InfoBlockType
    <3>3. /\ new \in InfoBlockType /\ new.open = block.open /\ new.key = block.key
          /\ new.text = block.text \o line.output
      BY <1>1, <3>2 DEF InfoBlockType
    <3> HIDE DEF new
    <3> QED
      BY <3>1, <3>2, <3>3, <2>5, <1>4, <1>s, <1>b
  <2>6. CASE /\ line.kind \notin {"header", "runner", "info", "bar", "output"}
             /\ ~(line.kind = "name" /\ line.test \in info.running)
             /\ ~(block.inOutput /\ block.key # None)
    <3>1. InfoStep(line) = Step(FALSE, TRUE, Closed)
      BY <1>b, <1>4, <2>6 DEF InfoStep
    <3> QED
      BY <3>1, <1>s, <1>b, Blanks
  <2> QED
    BY <2>1, <2>2, <2>3, <2>4, <2>5, <2>6
<1> QED
  BY <1>3, <1>4

-----------------------------------------------------------------------------
(* What was printed stays where it is looked for.                          *)
LEMMA Located ==
  ASSUME CaptureTypes, NEW t \in Tests, NEW k \in 1..printed[t]
  PROVE  <<t, k>> \in Chunks /\ printed[t] \in 0..MaxChunks
<1>1. printed[t] \in 0..MaxChunks /\ MaxChunks \in Nat
  BY CaptureAssumption DEF CaptureTypes, NextestTypes
<1> QED
  BY <1>1 DEF Chunks

\* The text of failed tests: a step that leaves it in its record or gives it
\* to a pane.
LEMMA FailedStays ==
  ASSUME CaptureTypes, FailedInv, Keeps, UNCHANGED failing,
         \A t \in Tests : fate'[t] = "done" => fate[t] = "done" /\ printed'[t] = printed[t],
         \A t \in Tests : \A c \in Chunks :
           c[2] \notin Frames /\ InRecord(t, c) => InRecord(t, c)' \/ Has(t, c)'
  PROVE  FailedInv'
<1> SUFFICES ASSUME NEW t \in failing, NEW k \in 1..printed'[t], fate'[t] = "done",
                    k \notin Frames
             PROVE  Has(t, <<t, k>>)' \/ InRecord(t, <<t, k>>)'
  BY DEF FailedInv
<1>1. t \in Tests /\ t \in Panes
  BY CaptureAssumption DEF CaptureTypes, NextestTypes, Panes
<1>2. fate[t] = "done" /\ k \in 1..printed[t]
  BY <1>1
<1>3. <<t, k>> \in Chunks /\ <<t, k>>[2] = k
  BY <1>1, <1>2, Located
<1>4. Has(t, <<t, k>>) \/ InRecord(t, <<t, k>>)
  BY <1>2 DEF FailedInv
<1> QED
  BY <1>1, <1>3, <1>4 DEF Keeps

\* The output of a run without failures, likewise.
LEMMA LossStays ==
  ASSUME CaptureTypes, LossInv, Keeps, UNCHANGED failing,
         \A t \in Tests : fate'[t] = "done" => fate[t] = "done" /\ printed'[t] = printed[t],
         failing = {} => NoFailure',
         \A c \in Chunks : failing = {} /\ InStderr(c) =>
           InStderr(c)' \/ \E dest \in Panes : Has(dest, c)'
  PROVE  LossInv'
<1> SUFFICES ASSUME failing = {}, NEW t \in Tests, NEW k \in 1..printed'[t], fate'[t] = "done"
             PROVE  InStderr(<<t, k>>)' \/ \E dest \in Panes : Has(dest, <<t, k>>)'
  BY DEF LossInv
<1>1. fate[t] = "done" /\ k \in 1..printed[t]
  OBVIOUS
<1>2. <<t, k>> \in Chunks
  BY <1>1, Located
<1>3. InStderr(<<t, k>>) \/ \E dest \in Panes : Has(dest, <<t, k>>)
  BY <1>1 DEF LossInv
<1> QED
  BY <1>2, <1>3 DEF Keeps

(* Another sequence of lines: nothing that was in the one before is lost.  *)
LEMMA MoreLines ==
  ASSUME CaptureTypes, UNCHANGED <<task, info, success>>
  PROVE  /\ Range(stdout) \subseteq Range(stdout') =>
              \A t, c : InRecord(t, c) => InRecord(t, c)'
         /\ Range(stderr) \subseteq Range(stderr') =>
              \A c : InStderr(c) => InStderr(c)'
         /\ (\A line \in Range(stderr') \ Range(stderr) : line.kind # "nameFailed") /\ NoFailure
              => NoFailure'
BY DEF InRecord, InStderr, NoFailure

-----------------------------------------------------------------------------
(* What nextest writes.                                                    *)
LEMMA LineFacts ==
  /\ \A kind \in Kinds, t \in Tests \union {None} :
       /\ Line(kind, t) \in ErrLine /\ Line(kind, t).kind = kind
       /\ Line(kind, t).output = <<>>
  /\ \A c \in Chunks : /\ Text(c) \in ErrLine /\ Text(c).kind = "text"
                       /\ Text(c).output = <<c>> /\ Range(Text(c).output) = {c}
<1>1. \A kind \in Kinds, t \in Tests \union {None} :
        /\ Line(kind, t) \in ErrLine /\ Line(kind, t).kind = kind
        /\ Line(kind, t).output = <<>>
  BY DEF Line, Record, ErrLine, AnyLine
<1>2. ASSUME NEW c \in Chunks
      PROVE  /\ Text(c) \in ErrLine /\ Text(c).kind = "text"
             /\ Text(c).output = <<c>> /\ Range(Text(c).output) = {c}
  <2> DEFINE output == <<c>>
  <2>1. output \in Seq(Chunks) /\ Range(output) = {c}
    BY Short, Zenon
  <2>2. Text(c) = [kind |-> "text", test |-> None, output |-> output]
    BY DEF Text, Record
  <2>3. "text" \in Kinds /\ None \in Tests \union {None}
    BY DEF Kinds
  <2>4. Text(c).output = <<c>>
    BY <2>2
  <2> HIDE DEF output
  <2>5. Text(c) \in ErrLine /\ Text(c).kind = "text" /\ Text(c).output = output
    BY <2>1, <2>2, <2>3 DEF ErrLine, AnyLine
  <2> QED
    BY <2>1, <2>4, <2>5
<1> QED
  BY <1>1, <1>2

\* The lines of stderr that do not name a failure.
Harmless == {line \in ErrLine : line.kind # "nameFailed"}

\* All but one of the lines nextest writes.
LEMMA HarmlessFacts ==
  /\ Harmless \subseteq ErrLine
  /\ Line("header", None) \in Harmless /\ Line("runner", None) \in Harmless
  /\ Line("bar", None) \in Harmless /\ Line("info", None) \in Harmless
  /\ Line("output", None) \in Harmless
  /\ \A t \in Tests : /\ Line("name", t) \in Harmless /\ Line("nameOk", t) \in Harmless
                       /\ Line("nameFailed", t) \in ErrLine
<1>1. \A kind \in Kinds, t \in Tests \union {None} :
        kind # "nameFailed" => Line(kind, t) \in Harmless
  BY LineFacts DEF Harmless
<1>2. Harmless \subseteq ErrLine
  BY DEF Harmless
<1>3. \A kind \in {"header", "runner", "bar", "info", "output"} : Line(kind, None) \in Harmless
  <2> SUFFICES ASSUME NEW kind \in {"header", "runner", "bar", "info", "output"}
               PROVE  Line(kind, None) \in Harmless
    OBVIOUS
  <2>1. kind \in Kinds /\ kind # "nameFailed" /\ None \in Tests \union {None}
    BY DEF Kinds
  <2> QED
    BY <1>1, <2>1
<1>4. \A t \in Tests : /\ Line("name", t) \in Harmless /\ Line("nameOk", t) \in Harmless
                       /\ Line("nameFailed", t) \in ErrLine
  BY <1>1, LineFacts DEF Kinds
<1> QED
  BY <1>2, <1>3, <1>4

\* The lines of the output of a test.
LEMMA TextFacts ==
  ASSUME CaptureTypes, NEW t \in Tests
  PROVE  /\ TextLines(t) \in Seq(Harmless)
         /\ \A k \in 1..printed[t] : \E line \in Range(TextLines(t)) : <<t, k>> \in Range(line.output)
<1>1. printed[t] \in Nat
  BY CaptureAssumption DEF CaptureTypes, NextestTypes
<1>2. \A k \in 1..printed[t] : <<t, k>> \in Chunks
  BY Located
<1>3. \A k \in 1..printed[t] : /\ Text(<<t, k>>) \in Harmless
                               /\ <<t, k>> \in Range(Text(<<t, k>>).output)
  BY <1>2, LineFacts DEF Harmless
<1>4. TextLines(t) \in [1..printed[t] -> Harmless]
  BY <1>3 DEF TextLines
<1>5. \A k \in 1..printed[t] : Text(<<t, k>>) \in Range(TextLines(t))
  BY DEF TextLines, Range
<1> QED
  BY <1>1, <1>3, <1>4, <1>5

\* What nextest prints after a test contains all its output.
LEMMA BlockFacts ==
  ASSUME CaptureTypes, NEW t \in Tests
  PROVE  /\ Block(t) \in Seq(ErrLine)
         /\ t \notin failing => \A line \in Range(Block(t)) : line.kind # "nameFailed"
         /\ \A k \in 1..printed[t] : \E line \in Range(Block(t)) : <<t, k>> \in Range(line.output)
<1> DEFINE end == IF t \in failing
                  THEN <<Line("nameFailed", t), Line("runner", None)>>
                  ELSE <<Line("nameOk", t)>>
           start == <<Line("header", None)>>
           body == start \o TextLines(t)
<1>1. CASE printed[t] = 0
  <2>1. Block(t) = <<>> /\ Range(<<>>) = {}
    BY <1>1 DEF Block, Range
  <2>2. 1..printed[t] = {}
    BY <1>1
  <2> QED
    BY <2>1, <2>2
<1>2. CASE printed[t] # 0
  <2>1. Block(t) = body \o end
    BY <1>2 DEF Block
  <2>2. /\ TextLines(t) \in Seq(Harmless) /\ TextLines(t) \in Seq(ErrLine)
        /\ \A k \in 1..printed[t] : \E line \in Range(TextLines(t)) : <<t, k>> \in Range(line.output)
    BY HarmlessFacts, TextFacts
  <2>3. start \in Seq(Harmless) /\ start \in Seq(ErrLine)
    BY HarmlessFacts, Short
  <2>4. end \in Seq(ErrLine)
    BY HarmlessFacts, Short
  <2>5. t \notin failing => end \in Seq(Harmless)
    BY HarmlessFacts, Short
  <2> HIDE DEF start, end
  <2>6. /\ body \in Seq(ErrLine) /\ body \in Seq(Harmless)
        /\ Range(body) = Range(start) \union Range(TextLines(t))
    BY <2>2, <2>3, Concatenated
  <2> HIDE DEF body
  <2>7. /\ Block(t) \in Seq(ErrLine)
        /\ Range(Block(t)) = Range(body) \union Range(end)
    BY <2>1, <2>4, <2>6, Concatenated
  <2>8. t \notin failing => Block(t) \in Seq(Harmless)
    BY <2>1, <2>5, <2>6, Concatenated
  <2>9. t \notin failing => \A line \in Range(Block(t)) : line.kind # "nameFailed"
    BY <2>8 DEF Range, Harmless
  <2>10. Range(TextLines(t)) \subseteq Range(Block(t))
    BY <2>6, <2>7
  <2>11. \A k \in 1..printed[t] : \E line \in Range(Block(t)) : <<t, k>> \in Range(line.output)
    BY <2>2, <2>10
  <2> HIDE DEF Range
  <2> QED
    BY <2>7, <2>9, <2>11, Zenon
<1> QED
  BY <1>1, <1>2

\* The list of the running tests.
LEMMA InfoListFacts ==
  ASSUME CaptureTypes, NEW running \in SUBSET Tests, NEW order \in SetToSeqs(running)
  PROVE  InfoList(order) \in Seq(Harmless)
<1> DEFINE infos == [i \in DOMAIN order |-> InfoOf(order[i])]
           start == <<Line("bar", None), Line("info", None)>>
           end == <<Line("bar", None)>>
<1>1. IsFiniteSet(running)
  BY CaptureAssumption, FS_Subset
<1>2. Cardinality(running) \in Nat
  BY <1>1, FS_CardinalityType
<1>3. order \in [1..Cardinality(running) -> running]
  BY DEF SetToSeqs
<1>4. \A t \in Tests : InfoOf(t) \in Seq(Harmless)
  <2> SUFFICES ASSUME NEW t \in Tests
               PROVE  InfoOf(t) \in Seq(Harmless)
    OBVIOUS
  <2> DEFINE head == <<Line("name", t), Line("output", None)>>
  <2>1. head \in Seq(Harmless)
    BY HarmlessFacts, Short
  <2>2. TextLines(t) \in Seq(Harmless) /\ InfoOf(t) = head \o TextLines(t)
    BY TextFacts DEF InfoOf
  <2> HIDE DEF head
  <2> QED
    BY <2>1, <2>2, Concatenated
<1>5. infos \in Seq(Seq(Harmless))
  <2>1. infos \in [1..Cardinality(running) -> Seq(Harmless)]
    BY <1>3, <1>4
  <2> QED
    BY <1>2, <2>1
<1>6. start \in Seq(Harmless) /\ end \in Seq(Harmless)
  BY HarmlessFacts, Short
<1>7. InfoList(order) = start \o FlattenSeq(infos) \o end
  BY DEF InfoList
<1> HIDE DEF infos, start, end
<1>8. FlattenSeq(infos) \in Seq(Harmless)
  BY <1>5, Flattened
<1>9. start \o FlattenSeq(infos) \in Seq(Harmless)
  BY <1>6, <1>8, Concatenated
<1> QED
  BY <1>6, <1>7, <1>9, Concatenated

-----------------------------------------------------------------------------
(* The steps of nextest.                                                   *)
LEMMA NextestKeeps ==
  ASSUME CaptureInv, ~exited, UNCHANGED <<failing, task, success, info, snapshots, seen, shown>>,
         exited' => \A t \in Tests : fate'[t] = "done"
  PROVE  TaskTypes' /\ CollectorTypes' /\ TrackerTypes' /\ LoopInv' /\ DedupInv' /\ Keeps
<1>1. TaskTypes'
  BY DEF CaptureInv, CaptureTypes, TaskTypes
<1>2. CollectorTypes'
  BY DEF CaptureInv, CaptureTypes, CollectorTypes
<1>3. TrackerTypes'
  BY DEF CaptureInv, CaptureTypes, TrackerTypes
<1>4. LoopInv'
  BY DEF CaptureInv, LoopInv
<1>5. DedupInv' /\ Keeps
  BY StaysKept DEF CaptureInv
<1> QED
  BY <1>1, <1>2, <1>3, <1>4, <1>5

\* A test begins.
LEMMA StartTestKeeps ==
  ASSUME CaptureInv, NEW t \in Tests, StartTest(t)
  PROVE  CaptureInv'
<1> USE DEF CaptureInv
<1> DEFINE line == Record("started", t, <<>>)
<1>1. line \in RecordLine
  BY DEF Record, RecordLine
<1>2. /\ fate[t] = "waiting" /\ fate' = [fate EXCEPT ![t] = "running"]
      /\ stdout' = Append(stdout, line)
      /\ UNCHANGED <<failing, printed, exited, stderr, task, success, info, snapshots, seen, shown>>
  BY DEF StartTest
<1> HIDE DEF line
<1>3. /\ fate \in [Tests -> {"waiting", "running", "done"}] /\ stdout \in Seq(RecordLine)
  BY DEF CaptureTypes, NextestTypes
<1>4. ~exited
  BY <1>2 DEF LoopInv
<1>5. TaskTypes' /\ CollectorTypes' /\ TrackerTypes' /\ LoopInv' /\ DedupInv' /\ Keeps
  BY <1>2, <1>4, NextestKeeps
<1>6. stdout' \in Seq(RecordLine) /\ Range(stdout) \subseteq Range(stdout')
  BY <1>1, <1>2, <1>3, Appended
<1>7. NextestTypes'
  BY <1>2, <1>3, <1>6 DEF CaptureTypes, NextestTypes
<1>8. \A u \in Tests : fate'[u] = "done" => fate[u] = "done" /\ printed'[u] = printed[u]
  BY <1>2, <1>3
<1>9. /\ \A u, c : InRecord(u, c) => InRecord(u, c)'
      /\ \A c : InStderr(c) => InStderr(c)'
      /\ NoFailure => NoFailure'
  BY <1>2, <1>6, MoreLines
<1>10. FailedInv'
  BY <1>2, <1>5, <1>8, <1>9, FailedStays
<1>11. LossInv'
  <2>1. failing = {} => NoFailure'
    BY <1>9 DEF LossInv
  <2> QED
    BY <1>2, <1>5, <1>8, <1>9, <2>1, LossStays
<1> QED
  BY <1>5, <1>7, <1>10, <1>11 DEF CaptureTypes

\* A test prints.
LEMMA PrintChunkKeeps ==
  ASSUME CaptureInv, NEW t \in Tests, PrintChunk(t)
  PROVE  CaptureInv'
<1> USE DEF CaptureInv
<1>1. /\ fate[t] = "running" /\ printed[t] < MaxChunks
      /\ printed' = [printed EXCEPT ![t] = @ + 1]
      /\ UNCHANGED <<failing, fate, exited, stdout, stderr, task, success, info,
                     snapshots, seen, shown>>
  BY DEF PrintChunk
<1>2. printed \in [Tests -> 0..MaxChunks] /\ MaxChunks \in Nat
  BY CaptureAssumption DEF CaptureTypes, NextestTypes
<1>3. ~exited
  BY <1>1 DEF LoopInv
<1>4. TaskTypes' /\ CollectorTypes' /\ TrackerTypes' /\ LoopInv' /\ DedupInv' /\ Keeps
  <2>1. exited' => \A u \in Tests : fate'[u] = "done"
    BY <1>1, <1>3
  <2> QED
    BY <1>1, <1>3, <2>1, NextestKeeps
<1>5. NextestTypes'
  <2>1. printed' \in [Tests -> 0..MaxChunks]
    BY <1>1, <1>2
  <2> QED
    BY <1>1, <2>1 DEF CaptureTypes, NextestTypes
<1>6. \A u \in Tests : fate'[u] = "done" => fate[u] = "done" /\ printed'[u] = printed[u]
  BY <1>1, <1>2
<1>7. /\ \A u, c : InRecord(u, c) => InRecord(u, c)'
      /\ \A c : InStderr(c) => InStderr(c)'
      /\ NoFailure => NoFailure'
  BY <1>1, MoreLines
<1>8. FailedInv'
  BY <1>1, <1>4, <1>6, <1>7, FailedStays
<1>9. LossInv'
  <2>1. failing = {} => NoFailure'
    BY <1>7 DEF LossInv
  <2> QED
    BY <1>1, <1>4, <1>6, <1>7, <2>1, LossStays
<1> QED
  BY <1>4, <1>5, <1>8, <1>9 DEF CaptureTypes

\* Lines more on stderr.
LEMMA LinesKeep ==
  ASSUME CaptureInv, ~exited, NEW lines \in Seq(Harmless), stderr' = stderr \o lines,
         UNCHANGED <<failing, fate, printed, stdout, task, success, info, snapshots, seen, shown>>,
         exited' \in BOOLEAN, exited' => \A t \in Tests : fate[t] = "done"
  PROVE  CaptureInv'
<1> USE DEF CaptureInv
<1>1. stderr \in Seq(ErrLine) /\ lines \in Seq(ErrLine)
  BY HarmlessFacts DEF CaptureTypes, NextestTypes
<1>2. /\ stderr' \in Seq(ErrLine) /\ Range(stderr) \subseteq Range(stderr')
      /\ Range(stderr') \ Range(stderr) \subseteq Range(lines)
  BY <1>1, Concatenated
<1>3. TaskTypes' /\ CollectorTypes' /\ TrackerTypes' /\ LoopInv' /\ DedupInv' /\ Keeps
  BY NextestKeeps
<1>4. NextestTypes'
  BY <1>2 DEF CaptureTypes, NextestTypes
<1>5. \A line \in Range(lines) : line.kind # "nameFailed"
  BY DEF Range, Harmless
<1>6. /\ \A u, c : InRecord(u, c) => InRecord(u, c)'
      /\ \A c : InStderr(c) => InStderr(c)'
      /\ NoFailure => NoFailure'
  <2>1. \A line \in Range(stderr') \ Range(stderr) : line.kind # "nameFailed"
    BY <1>2, <1>5
  <2> QED
    BY <1>2, <2>1, MoreLines
<1>7. FailedInv'
  BY <1>3, <1>6, FailedStays
<1>8. LossInv'
  <2>1. failing = {} => NoFailure'
    BY <1>6 DEF LossInv
  <2> QED
    BY <1>3, <1>6, <2>1, LossStays
<1> QED
  BY <1>3, <1>4, <1>7, <1>8 DEF CaptureTypes

\* A list of the running tests.
LEMMA PollKeeps ==
  ASSUME CaptureInv, Poll
  PROVE  CaptureInv'
<1> DEFINE running == {t \in Tests : fate[t] = "running"}
<1>1. /\ running # {} /\ running \in SUBSET Tests
      /\ UNCHANGED <<failing, fate, printed, exited, stdout, task, success, info,
                     snapshots, seen, shown>>
  BY DEF Poll
<1>2. PICK order \in SetToSeqs(running) : stderr' = stderr \o InfoList(order)
  BY DEF Poll
<1>3. ~exited
  BY <1>1 DEF CaptureInv, LoopInv
<1> HIDE DEF running
<1>4. InfoList(order) \in Seq(Harmless)
  BY <1>1, InfoListFacts DEF CaptureInv
<1>5. exited' \in BOOLEAN /\ (exited' => \A t \in Tests : fate[t] = "done")
  BY <1>1, <1>3 DEF CaptureInv, CaptureTypes, NextestTypes
<1> QED
  BY <1>1, <1>2, <1>3, <1>4, <1>5, LinesKeep

\* nextest ends.
LEMMA ExitKeeps ==
  ASSUME CaptureInv, Exit
  PROVE  CaptureInv'
<1>1. /\ ~exited /\ exited' = TRUE /\ \A t \in Tests : fate[t] = "done"
      /\ UNCHANGED <<failing, fate, printed, stdout, task, success, info, snapshots, seen, shown>>
  BY DEF Exit
<1>2. exited' \in BOOLEAN
  BY <1>1
<1>3. PICK lines \in Seq(Harmless) : stderr' = stderr \o lines
  <2>1. CASE stderr' = stderr \o <<Line("bar", None), Line("runner", None)>>
    <3>1. <<Line("bar", None), Line("runner", None)>> \in Seq(Harmless)
      BY HarmlessFacts, Short
    <3> QED
      BY <2>1, <3>1
  <2>2. CASE UNCHANGED stderr
    <3>1. stderr \in Seq(ErrLine)
      BY DEF CaptureInv, CaptureTypes, NextestTypes
    <3>2. stderr \o <<>> = stderr /\ <<>> \in Seq(Harmless)
      BY <3>1
    <3> QED
      BY <2>2, <3>2
  <2> QED
    BY <2>1, <2>2 DEF Exit
<1> QED
  BY <1>1, <1>2, <1>3, LinesKeep

\* A test ends: its block holds its output, and so does its record if it failed.
LEMMA FinishTestKeeps ==
  ASSUME CaptureInv, NEW t \in Tests, FinishTest(t)
  PROVE  CaptureInv'
<1> USE DEF CaptureInv
<1> DEFINE output == IF t \in failing THEN ChunksOf(t, printed[t]) ELSE <<>>
           line == Record(IF t \in failing THEN "failed" ELSE "ok", t, output)
<1>1. /\ fate[t] = "running" /\ fate' = [fate EXCEPT ![t] = "done"]
      /\ stderr' = stderr \o Block(t)
      /\ UNCHANGED <<failing, printed, exited, task, success, info, snapshots, seen, shown>>
  BY DEF FinishTest
<1>2. stdout' = Append(stdout, line)
  BY DEF FinishTest
<1>3. printed[t] \in Nat /\ \A k \in 1..printed[t] : <<t, k>> \in Chunks
  <2>1. printed[t] \in Nat
    BY CaptureAssumption DEF CaptureTypes, NextestTypes
  <2> QED
    BY <2>1, Located
<1>4. ChunksOf(t, printed[t]) \in Seq(Chunks)
      /\ \A k \in 1..printed[t] : <<t, k>> \in Range(ChunksOf(t, printed[t]))
  <2>1. ChunksOf(t, printed[t]) \in [1..printed[t] -> Chunks]
    BY <1>3 DEF ChunksOf
  <2>2. \A k \in 1..printed[t] : <<t, k>> \in Range(ChunksOf(t, printed[t]))
    BY DEF ChunksOf, Range
  <2> QED
    BY <1>3, <2>1, <2>2
<1>5. /\ line \in RecordLine /\ line.test = t /\ line.kind # "started"
      /\ t \in failing => \A k \in 1..printed[t] : <<t, k>> \in Range(line.output)
  <2>1. output \in Seq(Chunks)
    BY <1>4
  <2>2. t \in failing => output = ChunksOf(t, printed[t])
    OBVIOUS
  <2> HIDE DEF output
  <2>3. line \in RecordLine /\ line.test = t /\ line.kind # "started" /\ line.output = output
    BY <2>1 DEF Record, RecordLine
  <2> HIDE DEF line
  <2> QED
    BY <1>4, <2>2, <2>3
<1> HIDE DEF line
<1>6. /\ fate \in [Tests -> {"waiting", "running", "done"}]
      /\ stdout \in Seq(RecordLine) /\ stderr \in Seq(ErrLine)
  BY DEF CaptureTypes, NextestTypes
<1>7. ~exited
  BY <1>1 DEF LoopInv
<1>8. TaskTypes' /\ CollectorTypes' /\ TrackerTypes' /\ LoopInv' /\ DedupInv' /\ Keeps
  <2>1. exited' => \A u \in Tests : fate'[u] = "done"
    BY <1>1, <1>7
  <2> QED
    BY <1>1, <1>7, <2>1, NextestKeeps
<1>9. stdout' \in Seq(RecordLine) /\ Range(stdout') = Range(stdout) \union {line}
  BY <1>2, <1>5, <1>6, Appended
<1>10. /\ stderr' \in Seq(ErrLine) /\ Range(stderr') = Range(stderr) \union Range(Block(t))
       /\ t \notin failing => \A l \in Range(Block(t)) : l.kind # "nameFailed"
       /\ \A k \in 1..printed[t] : \E l \in Range(Block(t)) : <<t, k>> \in Range(l.output)
  BY <1>1, <1>6, BlockFacts, Concatenated
<1>11. NextestTypes'
  BY <1>1, <1>6, <1>9, <1>10 DEF CaptureTypes, NextestTypes
<1>12. \A u \in Tests \ {t} : fate'[u] = "done" => fate[u] = "done" /\ printed'[u] = printed[u]
  BY <1>1, <1>6
<1>13. /\ \A u, c : InRecord(u, c) => InRecord(u, c)'
       /\ \A c : InStderr(c) => InStderr(c)'
       /\ t \notin failing /\ NoFailure => NoFailure'
  <2>1. \A l \in Range(stderr') \ Range(stderr) : l \in Range(Block(t))
    BY <1>10
  <2> QED
    BY <1>1, <1>9, <1>10, <2>1, MoreLines
<1>14. FailedInv'
  <2> SUFFICES ASSUME NEW u \in failing, NEW k \in 1..printed[u], fate'[u] = "done",
                      k \notin Frames
               PROVE  Has(u, <<u, k>>)' \/ InRecord(u, <<u, k>>)'
    BY <1>1 DEF FailedInv
  <2>0. u \in Tests /\ u \in Panes
    BY CaptureAssumption DEF CaptureTypes, NextestTypes, Panes
  <2>1. CASE u = t
    BY <2>1, <1>5, <1>9 DEF InRecord
  <2>2. CASE u # t
    <3>1. fate[u] = "done" /\ <<u, k>> \in Chunks
      BY <2>0, <2>2, <1>12, Located
    <3>2. Has(u, <<u, k>>) \/ InRecord(u, <<u, k>>)
      BY <3>1 DEF FailedInv
    <3> QED
      BY <2>0, <3>1, <3>2, <1>8, <1>13 DEF Keeps
  <2> QED
    BY <2>1, <2>2
<1>15. LossInv'
  <2> SUFFICES ASSUME failing = {}
               PROVE  /\ NoFailure'
                      /\ \A u \in Tests : \A k \in 1..printed[u] :
                           fate'[u] = "done" =>
                             InStderr(<<u, k>>)' \/ \E dest \in Panes : Has(dest, <<u, k>>)'
    BY <1>1 DEF LossInv
  <2>1. NoFailure'
    BY <1>13 DEF LossInv
  <2>2. ASSUME NEW u \in Tests, NEW k \in 1..printed[u], fate'[u] = "done"
        PROVE  InStderr(<<u, k>>)' \/ \E dest \in Panes : Has(dest, <<u, k>>)'
    <3>1. CASE u = t
      <4>1. \E l \in Range(stderr') : <<t, k>> \in Range(l.output)
        BY <3>1, <1>10
      <4> QED
        BY <3>1, <4>1 DEF InStderr
    <3>2. CASE u # t
      <4>1. fate[u] = "done" /\ <<u, k>> \in Chunks
        BY <2>2, <3>2, <1>12, Located
      <4>2. InStderr(<<u, k>>) \/ \E dest \in Panes : Has(dest, <<u, k>>)
        BY <4>1 DEF LossInv
      <4> QED
        BY <4>1, <4>2, <1>8, <1>13 DEF Keeps
    <3> QED
      BY <3>1, <3>2
  <2> QED
    BY <2>1, <2>2
<1> QED
  BY <1>8, <1>11, <1>14, <1>15 DEF CaptureTypes

-----------------------------------------------------------------------------
(* The steps of both tasks.                                                *)
LEMMA NewEvent ==
  ASSUME CaptureTypes, NEW t \in Tests, NEW output \in Seq(Chunks)
  PROVE  /\ Output(t, NewChunks(t, output)) \in EventType
         /\ Output(t, NewChunks(t, output)).pane = t
         /\ Output(t, NewChunks(t, output)).chunks = NewChunks(t, output)
<1>1. NewChunks(t, output) \subseteq Chunks
  BY NewFacts
<1> DEFINE new == NewChunks(t, output)
<1> HIDE DEF new
<1>2. Output(t, new) \in EventType /\ Output(t, new).pane = t /\ Output(t, new).chunks = new
  <2>1. new \subseteq Chunks
    BY <1>1 DEF new
  <2> QED
    BY <2>1 DEF Output, EventType, Panes
<1> QED
  BY <1>2 DEF new

\* The tracker keeps its types.
LEMMA RememberTypes ==
  ASSUME CaptureTypes, NEW t \in Tests, NEW output \in Seq(Chunks), Remember(t, output),
         UNCHANGED shown
  PROVE  TrackerTypes'
<1>1. NewChunks(t, output) \subseteq Chunks
  BY NewFacts
<1>2. /\ snapshots' = [snapshots EXCEPT ![t] = output]
      /\ seen' = seen \union {chunk \in NewChunks(t, output) : chunk[2] \in Frames}
  BY DEF Remember
<1> QED
  BY <1>1, <1>2 DEF CaptureTypes, TrackerTypes

\* dedupe_test_output_event.
LEMMA DedupeBlockKeeps ==
  ASSUME CaptureInv, NEW r \in Readers, DedupeBlock(r)
  PROVE  CaptureInv'
<1> USE DEF CaptureInv
<1> DEFINE b == task[r].block
           event == Output(b.pane, NewChunks(b.pane, b.text))
<1>1. /\ task[r].at = "dedupe" /\ Remember(b.pane, b.text)
      /\ Go(r, "send", task[r].then, event)
      /\ UNCHANGED <<failing, fate, printed, exited, stdout, stderr, success, info, shown>>
  BY DEF DedupeBlock, nextestVars, pipes
<1>t. task[r] \in TaskType /\ TaskTypes
  BY DEF CaptureTypes, TaskTypes
<1>2. b \in BlockType /\ b.pane \in Tests /\ b.text \in Seq(Chunks) /\ task[r].then \in Places
  <2>1. b.pane \in Tests
    BY <1>1, <1>t DEF TaskTypes
  <2> QED
    BY <1>t, <2>1 DEF TaskType, BlockType
<1>3. event \in EventType /\ event.pane = b.pane /\ event.chunks = NewChunks(b.pane, b.text)
  BY <1>2, NewEvent
<1>4. task[r].event = NoOutput
  BY <1>1, <1>t DEF TaskTypes
<1> HIDE DEF event, b
<1>5. /\ task'[r].at = "send" /\ task'[r].then = task[r].then /\ task'[r].block = Nothing
      /\ task'[r].event = event /\ task'[r].line = task[r].line
      /\ \A q \in Readers \ {r} : task'[q] = task[q]
  <2>1. "send" \in Places
    BY DEF Places
  <2> QED
    BY <1>1, <1>2, <1>3, <1>t, <2>1, GoFacts
<1>6. TaskTypes'
  <2>1. "send" \in Places \ {"dedupe"}
    BY DEF Places
  <2> QED
    BY <1>1, <1>2, <1>3, <1>t, <2>1, GoTypes
<1>7. NextestTypes' /\ CollectorTypes'
  BY <1>1 DEF CaptureTypes, NextestTypes, CollectorTypes
<1>8. TrackerTypes'
  BY <1>1, <1>2, RememberTypes
<1>9. LoopInv'
  BY <1>1, <1>5 DEF LoopInv, Readers
<1>10. /\ DedupInv' /\ Keeps
       /\ \A c \in Range(b.text) : \E u \in Tests : Has(u, c)'
  BY <1>1, <1>2, <1>3, <1>4, <1>5, RememberKeeps
<1>11. FailedInv'
  <2>1. \A t, c : InRecord(t, c) => InRecord(t, c)'
    BY <1>1, <1>5 DEF InRecord, Readers
  <2> QED
    BY <1>1, <1>10, <2>1, FailedStays
<1>12. LossInv'
  <2>1. failing = {} => NoFailure'
    BY <1>1, <1>5 DEF LossInv, NoFailure, Readers
  <2>2. \A c \in Chunks : InStderr(c) => InStderr(c)' \/ \E dest \in Panes : Has(dest, c)'
    <3> SUFFICES ASSUME NEW c \in Chunks, InStderr(c)
                 PROVE  InStderr(c)' \/ \E dest \in Panes : Has(dest, c)'
      OBVIOUS
    <3>1. CASE c \in Range(b.text)
      BY <3>1, <1>10 DEF Panes
    <3>2. CASE c \notin Range(b.text)
      BY <3>2, <1>1, <1>5 DEF InStderr, Readers, b
    <3> QED
      BY <3>1, <3>2
  <2> QED
    BY <1>1, <1>10, <2>1, <2>2, LossStays
<1> QED
  BY <1>6, <1>7, <1>8, <1>9, <1>10, <1>11, <1>12 DEF CaptureTypes

\* The send.
LEMMA SendKeeps ==
  ASSUME CaptureInv, NEW r \in Readers, Send(r)
  PROVE  CaptureInv'
<1> USE DEF CaptureInv
<1>1. /\ task[r].at = "send" /\ Show(task[r].event)
      /\ Go(r, task[r].then, "read", NoOutput)
      /\ UNCHANGED <<failing, fate, printed, exited, stdout, stderr, success, info,
                     snapshots, seen>>
  BY DEF Send, nextestVars, pipes
<1>t. task[r] \in TaskType /\ TaskTypes
  BY DEF CaptureTypes, TaskTypes
<1>2. task[r].then \in Places \ {"dedupe", "send", "observe", "observeInfo"}
  BY <1>t DEF LoopInv, TaskType, Readers
<1>3. "read" \in Places /\ NoOutput \in EventType
  BY Blanks DEF Places
<1>4. /\ task'[r].at = task[r].then /\ task'[r].then = "read" /\ task'[r].block = Nothing
      /\ task'[r].event = NoOutput /\ task'[r].line = task[r].line
      /\ \A q \in Readers \ {r} : task'[q] = task[q]
  BY <1>1, <1>2, <1>3, <1>t, GoFacts
<1>5. TaskTypes'
  BY <1>1, <1>2, <1>3, <1>t, GoTypes
<1>6. NextestTypes' /\ CollectorTypes'
  BY <1>1 DEF CaptureTypes, NextestTypes, CollectorTypes
<1>7. TrackerTypes'
  <2>1. shown \in [Panes \X Chunks -> Nat]
    BY DEF CaptureTypes, TrackerTypes
  <2>2. shown' \in [Panes \X Chunks -> Nat]
    <3>1. \A x \in Panes \X Chunks :
            (IF task[r].event.pane = x[1] /\ x[2] \in task[r].event.chunks
             THEN shown[x] + 1 ELSE shown[x]) \in Nat
      BY <2>1
    <3> QED
      BY <1>1, <2>1, <3>1 DEF Show
  <2> QED
    BY <1>1, <2>2 DEF CaptureTypes, TrackerTypes
<1>8. LoopInv'
  <2>1. task[r].then # "final" \/ r = "stdout"
    BY DEF LoopInv, Readers
  <2> QED
    BY <1>1, <1>2, <1>4, <2>1 DEF LoopInv, Readers
<1>9. DedupInv' /\ Keeps
  BY <1>1, <1>4, ShowKeeps
<1>10. FailedInv'
  <2>1. \A t, c : InRecord(t, c) => InRecord(t, c)'
    BY <1>1, <1>4 DEF InRecord, Readers
  <2> QED
    BY <1>1, <1>9, <2>1, FailedStays
<1>11. LossInv'
  <2>1. failing = {} => NoFailure'
    BY <1>1, <1>4 DEF LossInv, NoFailure, Readers
  <2>2. task[r].block = Nothing
    BY <1>1, <1>t DEF TaskTypes
  <2>3. \A c \in Chunks : InStderr(c) => InStderr(c)'
    BY <1>1, <1>4, <2>2 DEF InStderr, Readers
  <2> QED
    BY <1>1, <1>9, <2>1, <2>3, LossStays
<1> QED
  BY <1>5, <1>6, <1>7, <1>8, <1>9, <1>10, <1>11 DEF CaptureTypes

-----------------------------------------------------------------------------
(* The end of a block.                                                     *)
LEMMA GoWithBlockFacts ==
  ASSUME TaskTypes, CollectorTypes, NEW r \in Readers, NEW then \in {"runner", "done"},
         task[r].event = NoOutput, GoWithBlock(r, then)
  PROVE  /\ TaskTypes'
         /\ task'[r].block = FinishedBlock /\ task'[r].event = NoOutput
         /\ task'[r].line = task[r].line
         /\ \/ task'[r].at = then /\ task'[r].then = "read"
            \/ task'[r].at = "dedupe" /\ task'[r].then = then
         /\ \A q \in Readers \ {r} : task'[q] = task[q]
<1>1. FinishedBlock \in BlockType /\ (FinishedBlock # Nothing => FinishedBlock.pane \in Tests)
  BY FinishFacts
<1>2. CASE FinishedBlock = Nothing
  <2>1. Go(r, then, "read", NoOutput)
    BY <1>2 DEF GoWithBlock
  <2>2. then \in Places \ {"dedupe"} /\ "read" \in Places /\ NoOutput \in EventType
    BY Blanks DEF Places
  <2>3. TaskTypes'
    BY <2>1, <2>2, GoTypes
  <2> QED
    BY <1>2, <2>1, <2>2, <2>3, GoFacts
<1>3. CASE FinishedBlock # Nothing
  <2> DEFINE new == [task[r] EXCEPT !.at = "dedupe", !.then = then, !.block = FinishedBlock]
  <2>1. task' = [task EXCEPT ![r] = new]
    BY <1>3 DEF GoWithBlock
  <2>2. /\ task \in [Readers -> TaskType] /\ task["stderr"].line \in ErrLine
        /\ "stderr" \in Readers
    BY DEF TaskTypes, Readers
  <2>3. "dedupe" \in Places /\ then \in Places
    BY DEF Places
  <2>4. /\ new \in TaskType /\ new.at = "dedupe" /\ new.then = then
        /\ new.block = FinishedBlock /\ new.event = NoOutput /\ new.line = task[r].line
    BY <1>1, <2>2, <2>3 DEF TaskType
  <2> HIDE DEF new
  <2>5. /\ task' \in [Readers -> TaskType] /\ task'[r] = new
        /\ \A q \in Readers \ {r} : task'[q] = task[q]
    BY <2>1, <2>2, <2>4
  <2>6. TaskTypes'
    BY <1>1, <1>3, <2>2, <2>4, <2>5 DEF TaskTypes
  <2> QED
    BY <2>4, <2>5, <2>6
<1> QED
  BY <1>2, <1>3

\* The block that ends is taken by the task that found its end.
LEMMA BlockStays ==
  ASSUME CaptureTypes, LossInv, failing = {}, NEW r \in Readers,
         task[r].block = Nothing, task'[r].block = FinishedBlock,
         NEW c, success.collecting # None, c \in Range(success.lines.text)
  PROVE  InStderr(c)'
<1>1. ~success.lines.failure
  BY DEF LossInv, NoFailure
<1>2. Range(FinishedBlock.text) = Range(success.lines.text)
  BY <1>1, FinishFacts DEF CaptureTypes
<1> QED
  BY <1>2 DEF InStderr

\* A pipe has ended: the open block is finished.
LEMMA FlushSuccessKeeps ==
  ASSUME CaptureInv, NEW r \in Readers, FlushSuccess(r)
  PROVE  CaptureInv'
<1> USE DEF CaptureInv
<1>1. /\ \/ r = "stdout" /\ task[r].at = "read" /\ exited /\ stdout = <<>>
         \/ task[r].at = "flush"
      /\ success' = AfterBlock /\ GoWithBlock(r, "done")
      /\ UNCHANGED <<failing, fate, printed, exited, stdout, stderr, info, snapshots, seen, shown>>
  BY DEF FlushSuccess, Flushes, nextestVars, pipes
<1>t. TaskTypes /\ CollectorTypes
  BY DEF CaptureTypes
<1>2. task[r].event = NoOutput /\ task[r].block = Nothing
  BY <1>1, <1>t DEF TaskTypes
<1>3. /\ TaskTypes'
      /\ task'[r].block = FinishedBlock /\ task'[r].event = NoOutput
      /\ task'[r].line = task[r].line
      /\ \/ task'[r].at = "done" /\ task'[r].then = "read"
         \/ task'[r].at = "dedupe" /\ task'[r].then = "done"
      /\ \A q \in Readers \ {r} : task'[q] = task[q]
  BY <1>1, <1>2, <1>t, GoWithBlockFacts
<1>4. /\ success' \in SuccessType /\ success'.collecting = None /\ success'.lines = NoLines
  BY <1>1, <1>t, FinishFacts
<1>5. NextestTypes' /\ CollectorTypes' /\ TrackerTypes'
  BY <1>1, <1>4 DEF CaptureTypes, NextestTypes, CollectorTypes, TrackerTypes
<1>6. LoopInv'
  BY <1>1, <1>3, <1>4 DEF LoopInv, Readers
<1>7. DedupInv' /\ Keeps
  <2>1. \A q \in Readers : task'[q].event = task[q].event
    BY <1>2, <1>3
  <2> QED
    BY <1>1, <2>1, StaysKept
<1>8. FailedInv'
  <2>1. \A t, c : InRecord(t, c) => InRecord(t, c)'
    BY <1>1, <1>3 DEF InRecord, Readers, LoopInv
  <2> QED
    BY <1>1, <1>7, <2>1, FailedStays
<1>9. LossInv'
  <2>1. failing = {} => NoFailure'
    BY <1>1, <1>3, <1>4, Blanks DEF LossInv, NoFailure, Readers
  <2>2. ASSUME NEW c \in Chunks, failing = {}, InStderr(c)
        PROVE  InStderr(c)'
    <3>1. CASE success.collecting # None /\ c \in Range(success.lines.text)
      BY <1>2, <1>3, <2>2, <3>1, BlockStays
    <3>2. CASE ~(success.collecting # None /\ c \in Range(success.lines.text))
      <4>1. \A q \in Readers : c \in Range(task[q].block.text) => q # r
        BY <1>2, Blanks
      <4>2. ({task[r].at, task[r].then} \intersect {"collect", "runner"} = {}) \/ r = "stdout"
        BY <1>1 DEF LoopInv, Readers
      <4> QED
        BY <1>1, <1>3, <2>2, <3>2, <4>1, <4>2 DEF InStderr, Readers
    <3> QED
      BY <3>1, <3>2
  <2> QED
    BY <1>1, <1>7, <2>1, <2>2, LossStays
<1> QED
  BY <1>3, <1>5, <1>6, <1>7, <1>8, <1>9 DEF CaptureTypes

-----------------------------------------------------------------------------
(* The steps of the task reading stdout.                                   *)
LEMMA ReadStdoutKeeps ==
  ASSUME CaptureInv, ReadStdout
  PROVE  CaptureInv'
<1> USE DEF CaptureInv
<1> DEFINE line == Head(stdout)
           at == IF FinishedBlock = Nothing THEN "final" ELSE "dedupe"
           new == [at |-> at, then |-> "final", line |-> line,
                   block |-> FinishedBlock, event |-> NoOutput]
<1>1. /\ task["stdout"].at = "read" /\ stdout # <<>>
      /\ stdout' = Tail(stdout) /\ success' = CollectLine(line).next
      /\ task' = [task EXCEPT !["stdout"] = new]
      /\ UNCHANGED <<failing, fate, printed, exited, stderr, info, snapshots, seen, shown>>
  BY DEF ReadStdout, nextestVars
<1>t. TaskTypes /\ CollectorTypes /\ stdout \in Seq(RecordLine)
  BY DEF CaptureTypes, NextestTypes
<1>2. /\ line \in RecordLine /\ stdout' \in Seq(RecordLine)
      /\ Range(stdout) = {line} \union Range(stdout')
  BY <1>1, <1>t, Emptied
<1>3. line \in AnyLine /\ EndsBlock(line)
  BY <1>2 DEF RecordLine, AnyLine, Kinds, EndsBlock, IsRecord
<1>4. /\ FinishedBlock \in BlockType
      /\ FinishedBlock # Nothing => FinishedBlock.pane \in Tests
  BY <1>t, FinishFacts
<1>5. at \in Places /\ "final" \in Places /\ NoOutput \in EventType
  BY Blanks DEF Places
<1>6. /\ new \in TaskType /\ new.at = at /\ new.then = "final" /\ new.line = line
      /\ new.block = FinishedBlock /\ new.event = NoOutput
  BY <1>3, <1>4, <1>5 DEF TaskType
<1>7. /\ success' \in SuccessType /\ success'.collecting = None /\ success'.lines = NoLines
  BY <1>1, <1>3, <1>t, CollectFacts, FinishFacts
<1> HIDE DEF new, line
<1>8. /\ task' \in [Readers -> TaskType] /\ task'["stdout"] = new
      /\ \A q \in Readers \ {"stdout"} : task'[q] = task[q]
      /\ "stdout" \in Readers /\ "stderr" \in Readers \ {"stdout"}
  BY <1>1, <1>6, <1>t DEF TaskTypes, Readers
<1>9. TaskTypes'
  BY <1>4, <1>6, <1>8, <1>t DEF TaskTypes
<1>10. NextestTypes' /\ CollectorTypes' /\ TrackerTypes'
  BY <1>1, <1>2, <1>7 DEF CaptureTypes, NextestTypes, CollectorTypes, TrackerTypes
<1>11. LoopInv'
  BY <1>1, <1>2, <1>6, <1>7, <1>8 DEF LoopInv, Readers
<1>o. task["stdout"].event = NoOutput /\ task["stdout"].block = Nothing
  BY <1>1, <1>8, <1>t DEF TaskTypes
<1>12. DedupInv' /\ Keeps
  <2>1. \A q \in Readers : task'[q].event = task[q].event
    BY <1>6, <1>8, <1>o
  <2> QED
    BY <1>1, <2>1, StaysKept
<1>13. FailedInv'
  <2>1. task["stdout"].then = "read"
    BY <1>1, <1>8 DEF LoopInv
  <2>2. \A t, c : InRecord(t, c) => InRecord(t, c)'
    BY <1>1, <1>2, <1>6, <1>8, <2>1 DEF InRecord
  <2> QED
    BY <1>1, <1>12, <2>2, FailedStays
<1>14. LossInv'
  <2>1. failing = {} => NoFailure'
    BY <1>1, <1>7, <1>8, Blanks DEF LossInv, NoFailure
  <2>2. ASSUME NEW c \in Chunks, failing = {}, InStderr(c)
        PROVE  InStderr(c)'
    <3>1. CASE success.collecting # None /\ c \in Range(success.lines.text)
      BY <1>6, <1>8, <1>o, <2>2, <3>1, BlockStays
    <3>2. CASE ~(success.collecting # None /\ c \in Range(success.lines.text))
      <4>1. \A q \in Readers : c \in Range(task[q].block.text) => q # "stdout"
        BY <1>o, Blanks
      <4> QED
        BY <1>1, <1>8, <2>2, <3>2, <4>1 DEF InStderr, Readers
    <3> QED
      BY <3>1, <3>2
  <2> QED
    BY <1>1, <1>12, <2>1, <2>2, LossStays
<1> QED
  BY <1>9, <1>10, <1>11, <1>12, <1>13, <1>14 DEF CaptureTypes

\* dedupe_final_output_event.
LEMMA DedupeFinalKeeps ==
  ASSUME CaptureInv, DedupeFinal
  PROVE  CaptureInv'
<1> USE DEF CaptureInv
<1>l. PICK line : line = task["stdout"].line
  OBVIOUS
<1> DEFINE event == IF line.kind = "started" THEN Output(line.test, {})
                    ELSE Output(line.test, NewChunks(line.test, line.output))
<1>1. /\ task["stdout"].at = "final"
      /\ Go("stdout", "observe", "read", event)
      /\ IF line.kind = "started" THEN UNCHANGED <<snapshots, seen>>
         ELSE Remember(line.test, line.output)
      /\ UNCHANGED <<failing, fate, printed, exited, stdout, stderr, success, info, shown>>
  BY <1>l DEF DedupeFinal, nextestVars, pipes
<1>t. TaskTypes /\ "stdout" \in Readers /\ "stderr" \in Readers \ {"stdout"}
  BY DEF CaptureTypes, Readers
<1>2. line \in RecordLine /\ line.test \in Tests /\ line.output \in Seq(Chunks)
  <2>1. line \in RecordLine
    BY <1>1, <1>l DEF LoopInv
  <2> QED
    BY <2>1 DEF RecordLine
<1>3. /\ event \in EventType /\ event.pane = line.test
      /\ line.kind = "started" => event.chunks = {}
      /\ line.kind # "started" => event.chunks = NewChunks(line.test, line.output)
  <2>1. CASE line.kind = "started"
    BY <2>1, <1>2 DEF Output, EventType, Panes
  <2>2. CASE line.kind # "started"
    BY <2>2, <1>2, NewEvent
  <2> QED
    BY <2>1, <2>2
<1>4. task["stdout"].event = NoOutput
  BY <1>1, <1>t DEF TaskTypes
<1> HIDE DEF event
<1>p. "observe" \in Places \ {"dedupe"} /\ "read" \in Places
  BY DEF Places
<1>5. /\ task'["stdout"].at = "observe" /\ task'["stdout"].then = "read"
      /\ task'["stdout"].block = Nothing /\ task'["stdout"].event = event
      /\ task'["stdout"].line = line
      /\ \A q \in Readers \ {"stdout"} : task'[q] = task[q]
  BY <1>1, <1>3, <1>l, <1>t, <1>p, GoFacts
<1>6. TaskTypes'
  BY <1>1, <1>3, <1>t, <1>p, GoTypes
<1>7. NextestTypes' /\ CollectorTypes'
  BY <1>1 DEF CaptureTypes, NextestTypes, CollectorTypes
<1>8. TrackerTypes'
  <2>1. CASE line.kind = "started"
    BY <1>1, <2>1 DEF CaptureTypes, TrackerTypes
  <2>2. CASE line.kind # "started"
    BY <1>1, <1>2, <2>2, RememberTypes
  <2> QED
    BY <2>1, <2>2
<1>9. LoopInv'
  BY <1>1, <1>2, <1>3, <1>5, <1>l, <1>t DEF LoopInv, Readers
<1>10. /\ DedupInv' /\ Keeps
       /\ line.kind # "started" =>
            \A c \in Range(line.output) : c[2] \notin Frames => Has(line.test, c)'
  <2>1. CASE line.kind = "started"
    <3>1. \A q \in Readers : \/ task'[q].event = task[q].event
                             \/ /\ task[q].event = NoOutput
                                /\ task'[q].event.pane \notin Tests \/ task'[q].event.chunks = {}
      BY <1>3, <1>4, <1>5, <2>1
    <3> QED
      BY <1>1, <2>1, <3>1, StaysKept
  <2>2. CASE line.kind # "started"
    BY <1>1, <1>2, <1>3, <1>4, <1>5, <1>t, <2>2, RememberKeeps
  <2> QED
    BY <2>1, <2>2
<1>11. FailedInv'
  <2>1. ASSUME NEW t \in Tests, NEW c \in Chunks, c[2] \notin Frames, InRecord(t, c)
        PROVE  InRecord(t, c)' \/ Has(t, c)'
    <3>1. CASE \E l \in Range(stdout) : l.kind # "started" /\ l.test = t /\ c \in Range(l.output)
      BY <1>1, <3>1 DEF InRecord
    <3>2. CASE line.kind # "started" /\ line.test = t /\ c \in Range(line.output)
      BY <1>10, <2>1, <3>2
    <3> QED
      BY <2>1, <3>1, <3>2, <1>l DEF InRecord
  <2> QED
    BY <1>1, <1>10, <2>1, FailedStays
<1>12. LossInv'
  <2>1. failing = {} => NoFailure'
    BY <1>1, <1>5, <1>l, <1>t DEF LossInv, NoFailure
  <2>2. task["stdout"].block = Nothing
    BY <1>1, <1>t DEF TaskTypes
  <2>3. \A c \in Chunks : InStderr(c) => InStderr(c)'
    BY <1>1, <1>5, <2>2 DEF InStderr, Readers
  <2> QED
    BY <1>1, <1>10, <2>1, <2>3, LossStays
<1> QED
  BY <1>6, <1>7, <1>8, <1>9, <1>10, <1>11, <1>12 DEF CaptureTypes

\* observe_event of both collectors.
LEMMA ObserveKeeps ==
  ASSUME CaptureInv, Observe \/ ObserveInfo
  PROVE  CaptureInv'
<1> USE DEF CaptureInv
<1> DEFINE out == task["stdout"]
<1>1. PICK at \in {"observeInfo", "send"} :
        /\ out.at \in {"observe", "observeInfo"} /\ Go("stdout", at, "read", out.event)
        /\ UNCHANGED <<failing, fate, printed, exited, stdout, stderr, snapshots, seen, shown>>
  BY DEF Observe, ObserveInfo, nextestVars, pipes
<1>t. /\ TaskTypes /\ CollectorTypes
      /\ "stdout" \in Readers /\ "stderr" \in Readers \ {"stdout"}
  BY DEF CaptureTypes, Readers
<1>2. out \in TaskType /\ out.event \in EventType
  BY <1>t DEF TaskTypes, TaskType
<1>3. /\ out.line \in RecordLine /\ out.line.test \in Tests /\ out.event.pane = out.line.test
  <2>1. out.line \in RecordLine /\ out.event.pane = out.line.test
    BY <1>1 DEF LoopInv
  <2> QED
    BY <2>1 DEF RecordLine
<1>4. /\ success' \in SuccessType /\ success'.collecting = success.collecting
      /\ success'.lines = success.lines
  <2>1. CASE Observe
    <3>0. PICK t \in Tests : t = out.line.test
      BY <1>3
    <3>1. \/ success' = [success EXCEPT !.candidates = @ \union {t}, !.lastStarted = t]
          \/ success' = [success EXCEPT !.candidates = @ \union {t}, !.lastSuccess = t]
          \/ success' = [success EXCEPT !.candidates = @ \ {t}]
      BY <2>1, <3>0 DEF Observe, ObserveSuccess
    <3>2. success \in SuccessType
      BY <1>t DEF CollectorTypes
    <3>3. CASE success' = [success EXCEPT !.candidates = @ \union {t}, !.lastStarted = t]
      BY <3>2, <3>3 DEF SuccessType
    <3>4. CASE success' = [success EXCEPT !.candidates = @ \union {t}, !.lastSuccess = t]
      BY <3>2, <3>4 DEF SuccessType
    <3>5. CASE success' = [success EXCEPT !.candidates = @ \ {t}]
      BY <3>2, <3>5 DEF SuccessType
    <3> QED
      BY <3>1, <3>3, <3>4, <3>5
  <2>2. CASE ObserveInfo
    BY <2>2, <1>t DEF ObserveInfo, CollectorTypes
  <2> QED
    BY <2>1, <2>2
<1>5. info'.running \subseteq Tests /\ info'.block = info.block
      /\ info' \in [running : SUBSET Tests, block : InfoBlockType]
  <2>1. CASE Observe
    BY <2>1, <1>t DEF Observe, CollectorTypes
  <2>2. CASE ObserveInfo
    <3>1. \/ info' = [info EXCEPT !.running = @ \union {out.line.test}]
          \/ info' = [info EXCEPT !.running = @ \ {out.line.test}]
      BY <2>2 DEF ObserveInfo
    <3> HIDE DEF out
    <3> QED
      BY <3>1, <1>3, <1>t DEF CollectorTypes
  <2> QED
    BY <2>1, <2>2
<1>p. at \in Places \ {"dedupe"} /\ "read" \in Places
  BY DEF Places
<1> HIDE DEF out
<1>6. /\ task'["stdout"].at = at /\ task'["stdout"].then = "read"
      /\ task'["stdout"].block = Nothing /\ task'["stdout"].event = out.event
      /\ task'["stdout"].line = out.line
      /\ \A q \in Readers \ {"stdout"} : task'[q] = task[q]
  BY <1>1, <1>2, <1>t, <1>p, GoFacts DEF out
<1>7. TaskTypes'
  BY <1>1, <1>2, <1>t, <1>p, GoTypes
<1>8. NextestTypes' /\ CollectorTypes' /\ TrackerTypes'
  BY <1>1, <1>4, <1>5, <1>t DEF CaptureTypes, NextestTypes, CollectorTypes, TrackerTypes
<1>9. LoopInv'
  BY <1>1, <1>3, <1>4, <1>5, <1>6, <1>t DEF LoopInv, Readers
<1>10. DedupInv' /\ Keeps
  <2>1. \A q \in Readers : task'[q].event = task[q].event
    BY <1>6 DEF out
  <2> QED
    BY <1>1, <2>1, StaysKept
<1>11. FailedInv'
  <2>1. \A t, c : InRecord(t, c) => InRecord(t, c)'
    <3>1. out.at # "final" /\ out.then # "final"
      BY <1>1, <1>t DEF LoopInv, out
    <3> QED
      BY <1>1, <3>1 DEF InRecord, out
  <2> QED
    BY <1>1, <1>10, <2>1, FailedStays
<1>12. LossInv'
  <2>1. failing = {} => NoFailure'
    BY <1>1, <1>4, <1>6, <1>t DEF LossInv, NoFailure
  <2>2. task["stdout"].block = Nothing
    BY <1>1, <1>t DEF TaskTypes, out
  <2>3. \A c \in Chunks : InStderr(c) => InStderr(c)'
    BY <1>1, <1>4, <1>5, <1>6, <2>2 DEF InStderr, Readers
  <2> QED
    BY <1>1, <1>10, <2>1, <2>3, LossStays
<1> QED
  BY <1>7, <1>8, <1>9, <1>10, <1>11, <1>12 DEF CaptureTypes

-----------------------------------------------------------------------------
(* The steps of the task reading stderr.                                   *)
LEMMA PreviewFacts ==
  ASSUME CaptureTypes, NEW finishes \in BOOLEAN
  PROVE  LET e == PreviewEvent(finishes)
             block == info.block
         IN /\ e \in EventType
            /\ finishes /\ block.key # None =>
                 /\ block.key \in Tests /\ block.text \in Seq(Chunks)
                 /\ e.chunks = NewChunks(block.key, block.text)
                 /\ NewChunks(block.key, block.text) # {} => e.pane = block.key
            /\ ~(finishes /\ block.key # None) => e = NoOutput
<1>1. info.block \in InfoBlockType
  BY DEF CaptureTypes, CollectorTypes
<1>2. CASE finishes /\ info.block.key # None
  <2>1. info.block.key \in Tests /\ info.block.text \in Seq(Chunks)
    BY <1>1, <1>2 DEF InfoBlockType
  <2>2. PICK key \in Tests, text \in Seq(Chunks) : key = info.block.key /\ text = info.block.text
    BY <2>1
  <2>3. CASE NewChunks(key, text) = {}
    BY <1>2, <2>2, <2>3, Blanks DEF PreviewEvent
  <2>4. CASE NewChunks(key, text) # {}
    <3>1. PreviewEvent(finishes) = Output(key, NewChunks(key, text))
      BY <1>2, <2>2, <2>4 DEF PreviewEvent
    <3>2. /\ PreviewEvent(finishes) \in EventType /\ PreviewEvent(finishes).pane = key
          /\ PreviewEvent(finishes).chunks = NewChunks(key, text)
      BY <3>1, NewEvent
    <3> QED
      BY <1>2, <2>2, <3>2
  <2> QED
    BY <2>3, <2>4
<1>3. CASE ~(finishes /\ info.block.key # None)
  BY <1>3, Blanks DEF PreviewEvent
<1> QED
  BY <1>2, <1>3

\* What is previewed is with a pane or on its way to one.
LEMMA PreviewKeeps ==
  ASSUME CaptureTypes, DedupInv, NEW finishes \in BOOLEAN, Preview(finishes), UNCHANGED shown,
         task["stderr"].event = NoOutput, task'["stderr"].event = PreviewEvent(finishes),
         \A q \in Readers \ {"stderr"} : task'[q].event = task[q].event
  PROVE  /\ DedupInv' /\ Keeps /\ TrackerTypes'
         /\ finishes /\ info.block.key # None =>
              \A c \in Range(info.block.text) : \E dest \in Panes : Has(dest, c)'
<1>0. "stderr" \in Readers /\ Tests \subseteq Panes
  BY DEF Readers, Panes
<1>1. CASE finishes /\ info.block.key # None
  <2>1. PICK key \in Tests, text \in Seq(Chunks) :
          /\ key = info.block.key /\ text = info.block.text
          /\ task'["stderr"].event.chunks = NewChunks(key, text)
          /\ NewChunks(key, text) # {} => task'["stderr"].event.pane = key
    BY <1>1, PreviewFacts
  <2>2. Remember(key, text)
    BY <1>1, <2>1 DEF Preview
  <2>3. DedupInv' /\ Keeps /\ \A c \in Range(text) : \E u \in Tests : Has(u, c)'
    BY <1>0, <2>1, <2>2, RememberKeeps
  <2>4. TrackerTypes'
    BY <2>2, RememberTypes
  <2> QED
    BY <1>0, <2>1, <2>3, <2>4
<1>2. CASE ~(finishes /\ info.block.key # None)
  <2>1. task'["stderr"].event = NoOutput /\ UNCHANGED <<snapshots, seen>>
    BY <1>2, PreviewFacts DEF Preview
  <2>2. \A q \in Readers : task'[q].event = task[q].event
    BY <2>1
  <2>3. DedupInv' /\ Keeps
    BY <2>1, <2>2, StaysKept
  <2>4. TrackerTypes'
    BY <2>1 DEF CaptureTypes, TrackerTypes
  <2> QED
    BY <1>2, <2>3, <2>4
<1> QED
  BY <1>1, <1>2

\* consume_info_output_line.
LEMMA ReadStderrKeeps ==
  ASSUME CaptureInv, ReadStderr
  PROVE  CaptureInv'
<1> USE DEF CaptureInv
<1>t. TaskTypes /\ CollectorTypes /\ stderr \in Seq(ErrLine)
      /\ "stderr" \in Readers /\ "stdout" \in Readers \ {"stderr"}
  BY DEF CaptureTypes, NextestTypes, Readers
<1>1. /\ task["stderr"].at = "read" /\ stderr # <<>> /\ stderr' = Tail(stderr)
      /\ UNCHANGED <<failing, fate, printed, exited, stdout, success, shown>>
  BY DEF ReadStderr, nextestVars
<1>2. PICK line \in ErrLine :
        /\ line = Head(stderr) /\ stderr' \in Seq(ErrLine)
        /\ Range(stderr) = {line} \union Range(stderr')
  BY <1>1, <1>t, Emptied
<1>3. PICK finishes \in BOOLEAN, consumed \in BOOLEAN, block \in InfoBlockType :
        /\ finishes = InfoStep(line).finishes /\ consumed = InfoStep(line).consumed
        /\ block = InfoStep(line).block
        /\ (block.open \/ block = Closed)
        /\ info.block.key # None /\ ~finishes =>
             block.key = info.block.key /\ Range(info.block.text) \subseteq Range(block.text)
        /\ consumed =>
             \/ line.output = <<>>
             \/ block.key # None /\ Range(line.output) \subseteq Range(block.text)
  <2>1. InfoStep(line).finishes \in BOOLEAN /\ InfoStep(line).consumed \in BOOLEAN
    BY DEF InfoStep, Step
  <2> QED
    BY <1>t, <2>1, InfoFacts
<1> DEFINE e == PreviewEvent(finishes)
           then == IF consumed THEN "read" ELSE "collect"
           at == IF e = NoOutput THEN then ELSE "send"
           new == [at |-> at, then |-> then, line |-> line, block |-> Nothing, event |-> e]
<1>4. /\ info' = [info EXCEPT !.block = block] /\ Preview(finishes)
      /\ task' = [task EXCEPT !["stderr"] = new]
  BY <1>2, <1>3 DEF ReadStderr
<1>5. e \in EventType
  BY PreviewFacts
<1>6. at \in Places \ {"dedupe"} /\ then \in Places /\ line \in AnyLine
  BY DEF Places, ErrLine
<1>7. /\ new \in TaskType /\ new.at = at /\ new.then = then /\ new.line = line
      /\ new.block = Nothing /\ new.event = e
  <2> HIDE DEF e, at, then
  <2> QED
    BY <1>5, <1>6, Blanks DEF TaskType
<1> HIDE DEF new, e
<1>8. /\ task' \in [Readers -> TaskType] /\ task'["stderr"] = new
      /\ \A q \in Readers \ {"stderr"} : task'[q] = task[q]
  BY <1>4, <1>7, <1>t DEF TaskTypes
<1>9. TaskTypes'
  BY <1>7, <1>8, <1>t DEF TaskTypes
<1>10. NextestTypes' /\ CollectorTypes' /\ info'.block = block
  <2>1. info' \in [running : SUBSET Tests, block : InfoBlockType] /\ info'.block = block
    BY <1>4, <1>t DEF CollectorTypes
  <2> QED
    BY <1>1, <1>2, <1>3, <1>t, <2>1 DEF CaptureTypes, NextestTypes, CollectorTypes
<1>11. LoopInv'
  BY <1>1, <1>7, <1>8, <1>t DEF LoopInv
<1>12. /\ DedupInv' /\ Keeps /\ TrackerTypes'
       /\ finishes /\ info.block.key # None =>
            \A c \in Range(info.block.text) : \E dest \in Panes : Has(dest, c)'
  <2>1. task["stderr"].event = NoOutput /\ task'["stderr"].event = PreviewEvent(finishes)
    BY <1>1, <1>7, <1>8, <1>t DEF TaskTypes, e
  <2> QED
    BY <1>1, <1>4, <1>8, <2>1, PreviewKeeps
<1>13. FailedInv'
  <2>1. \A t, c : InRecord(t, c) => InRecord(t, c)'
    BY <1>1, <1>8, <1>t DEF InRecord
  <2> QED
    BY <1>1, <1>12, <2>1, FailedStays
<1>14. LossInv'
  <2>1. failing = {} => NoFailure'
    BY <1>1, <1>2, <1>7, <1>8 DEF LossInv, NoFailure
  <2>2. ASSUME NEW c \in Chunks, InStderr(c)
        PROVE  InStderr(c)' \/ \E dest \in Panes : Has(dest, c)'
    <3>1. CASE c \in Range(line.output)
      <4>1. CASE consumed
        <5>1. line.output # <<>>
          BY <3>1 DEF Range
        <5> QED
          BY <1>3, <1>10, <3>1, <4>1, <5>1 DEF InStderr
      <4>2. CASE ~consumed
        BY <1>7, <1>8, <3>1, <4>2 DEF InStderr
      <4> QED
        BY <4>1, <4>2
    <3>2. CASE info.block.key # None /\ c \in Range(info.block.text)
      <4>1. CASE finishes
        BY <1>12, <3>2, <4>1
      <4>2. CASE ~finishes
        BY <1>3, <1>10, <3>2, <4>2 DEF InStderr
      <4> QED
        BY <4>1, <4>2
    <3>3. CASE c \notin Range(line.output) /\ ~(info.block.key # None /\ c \in Range(info.block.text))
      <4>1. task["stderr"].then = "read" /\ task["stderr"].block = Nothing
        BY <1>1, <1>t DEF LoopInv, TaskTypes
      <4> QED
        BY <1>1, <1>2, <1>8, <2>2, <3>3, <4>1, Blanks DEF InStderr, Readers
    <3> QED
      BY <3>1, <3>2, <3>3
  <2> QED
    BY <1>1, <1>12, <2>1, <2>2, LossStays
<1> QED
  BY <1>9, <1>10, <1>11, <1>12, <1>13, <1>14 DEF CaptureTypes

\* stderr has ended: the list is finished.
LEMMA FlushInfoKeeps ==
  ASSUME CaptureInv, FlushInfo
  PROVE  CaptureInv'
<1> USE DEF CaptureInv
<1> DEFINE e == PreviewEvent(TRUE)
<1>t. TaskTypes /\ CollectorTypes
      /\ "stderr" \in Readers /\ "stdout" \in Readers \ {"stderr"}
  BY DEF CaptureTypes, Readers
<1>1. /\ task["stderr"].at = "read" /\ exited /\ stderr = <<>>
      /\ info' = [info EXCEPT !.block = Closed] /\ Preview(TRUE)
      /\ UNCHANGED <<failing, fate, printed, exited, stdout, stderr, success, shown>>
  BY DEF FlushInfo, nextestVars, pipes
<1>2. PICK at \in {"flush", "send"}, then \in {"read", "flush"} :
        /\ Go("stderr", at, then, e) /\ (at = "flush" => e = NoOutput /\ then = "read")
  BY DEF FlushInfo
<1>3. e \in EventType
  <2>1. TRUE \in BOOLEAN
    OBVIOUS
  <2> QED
    BY <2>1, PreviewFacts
<1> HIDE DEF e
<1>p. at \in Places \ {"dedupe"} /\ then \in Places
  BY DEF Places
<1>4. /\ task'["stderr"].at = at /\ task'["stderr"].then = then
      /\ task'["stderr"].block = Nothing /\ task'["stderr"].event = e
      /\ task'["stderr"].line = task["stderr"].line
      /\ \A q \in Readers \ {"stderr"} : task'[q] = task[q]
  BY <1>2, <1>3, <1>p, <1>t, GoFacts
<1>5. TaskTypes'
  BY <1>2, <1>3, <1>p, <1>t, GoTypes
<1>6. NextestTypes' /\ CollectorTypes' /\ info'.block = Closed
  <2>1. info' \in [running : SUBSET Tests, block : InfoBlockType] /\ info'.block = Closed
    BY <1>1, <1>t, Blanks DEF CollectorTypes
  <2> QED
    BY <1>1, <1>t, <2>1 DEF CaptureTypes, NextestTypes, CollectorTypes
<1>7. LoopInv'
  BY <1>1, <1>2, <1>4, <1>6, <1>t DEF LoopInv, Readers
<1>8. /\ DedupInv' /\ Keeps /\ TrackerTypes'
      /\ info.block.key # None =>
           \A c \in Range(info.block.text) : \E dest \in Panes : Has(dest, c)'
  <2>1. task["stderr"].event = NoOutput /\ task'["stderr"].event = PreviewEvent(TRUE)
    BY <1>1, <1>4, <1>t DEF TaskTypes, e
  <2>2. TRUE \in BOOLEAN
    OBVIOUS
  <2> QED
    BY <1>1, <1>4, <2>1, <2>2, PreviewKeeps
<1>9. FailedInv'
  <2>1. \A t, c : InRecord(t, c) => InRecord(t, c)'
    BY <1>1, <1>4, <1>t DEF InRecord
  <2> QED
    BY <1>1, <1>8, <2>1, FailedStays
<1>10. LossInv'
  <2>1. failing = {} => NoFailure'
    BY <1>1, <1>4 DEF LossInv, NoFailure
  <2>2. ASSUME NEW c \in Chunks, InStderr(c)
        PROVE  InStderr(c)' \/ \E dest \in Panes : Has(dest, c)'
    <3>1. CASE info.block.key # None /\ c \in Range(info.block.text)
      BY <1>8, <3>1
    <3>2. CASE ~(info.block.key # None /\ c \in Range(info.block.text))
      <4>1. task["stderr"].then = "read" /\ task["stderr"].block = Nothing
        BY <1>1, <1>t DEF LoopInv, TaskTypes
      <4> QED
        BY <1>1, <1>4, <2>2, <3>2, <4>1, Blanks DEF InStderr, Readers
    <3> QED
      BY <3>1, <3>2
  <2> QED
    BY <1>1, <1>8, <2>1, <2>2, LossStays
<1> QED
  BY <1>5, <1>6, <1>7, <1>8, <1>9, <1>10 DEF CaptureTypes

\* consume_success_output_line.
LEMMA CollectStderrKeeps ==
  ASSUME CaptureInv, CollectStderr
  PROVE  CaptureInv'
<1> USE DEF CaptureInv
<1>t. TaskTypes /\ CollectorTypes
      /\ "stderr" \in Readers /\ "stdout" \in Readers \ {"stderr"}
  BY DEF CaptureTypes, Readers
<1>1. PICK line \in ErrLine : line = task["stderr"].line
  BY <1>t DEF TaskTypes
<1>2. line \in AnyLine /\ (line.kind # "text" => line.output = <<>>)
  BY DEF ErrLine
<1>3. PICK next \in SuccessType, consumed \in BOOLEAN :
        /\ next = CollectLine(line).next /\ consumed = CollectLine(line).consumed
        /\ next.collecting = None => next.lines = NoLines
        /\ EndsBlock(line) => ~consumed /\ next = AfterBlock
        /\ ~EndsBlock(line) /\ success.collecting # None =>
             /\ consumed /\ next.collecting = success.collecting
             /\ next.lines = WithLine(success.lines, line)
        /\ ~EndsBlock(line) /\ success.collecting = None =>
             /\ consumed => line.kind = "header"
             /\ next.lines = NoLines
        /\ ~consumed => next.collecting = None
  <2>1. CollectLine(line).consumed \in BOOLEAN
    BY DEF CollectLine
  <2> QED
    BY <1>2, <1>t, <2>1, CollectFacts
<1>4. /\ task["stderr"].at = "collect" /\ success' = next
      /\ UNCHANGED <<failing, fate, printed, exited, stdout, stderr, info, snapshots, seen, shown>>
  BY <1>1, <1>3 DEF CollectStderr, nextestVars, pipes
<1>5. task["stderr"].event = NoOutput /\ task["stderr"].block = Nothing
  BY <1>4, <1>t DEF TaskTypes
<1>6. /\ TaskTypes' /\ task'["stderr"].event = NoOutput /\ task'["stderr"].line = line
      /\ task'["stderr"].block = IF EndsBlock(line) THEN FinishedBlock ELSE Nothing
      /\ task'["stderr"].at \in {"read", "dedupe", "runner"}
      /\ task'["stderr"].then \in {"read", "runner"}
      /\ task'["stderr"].at \notin {"dedupe"} => task'["stderr"].then = "read"
      /\ ~consumed => "runner" \in {task'["stderr"].at, task'["stderr"].then}
      /\ \A q \in Readers \ {"stderr"} : task'[q] = task[q]
  <2>1. CASE EndsBlock(line)
    <3>1. GoWithBlock("stderr", "runner")
      BY <1>1, <1>3, <2>1 DEF CollectStderr
    <3> QED
      BY <1>1, <1>5, <1>t, <2>1, <3>1, GoWithBlockFacts
  <2>2. CASE ~EndsBlock(line)
    <3> DEFINE then == IF consumed THEN "read" ELSE "runner"
    <3>1. Go("stderr", then, "read", NoOutput)
      BY <1>1, <1>3, <2>2 DEF CollectStderr
    <3>2. then \in Places \ {"dedupe"} /\ "read" \in Places /\ NoOutput \in EventType
      BY Blanks DEF Places
    <3>3. TaskTypes'
      BY <3>1, <3>2, <1>t, GoTypes
    <3> QED
      BY <3>1, <3>2, <3>3, <2>2, <1>1, <1>t, GoFacts
  <2> QED
    BY <2>1, <2>2
<1>7. NextestTypes' /\ CollectorTypes' /\ TrackerTypes'
  BY <1>3, <1>4, <1>t DEF CaptureTypes, NextestTypes, CollectorTypes, TrackerTypes
<1>8. LoopInv'
  BY <1>4, <1>6, <1>t DEF LoopInv, Readers
<1>9. DedupInv' /\ Keeps
  <2>1. \A q \in Readers : task'[q].event = task[q].event
    BY <1>5, <1>6
  <2> QED
    BY <1>4, <2>1, StaysKept
<1>10. FailedInv'
  <2>1. \A t, c : InRecord(t, c) => InRecord(t, c)'
    BY <1>4, <1>6, <1>t DEF InRecord
  <2> QED
    BY <1>4, <1>9, <2>1, FailedStays
<1>n. WithLine(success.lines, line).text = success.lines.text \o line.output
      /\ WithLine(success.lines, line).failure
           = (success.lines.failure \/ line.kind = "nameFailed")
  BY DEF WithLine
<1>11. LossInv'
  <2>1. failing = {} => NoFailure'
    <3> SUFFICES ASSUME failing = {}, NoFailure
                 PROVE  NoFailure'
      BY DEF LossInv
    <3>1. line.kind # "nameFailed" /\ ~success.lines.failure
      BY <1>1 DEF NoFailure
    <3>2. ~next.lines.failure
      <4>1. CASE EndsBlock(line)
        BY <1>3, <1>t, <4>1, FinishFacts, Blanks
      <4>2. CASE ~EndsBlock(line) /\ success.collecting # None
        BY <1>3, <1>n, <3>1, <4>2
      <4>3. CASE ~EndsBlock(line) /\ success.collecting = None
        BY <1>3, <4>3, Blanks
      <4> QED
        BY <4>1, <4>2, <4>3
    <3> QED
      BY <1>4, <1>6, <3>1, <3>2 DEF NoFailure
  <2>2. ASSUME NEW c \in Chunks, failing = {}, InStderr(c)
        PROVE  InStderr(c)'
    <3>1. CASE c \in Range(line.output)
      <4>1. CASE ~consumed
        BY <1>6, <3>1, <4>1 DEF InStderr
      <4>2. CASE consumed
        <5>1. line.output # <<>> /\ line.kind # "header"
          BY <1>2, <3>1 DEF Range
        <5>2. success.collecting # None /\ next.collecting # None
              /\ next.lines = WithLine(success.lines, line)
          BY <1>3, <4>2, <5>1
        <5>3. success.lines.text \in Seq(Chunks) /\ line.output \in Seq(Chunks)
          BY <1>2, <1>t DEF CollectorTypes, SuccessType, LinesType, AnyLine
        <5>c. Range(success.lines.text \o line.output)
                = Range(success.lines.text) \union Range(line.output)
          BY <5>3, Concatenated
        <5>d. next.lines.text = success.lines.text \o line.output
          BY <1>n, <5>2
        <5>4. c \in Range(next.lines.text)
          BY <3>1, <5>c, <5>d
        <5> QED
          BY <1>4, <5>2, <5>4 DEF InStderr
      <4> QED
        BY <4>1, <4>2
    <3>2. CASE success.collecting # None /\ c \in Range(success.lines.text)
      <4>1. CASE EndsBlock(line)
        BY <1>5, <1>6, <2>2, <3>2, <4>1, <1>t, BlockStays
      <4>2. CASE ~EndsBlock(line)
        <5>1. next.collecting # None /\ next.lines = WithLine(success.lines, line)
          BY <1>3, <3>2, <4>2
        <5>2. success.lines.text \in Seq(Chunks) /\ line.output \in Seq(Chunks)
          BY <1>2, <1>t DEF CollectorTypes, SuccessType, LinesType, AnyLine
        <5>c. Range(success.lines.text \o line.output)
                = Range(success.lines.text) \union Range(line.output)
          BY <5>2, Concatenated
        <5>d. next.lines.text = success.lines.text \o line.output
          BY <1>n, <5>1
        <5>3. c \in Range(next.lines.text)
          BY <3>2, <5>c, <5>d
        <5> QED
          BY <1>4, <5>1, <5>3 DEF InStderr
      <4> QED
        BY <4>1, <4>2
    <3>3. CASE c \notin Range(line.output)
               /\ ~(success.collecting # None /\ c \in Range(success.lines.text))
      BY <1>1, <1>4, <1>5, <1>6, <2>2, <3>3, Blanks DEF InStderr, Readers
    <3> QED
      BY <3>1, <3>2, <3>3
  <2> QED
    BY <1>4, <1>9, <2>1, <2>2, LossStays
<1> QED
  BY <1>6, <1>7, <1>8, <1>9, <1>10, <1>11 DEF CaptureTypes

\* A line that no collector takes.
LEMMA RunnerLineKeeps ==
  ASSUME CaptureInv, RunnerLine
  PROVE  CaptureInv'
<1> USE DEF CaptureInv
<1> DEFINE event == Output(Runner, Range(task["stderr"].line.output))
<1>t. TaskTypes /\ "stderr" \in Readers /\ "stdout" \in Readers \ {"stderr"}
  BY DEF CaptureTypes, Readers
<1>1. /\ task["stderr"].at = "runner" /\ Go("stderr", "send", "read", event)
      /\ UNCHANGED <<failing, fate, printed, exited, stdout, stderr, success, info,
                     snapshots, seen, shown>>
  BY DEF RunnerLine, nextestVars, pipes
<1>2. PICK line \in ErrLine : line = task["stderr"].line
  BY <1>t DEF TaskTypes
<1>3. event \in EventType /\ event.pane = Runner /\ event.chunks = Range(line.output)
  <2>1. line.output \in Seq(Chunks)
    BY DEF ErrLine, AnyLine
  <2>2. Range(line.output) \subseteq Chunks
    BY <2>1 DEF Range
  <2>3. PICK chunks \in SUBSET Chunks : chunks = Range(line.output)
    BY <2>2
  <2>4. event = Output(Runner, chunks)
    BY <1>2, <2>3
  <2>5. Output(Runner, chunks) \in EventType /\ Output(Runner, chunks).pane = Runner
        /\ Output(Runner, chunks).chunks = chunks
    BY DEF Output, EventType, Panes
  <2> QED
    BY <2>3, <2>4, <2>5
<1> HIDE DEF event
<1>p. "send" \in Places \ {"dedupe"} /\ "read" \in Places
  BY DEF Places
<1>4. /\ task'["stderr"].at = "send" /\ task'["stderr"].then = "read"
      /\ task'["stderr"].block = Nothing /\ task'["stderr"].event = event
      /\ task'["stderr"].line = line
      /\ \A q \in Readers \ {"stderr"} : task'[q] = task[q]
  BY <1>1, <1>2, <1>3, <1>p, <1>t, GoFacts
<1>5. TaskTypes'
  BY <1>1, <1>3, <1>p, <1>t, GoTypes
<1>6. NextestTypes' /\ CollectorTypes' /\ TrackerTypes'
  BY <1>1 DEF CaptureTypes, NextestTypes, CollectorTypes, TrackerTypes
<1>7. LoopInv'
  BY <1>1, <1>4, <1>t DEF LoopInv, Readers
<1>o. task["stderr"].event = NoOutput /\ task["stderr"].block = Nothing
  BY <1>1, <1>t DEF TaskTypes
<1>8. DedupInv' /\ Keeps
  <2>1. \A q \in Readers : \/ task'[q].event = task[q].event
                           \/ /\ task[q].event = NoOutput
                              /\ task'[q].event.pane \notin Tests \/ task'[q].event.chunks = {}
    BY <1>3, <1>4, <1>o, CaptureAssumption
  <2> QED
    BY <1>1, <2>1, StaysKept
<1>9. FailedInv'
  <2>1. \A t, c : InRecord(t, c) => InRecord(t, c)'
    BY <1>1, <1>4, <1>t DEF InRecord
  <2> QED
    BY <1>1, <1>8, <2>1, FailedStays
<1>10. LossInv'
  <2>1. failing = {} => NoFailure'
    BY <1>1, <1>2, <1>4 DEF LossInv, NoFailure
  <2>2. ASSUME NEW c \in Chunks, InStderr(c)
        PROVE  InStderr(c)' \/ \E dest \in Panes : Has(dest, c)'
    <3>1. CASE c \in Range(line.output)
      BY <1>3, <1>4, <1>t, <3>1 DEF Has, Panes
    <3>2. CASE c \notin Range(line.output)
      BY <1>1, <1>2, <1>4, <1>o, <2>2, <3>2, Blanks DEF InStderr, Readers
    <3> QED
      BY <3>1, <3>2
  <2> QED
    BY <1>1, <1>8, <2>1, <2>2, LossStays
<1> QED
  BY <1>5, <1>6, <1>7, <1>8, <1>9, <1>10 DEF CaptureTypes

-----------------------------------------------------------------------------
\* The invariant holds at the start.
LEMMA InitCaptures == Init => CaptureInv
<1> SUFFICES ASSUME Init
             PROVE  CaptureInv
  OBVIOUS
<1>1. /\ failing \in Failings /\ fate = [t \in Tests |-> "waiting"]
      /\ printed = [t \in Tests |-> 0] /\ exited = FALSE /\ stdout = <<>> /\ stderr = <<>>
      /\ success = [lastStarted |-> None, lastSuccess |-> None, candidates |-> {},
                    emitted |-> {}, collecting |-> None, lines |-> NoLines]
      /\ info = [running |-> {}, block |-> Closed]
      /\ snapshots = [t \in Tests |-> <<>>] /\ seen = {}
      /\ shown = [at \in Panes \X Chunks |-> 0]
  BY DEF Init
<1> DEFINE new == [at |-> "read", then |-> "read", line |-> Line("none", None),
                   block |-> Nothing, event |-> NoOutput]
<1>2. task = [r \in Readers |-> new]
  BY DEF Init
<1>r. Range(<<>>) = {}
  BY DEF Range
<1>3. /\ new \in TaskType /\ new.at = "read" /\ new.then = "read" /\ new.event = NoOutput
      /\ new.block = Nothing /\ new.line \in ErrLine /\ new.line.kind = "none"
      /\ new.line.output = <<>>
  <2>1. "none" \in Kinds /\ "read" \in Places /\ None \in Tests \union {None}
    BY DEF Kinds, Places
  <2>2. /\ Line("none", None) \in ErrLine /\ Line("none", None).kind = "none"
        /\ Line("none", None).output = <<>>
    BY <2>1, LineFacts
  <2>3. Line("none", None) \in AnyLine
    BY <2>2 DEF ErrLine
  <2> QED
    BY <2>1, <2>2, <2>3, Blanks DEF TaskType
<1> HIDE DEF new
<1>4. NextestTypes
  <2>1. MaxChunks \in Nat /\ exited \in BOOLEAN
    BY <1>1, CaptureAssumption
  <2>2. stdout \in Seq(RecordLine) /\ stderr \in Seq(ErrLine)
    BY <1>1
  <2>3. printed \in [Tests -> 0..MaxChunks]
    BY <1>1, <2>1
  <2> QED
    BY <1>1, <2>1, <2>2, <2>3 DEF NextestTypes
<1>5. TaskTypes
  BY <1>2, <1>3 DEF TaskTypes, Readers
<1>6. CollectorTypes
  BY <1>1, Blanks DEF CollectorTypes, SuccessType
<1>7. TrackerTypes
  <2>1. <<>> \in Seq(Chunks)
    OBVIOUS
  <2>2. shown \in [Panes \X Chunks -> Nat]
    BY <1>1
  <2> QED
    BY <1>1, <2>1, <2>2 DEF TrackerTypes
<1>8. LoopInv
  BY <1>1, <1>2, <1>3, <1>5 DEF LoopInv, Readers
<1>9. \A t \in Tests : \A c \in Chunks : ~Has(t, c) /\ shown[<<t, c>>] = 0
  BY <1>1, <1>2, <1>3, Blanks DEF Has, Panes
<1>10. DedupInv
  <2>1. SnapInv /\ SeenInv
    BY <1>1, <1>r DEF SnapInv, SeenInv
  <2>2. \A r \in Readers : \A c : ~Pending(r, c)
    BY <1>2, <1>3, Blanks DEF Pending
  <2>3. OnceInv
    <3> SUFFICES ASSUME NEW c \in Chunks
                 PROVE  /\ \A t \in Tests : Has(t, c) => c \in seen
                        /\ ~(Pending("stdout", c) /\ Pending("stderr", c))
                        /\ \A r \in Readers, t \in Tests : Pending(r, c) => shown[<<t, c>>] = 0
                        /\ \A t \in Tests : shown[<<t, c>>] <= 1
                        /\ \A t, u \in Tests :
                             shown[<<t, c>>] > 0 /\ shown[<<u, c>>] > 0 => t = u
      BY DEF OnceInv
    <3>1. \A t \in Tests : ~Has(t, c) /\ shown[<<t, c>>] = 0
      BY <1>9
    <3>2. \A t \in Tests : shown[<<t, c>>] <= 1 /\ ~(shown[<<t, c>>] > 0)
      BY <3>1
    <3>3. ~Pending("stdout", c)
      BY <2>2 DEF Readers
    <3>4. \A r \in Readers, t \in Tests : Pending(r, c) => shown[<<t, c>>] = 0
      BY <3>1
    <3>5. \A t, u \in Tests : shown[<<t, c>>] > 0 /\ shown[<<u, c>>] > 0 => t = u
      BY <3>2, Zenon
    <3>6. \A t \in Tests : shown[<<t, c>>] <= 1
      BY <3>2, Zenon
    <3> QED
      BY <3>1, <3>3, <3>4, <3>5, <3>6, Zenon
  <2> QED
    BY <2>1, <2>3 DEF DedupInv
<1>11. \A t \in Tests : fate[t] # "done"
  BY <1>1
<1>12. FailedInv
  BY <1>1, <1>11, CaptureAssumption DEF FailedInv
<1>13. LossInv
  <2>1. NoFailure
    BY <1>1, <1>2, <1>3, <1>r, Blanks DEF NoFailure, Readers
  <2> QED
    BY <1>11, <2>1 DEF LossInv
<1> QED
  BY <1>4, <1>5, <1>6, <1>7, <1>8, <1>10, <1>12, <1>13 DEF CaptureInv, CaptureTypes

\* Every step keeps it.
LEMMA NextCaptures == CaptureInv /\ [Next]_vars => CaptureInv'
<1> SUFFICES ASSUME CaptureInv, [Next]_vars
             PROVE  CaptureInv'
  OBVIOUS
<1>1. CASE \E t \in Tests : StartTest(t) \/ PrintChunk(t) \/ FinishTest(t)
  BY <1>1, StartTestKeeps, PrintChunkKeeps, FinishTestKeeps
<1>2. CASE Poll \/ Exit
  BY <1>2, PollKeeps, ExitKeeps
<1>3. CASE \E r \in Readers : DedupeBlock(r) \/ Send(r) \/ FlushSuccess(r)
  BY <1>3, DedupeBlockKeeps, SendKeeps, FlushSuccessKeeps
<1>4. CASE ReadStdout \/ DedupeFinal \/ Observe \/ ObserveInfo
  BY <1>4, ReadStdoutKeeps, DedupeFinalKeeps, ObserveKeeps
<1>5. CASE ReadStderr \/ CollectStderr \/ RunnerLine \/ FlushInfo
  BY <1>5, ReadStderrKeeps, CollectStderrKeeps, RunnerLineKeeps, FlushInfoKeeps
<1>6. CASE UNCHANGED vars
  <2>1. UNCHANGED <<failing, fate, printed, exited, stdout, stderr, task, success, info,
                    snapshots, seen, shown>>
    BY <1>6 DEF vars, nextestVars, pipes
  <2>2. CaptureTypes'
    BY <2>1 DEF CaptureInv, CaptureTypes, NextestTypes, TaskTypes, CollectorTypes, TrackerTypes
  <2>3. LoopInv'
    BY <2>1 DEF CaptureInv, LoopInv
  <2>4. DedupInv' /\ Keeps
    BY <2>1, StaysKept DEF CaptureInv
  <2>5. (\A t, c : InRecord(t, c) => InRecord(t, c)') /\ (\A c : InStderr(c) => InStderr(c)')
        /\ (NoFailure => NoFailure')
    BY <2>1, MoreLines DEF CaptureInv
  <2>6. FailedInv'
    BY <2>1, <2>4, <2>5, FailedStays DEF CaptureInv
  <2>7. LossInv'
    BY <2>1, <2>4, <2>5, LossStays DEF CaptureInv, LossInv
  <2> QED
    BY <2>2, <2>3, <2>4, <2>6, <2>7 DEF CaptureInv
<1> QED
  BY <1>1, <1>2, <1>3, <1>4, <1>5, <1>6 DEF Next

(* The invariant holds: every piece of output of every test is somewhere.  *)
THEOREM CaptureInvariance == Spec => []CaptureInv
<1>1. Init => CaptureInv
  BY InitCaptures
<1>2. CaptureInv /\ [Next]_vars => CaptureInv'
  BY NextCaptures
<1> QED
  BY <1>1, <1>2, PTL DEF Spec

(* A framed event that is in the output in several forms (the block on     *)
(* stderr, the record on stdout, a list of running tests) is given to one  *)
(* test and once: OutputSnapshotTracker.seen_events, asked and extended    *)
(* under one lock by both tasks.                                           *)
THEOREM EventsComeOnce == Spec => []EventsOnce
<1>1. CaptureInv => EventsOnce
  <2> SUFFICES ASSUME CaptureInv, NEW c \in Chunks, c[2] \in Frames, NEW t \in Tests,
                      shown[<<t, c>>] > 0
               PROVE  shown[<<t, c>>] = 1 /\ \A u \in Tests \ {t} : shown[<<u, c>>] = 0
    BY DEF EventsOnce
  <2>1. \A u \in Tests : shown[<<u, c>>] \in Nat
    BY DEF CaptureInv, CaptureTypes, TrackerTypes, Panes
  <2>2. /\ \A u \in Tests : shown[<<u, c>>] <= 1
        /\ \A u, v \in Tests : shown[<<u, c>>] > 0 /\ shown[<<v, c>>] > 0 => u = v
    BY DEF CaptureInv, DedupInv, OnceInv
  <2>3. shown[<<t, c>>] = 1
    BY <2>1, <2>2
  <2>4. \A u \in Tests \ {t} : ~(shown[<<u, c>>] > 0)
    BY <2>2
  <2> QED
    BY <2>1, <2>3, <2>4
<1> QED
  BY <1>1, CaptureInvariance, PTL

(* When both tasks have ended, all the text of a failed test was given to  *)
(* that test, although its block on stderr is dropped, and in a run        *)
(* without failures all that was printed was given to some pane: no lock   *)
(* that is let go between a collector, the tracker and the send loses      *)
(* anything.                                                               *)
THEOREM OutputIsKept == Spec => []OutputInv
<1>1. CaptureInv => OutputInv
  <2> SUFFICES ASSUME CaptureInv
               PROVE  TypeOK /\ FailureShownInFull /\ NothingVanishes
    BY DEF OutputInv
  <2> USE DEF CaptureInv
  <2>1. TypeOK
    BY DEF TypeOK, CaptureTypes, NextestTypes, CollectorTypes, SuccessType, TrackerTypes
  <2>2. ASSUME Done, NEW c \in Printed
        PROVE  /\ c[1] \in Tests /\ c[2] \in 1..printed[c[1]] /\ c = <<c[1], c[2]>>
               /\ c \in Chunks /\ fate[c[1]] = "done"
    <3>1. /\ c \in Tests \X (1..MaxChunks) /\ c[2] <= printed[c[1]]
      BY DEF Printed, Chunks
    <3>2. c[1] \in Tests /\ c[2] \in 1..MaxChunks /\ c = <<c[1], c[2]>>
      BY <3>1
    <3>3. printed[c[1]] \in 0..MaxChunks /\ MaxChunks \in Nat
      BY <3>2, CaptureAssumption DEF CaptureTypes, NextestTypes
    <3>4. fate[c[1]] = "done"
      BY <2>2, <3>2 DEF LoopInv, Done, Readers
    <3> QED
      BY <3>1, <3>2, <3>3, <3>4 DEF Chunks
  <2>3. ASSUME Done
        PROVE  /\ \A r \in Readers : task[r].at = "done" /\ task[r].then \in {"read", "done"}
               /\ \A r \in Readers : task[r].event = NoOutput /\ task[r].block = Nothing
               /\ stdout = <<>> /\ stderr = <<>> /\ info.block = Closed
               /\ success.collecting = None
    BY <2>3 DEF Done, LoopInv, CaptureTypes, TaskTypes, Readers
  <2>4. ASSUME Done, NEW dest \in Panes, NEW c \in Chunks, Has(dest, c)
        PROVE  shown[<<dest, c>>] > 0
    BY <2>3, <2>4, Blanks DEF Has
  <2>r. Range(<<>>) = {}
    BY DEF Range
  <2>5. FailureShownInFull
    <3> SUFFICES ASSUME Done, NEW c \in Printed, c[1] \in failing, c[2] \notin Frames
                 PROVE  shown[<<c[1], c>>] > 0
      BY DEF FailureShownInFull
    <3>1. Has(c[1], c) \/ InRecord(c[1], c)
      BY <2>2 DEF FailedInv
    <3>2. ~InRecord(c[1], c)
      BY <2>3, <2>r DEF InRecord, Readers
    <3> QED
      BY <2>2, <2>4, <3>1, <3>2 DEF Panes
  <2>6. NothingVanishes
    <3> SUFFICES ASSUME Done
                 PROVE  /\ success.collecting = None /\ ~info.block.open
                        /\ failing = {} =>
                             \A c \in Printed : \E dest \in Panes : shown[<<dest, c>>] > 0
      BY DEF NothingVanishes
    <3>1. success.collecting = None /\ ~info.block.open
      BY <2>3, Blanks
    <3>2. ASSUME failing = {}, NEW c \in Printed
          PROVE  \E dest \in Panes : shown[<<dest, c>>] > 0
      <4>1. InStderr(c) \/ \E dest \in Panes : Has(dest, c)
        <5>1. c[1] \in Tests /\ c[2] \in 1..printed[c[1]] /\ fate[c[1]] = "done"
              /\ c = <<c[1], c[2]>>
          BY <2>2
        <5> QED
          BY <3>2, <5>1 DEF LossInv
      <4>2. ~InStderr(c)
        BY <2>3, <2>r, Blanks DEF InStderr, Readers
      <4> QED
        BY <2>2, <2>4, <4>1, <4>2
    <3> QED
      BY <3>1, <3>2
  <2> QED
    BY <2>1, <2>5, <2>6
<1> QED
  BY <1>1, CaptureInvariance, PTL

-----------------------------------------------------------------------------
(***************************************************************************)
(* What the operations of Scroll promise, for lists and panes of any size. *)
(***************************************************************************)

LEMMA Bounds ==
  ASSUME NEW a \in Nat, NEW b \in Nat
  PROVE  /\ Larger(a, b) \in Nat /\ Larger(a, b) >= a /\ Larger(a, b) >= b
         /\ Smaller(a, b) \in Nat /\ Smaller(a, b) <= a /\ Smaller(a, b) <= b
         /\ Less(a, b) \in Nat /\ Less(a, b) <= a /\ Less(a, b) + b >= a
         /\ a >= b => Less(a, b) + b = a
         /\ Larger(a, b) \in {a, b} /\ Smaller(a, b) \in {a, b}
  BY DEF Larger, Smaller, Less

LEMMA Margin ==
  ASSUME NEW page \in Nat \ {0}, NEW scrolloff \in Nat
  PROVE  LET off == Smaller(scrolloff, Less(page, 1) \div 2)
         IN off \in Nat /\ 2 * off <= page - 1
<1>1. Less(page, 1) = page - 1
  BY DEF Less
<1>2. (page - 1) \div 2 \in Nat /\ 2 * ((page - 1) \div 2) <= page - 1
  OBVIOUS
<1> QED
  BY <1>1, <1>2 DEF Smaller

(* A row that ensure_visible is asked to show is in the pane, the pane     *)
(* never begins beyond its last page, and it is left where it is when the  *)
(* row and the rows around it are in view already.                         *)
THEOREM ShowsSelected ==
  ASSUME NEW scroll \in Nat, NEW index \in Nat, NEW count \in Nat, NEW size \in Nat \ {0},
         NEW scrolloff \in Nat, index < count
  PROVE  LET to == EnsureVisibleWith(scroll, index, count, size, scrolloff)
         IN /\ to \in Nat /\ to <= MaxScroll(count, size)
            /\ to <= index /\ index < to + size
<1> DEFINE off == Smaller(scrolloff, Less(size, 1) \div 2)
           from == Clamp(scroll, count, size)
           to == EnsureVisibleWith(scroll, index, count, size, scrolloff)
<1> SUFFICES /\ to \in Nat /\ to <= MaxScroll(count, size)
             /\ to <= index /\ index < to + size
  OBVIOUS
<1>1. off \in Nat /\ 2 * off <= size - 1
  BY Margin
<1>2. Larger(size, 1) = size /\ Less(count, 1) = count - 1
      /\ Smaller(index, count - 1) = index
  BY DEF Larger, Less, Smaller
<1>3. MaxScroll(count, size) \in Nat /\ MaxScroll(count, size) = Less(count, size)
  BY <1>2 DEF MaxScroll, Less
<1>4. from \in Nat /\ from <= MaxScroll(count, size)
  BY <1>3 DEF Clamp, Smaller
<1>5. to = LET next == IF index < from + off THEN Less(index, off)
                       ELSE IF index > from + Less(size, off + 1)
                            THEN Less(index + off + 1, size)
                       ELSE from
           IN Clamp(next, count, size)
  BY <1>2 DEF EnsureVisibleWith
<1> HIDE DEF off, from, to
<1>6. Less(size, off + 1) = size - (off + 1)
  BY <1>1 DEF Less
<1>7. CASE index < from + off
  BY <1>1, <1>3, <1>4, <1>5, <1>7 DEF Clamp, Smaller, Less
<1>8. CASE ~(index < from + off) /\ index > from + (size - (off + 1))
  BY <1>1, <1>3, <1>4, <1>5, <1>6, <1>8 DEF Clamp, Smaller, Less
<1>9. CASE ~(index < from + off) /\ ~(index > from + (size - (off + 1)))
  BY <1>1, <1>3, <1>4, <1>5, <1>6, <1>9 DEF Clamp, Smaller, Less
<1> QED
  BY <1>6, <1>7, <1>8, <1>9

(* A group of rows that fits is wholly in the pane after                   *)
(* ensure_range_visible; of one that does not, the first row is.  The pane *)
(* never begins beyond its last page, though this result is not clamped.   *)
THEOREM ShowsRange ==
  ASSUME NEW scroll \in Nat, NEW first \in Nat, NEW len \in Nat \ {0},
         NEW count \in Nat, NEW size \in Nat \ {0}, first + len <= count
  PROVE  LET to == EnsureRangeVisible(scroll, first, len, count, size)
         IN /\ to \in Nat /\ to <= MaxScroll(count, size)
            /\ to <= first /\ first < to + size
            /\ len < size => first + len <= to + size
<1> DEFINE from == Clamp(scroll, count, size)
           to == EnsureRangeVisible(scroll, first, len, count, size)
<1> SUFFICES /\ to \in Nat /\ to <= MaxScroll(count, size)
             /\ to <= first /\ first < to + size
             /\ len < size => first + len <= to + size
  OBVIOUS
<1>1. /\ Larger(size, 1) = size /\ Larger(len, 1) = len /\ Less(count, 1) = count - 1
      /\ Smaller(first, count - 1) = first
      /\ Smaller(first + len - 1, count - 1) = first + len - 1
  BY DEF Larger, Less, Smaller
<1>2. MaxScroll(count, size) \in Nat /\ MaxScroll(count, size) = Less(count, size)
  BY <1>1 DEF MaxScroll, Less
<1>3. from \in Nat /\ from <= MaxScroll(count, size)
  BY <1>2 DEF Clamp, Smaller
<1>4. to = IF len >= size THEN Clamp(first, count, size)
           ELSE IF first < from THEN first
           ELSE IF first + len - 1 >= from + size THEN Less(first + len, size)
           ELSE from
  BY <1>1 DEF EnsureRangeVisible
<1> HIDE DEF from, to
<1>5. CASE len >= size
  BY <1>2, <1>4, <1>5 DEF Clamp, Smaller, Less
<1>6. CASE len < size /\ first < from
  BY <1>2, <1>3, <1>4, <1>6 DEF Less
<1>7. CASE len < size /\ ~(first < from) /\ first + len - 1 >= from + size
  BY <1>2, <1>3, <1>4, <1>7 DEF Less
<1>8. CASE len < size /\ ~(first < from) /\ ~(first + len - 1 >= from + size)
  BY <1>2, <1>3, <1>4, <1>8 DEF Less
<1> QED
  BY <1>5, <1>6, <1>7, <1>8

(* The viewports whose pane does not begin beyond its last page.           *)
Sound(v) ==
  /\ v \in Viewport
  /\ v.scroll <= MaxScroll(v.len, v.page)

(* Every operation of a viewport keeps it in its rows.                     *)
THEOREM StaysSound ==
  ASSUME NEW v, Sound(v)
  PROVE  /\ \A page, len \in Nat : Sound(SetMetrics(v, page, len))
         /\ \A scroll \in Nat : Sound(SetScroll(v, scroll))
         /\ \A action \in ScrollActions : Sound(ApplyScroll(v, action))
         /\ \A len \in Nat : Sound(ToggleFollow(v, len))
         /\ Sound(ResetForSourceChange(v))
         /\ Sound(ResetToStart(v))
<1>1. /\ v \in Viewport /\ v.scroll \in Nat /\ v.page \in Nat \ {0} /\ v.len \in Nat \ {0}
      /\ v.follow \in BOOLEAN /\ v.scroll <= MaxScroll(v.len, v.page)
  BY DEF Sound, Viewport
<1>2. \A a, b \in Nat : Larger(a, b) \in Nat /\ Larger(a, 1) \in Nat \ {0}
                        /\ MaxScroll(a, b) \in Nat
  BY DEF Larger, MaxScroll, Less
<1>3. \A scroll, a, b \in Nat : Clamp(scroll, a, b) \in Nat
                                /\ Clamp(scroll, a, b) <= MaxScroll(a, b)
  BY <1>2 DEF Clamp, Smaller
<1>4. ASSUME NEW w \in Viewport
      PROVE  /\ Sound(ToBottom(w))
             /\ \A scroll \in Nat : Sound(SetScroll(w, scroll))
  <2>1. w.scroll \in Nat /\ w.page \in Nat /\ w.len \in Nat
    BY DEF Viewport
  <2>2. ASSUME NEW n \in Nat, n <= MaxScroll(w.len, w.page)
        PROVE  Sound([w EXCEPT !.scroll = n])
    BY <2>2 DEF Sound, Viewport
  <2>3. Sound(ToBottom(w))
    BY <1>2, <2>1, <2>2 DEF ToBottom
  <2>4. ASSUME NEW scroll \in Nat
        PROVE  Sound(SetScroll(w, scroll))
    BY <1>3, <2>1, <2>2 DEF SetScroll
  <2> QED
    BY <2>3, <2>4
<1>5. ASSUME NEW page \in Nat, NEW len \in Nat
      PROVE  Sound(SetMetrics(v, page, len))
  <2> DEFINE sized == [v EXCEPT !.page = Larger(page, 1), !.len = Larger(len, 1)]
  <2>1. sized \in Viewport
    BY <1>1, <1>2 DEF Viewport
  <2>2. SetMetrics(v, page, len) = IF v.follow THEN ToBottom(sized) ELSE SetScroll(sized, v.scroll)
    BY DEF SetMetrics
  <2> HIDE DEF sized
  <2> QED
    BY <1>1, <1>4, <2>1, <2>2
<1>6. \A scroll \in Nat : Sound(SetScroll(v, scroll))
  BY <1>1, <1>4
<1>7. ASSUME NEW action \in ScrollActions
      PROVE  Sound(ApplyScroll(v, action))
  <2> DEFINE amount == IF action \in {"PageUp", "PageDown"} THEN v.page ELSE 1
  <2>1. amount \in Nat \ {0} /\ Larger(amount, 1) = amount
    BY <1>1 DEF Larger
  <2> HIDE DEF amount
  <2>m. MaxScroll(v.len, v.page) \in Nat /\ v.scroll + amount \in Nat
    <3>1. v.len \in Nat /\ v.page \in Nat
      BY <1>1
    <3>2. MaxScroll(v.len, v.page) \in Nat
      BY <1>2, <3>1
    <3>3. v.scroll + amount \in Nat
      BY <1>1, <2>1
    <3> QED
      BY <3>2, <3>3
  <2>2. Up(v.scroll, amount) \in Nat /\ Up(v.scroll, amount) <= v.scroll
    BY <1>1, <2>1 DEF Up, Less
  <2>3. Down(v.scroll, amount, v.len, v.page) \in Nat
        /\ Down(v.scroll, amount, v.len, v.page) <= MaxScroll(v.len, v.page)
    BY <1>1, <1>3, <2>1, <2>m DEF Down
  <2>4. \A n \in Nat : n <= MaxScroll(v.len, v.page) => Sound(Unfollow([v EXCEPT !.scroll = n]))
    BY <1>1 DEF Sound, Unfollow, Viewport
  <2>5. CASE action \in {"LineUp", "PageUp"}
    <3>1. ApplyScroll(v, action) = Unfollow([v EXCEPT !.scroll = Up(v.scroll, amount)])
      BY <2>5 DEF ApplyScroll, amount
    <3> QED
      BY <1>1, <2>m, <2>2, <2>4, <3>1
  <2>6. CASE action \in {"LineDown", "PageDown"}
    <3>1. ApplyScroll(v, action)
            = Unfollow([v EXCEPT !.scroll = Down(v.scroll, amount, v.len, v.page)])
      BY <2>6 DEF ApplyScroll, amount
    <3> QED
      BY <2>3, <2>4, <3>1
  <2>7. CASE action = "Top"
    <3>1. ApplyScroll(v, action) = Unfollow([v EXCEPT !.scroll = 0])
      BY <2>7 DEF ApplyScroll
    <3> QED
      BY <1>1, <1>2, <2>4, <3>1
  <2>8. CASE action = "Bottom"
    <3>1. ApplyScroll(v, action) = ToBottom([v EXCEPT !.follow = TRUE])
      BY <2>8 DEF ApplyScroll
    <3>2. [v EXCEPT !.follow = TRUE] \in Viewport
      BY <1>1 DEF Viewport
    <3> QED
      BY <1>4, <3>1, <3>2
  <2> QED
    BY <2>5, <2>6, <2>7, <2>8 DEF ScrollActions
<1>8. ASSUME NEW len \in Nat
      PROVE  Sound(ToggleFollow(v, len))
  <2>1. Sound(Unfollow(v))
    BY <1>1 DEF Sound, Unfollow, Viewport
  <2>2. [v EXCEPT !.follow = TRUE, !.len = Larger(len, 1)] \in Viewport
    BY <1>1, <1>2 DEF Viewport
  <2> QED
    BY <1>4, <2>1, <2>2 DEF ToggleFollow, SnapToBottom
<1>9. Sound(ResetForSourceChange(v))
  <2> DEFINE r == ResetForSourceChange(v)
  <2> SUFFICES Sound(r)
    OBVIOUS
  <2>1. v.len \in Nat /\ v.page \in Nat
    BY <1>1
  <2>2. MaxScroll(v.len, v.page) \in Nat
    BY <1>2, <2>1
  <2>3. r \in Viewport /\ r.scroll = 0 /\ r.len = v.len /\ r.page = v.page
    BY <1>1 DEF ResetForSourceChange, Viewport
  <2> HIDE DEF r
  <2>4. 0 <= MaxScroll(v.len, v.page)
    BY <2>2
  <2>5. r.scroll <= MaxScroll(r.len, r.page)
    BY <2>3, <2>4
  <2> QED
    BY <2>3, <2>5 DEF Sound
<1>10. Sound(ResetToStart(v))
  <2> DEFINE r == ResetToStart(v)
  <2> SUFFICES Sound(r)
    OBVIOUS
  <2>1. v.len \in Nat /\ v.page \in Nat
    BY <1>1
  <2>2. MaxScroll(v.len, v.page) \in Nat
    BY <1>2, <2>1
  <2>3. r \in Viewport /\ r.scroll = 0 /\ r.len = v.len /\ r.page = v.page
    BY <1>1 DEF ResetToStart, Viewport
  <2> HIDE DEF r
  <2>4. 0 <= MaxScroll(v.len, v.page)
    BY <2>2
  <2>5. r.scroll <= MaxScroll(r.len, r.page)
    BY <2>3, <2>4
  <2> QED
    BY <2>3, <2>5 DEF Sound
<1> QED
  BY <1>5, <1>6, <1>7, <1>8, <1>9, <1>10

-----------------------------------------------------------------------------
(* How FlattenSeq lays out its sequences: e[i] is where the i-th ends.     *)
Ends(ss, e) ==
  /\ e \in [0..Len(ss) -> Nat] /\ e[0] = 0
  /\ \A i \in 1..Len(ss) : e[i] = e[i - 1] + Len(ss[i])

FlatAt(ss, flat, e) ==
  /\ Ends(ss, e)
  /\ Len(flat) = e[Len(ss)]
  /\ \A i \in 1..Len(ss) : \A j \in 1..Len(ss[i]) : flat[e[i - 1] + j] = ss[i][j]

LEMMA EndsGrow ==
  ASSUME NEW S, NEW ss \in Seq(Seq(S)), NEW e, Ends(ss, e)
  PROVE  \A i, k \in 0..Len(ss) : i <= k => e[i] <= e[k]
<1> DEFINE n == Len(ss)
<1>n. n \in Nat /\ \A i \in 1..n : Len(ss[i]) \in Nat
  OBVIOUS
<1>e. /\ \A i \in 0..n : e[i] \in Nat
      /\ \A i \in 1..n : e[i] = e[i - 1] + Len(ss[i])
  BY DEF Ends
<1> HIDE DEF n
<1> SUFFICES ASSUME NEW i \in 0..n
             PROVE  \A k \in 0..n : i <= k => e[i] <= e[k]
  BY DEF n
<1> DEFINE bad == {k \in 0..n : i <= k /\ ~(e[i] <= e[k])}
<1> SUFFICES ASSUME bad # {}
             PROVE  FALSE
  OBVIOUS
<1>1. PICK k \in bad : \A l \in bad : k <= l
  <2>1. bad \subseteq Nat
    BY <1>n
  <2> HIDE DEF bad
  <2> QED
    BY <2>1, Least
<1>2. k # i /\ k \in 1..n /\ k - 1 \in 0..n /\ i <= k - 1
  BY <1>1, <1>n, <1>e
<1>3. k - 1 \notin bad
  <2>1. ~(k <= k - 1)
    BY <1>2, <1>n
  <2> HIDE DEF bad
  <2> QED
    BY <2>1, <1>1
<1>4. e[i] <= e[k - 1]
  BY <1>2, <1>3
<1>5. e[k] = e[k - 1] + Len(ss[k]) /\ Len(ss[k]) \in Nat /\ e[k] \in Nat /\ e[k - 1] \in Nat /\ e[i] \in Nat
  BY <1>2, <1>e, <1>n
<1>6. e[i] <= e[k]
  BY <1>4, <1>5
<1> QED
  BY <1>1, <1>6

LEMMA Flat ==
  ASSUME NEW S, NEW ss \in Seq(Seq(S))
  PROVE  /\ FlattenSeq(ss) \in Seq(S)
         /\ \E e : FlatAt(ss, FlattenSeq(ss), e)
<1> DEFINE n == Len(ss)
<1>n. n \in Nat /\ \A i \in 1..n : ss[i] \in Seq(S) /\ Len(ss[i]) \in Nat
  OBVIOUS
<1>1. CASE ss = <<>>
  <2> DEFINE e == [i \in 0..0 |-> 0]
  <2>1. FlattenSeq(ss) = ss /\ n = 0
    BY <1>1 DEF FlattenSeq
  <2>2. e \in [0..0 -> Nat] /\ e[0] = 0
    OBVIOUS
  <2> HIDE DEF e
  <2>3. FlatAt(ss, FlattenSeq(ss), e)
    BY <2>1, <2>2 DEF FlatAt, Ends
  <2>4. <<>> \in Seq(S)
    OBVIOUS
  <2> QED
    BY <1>1, <2>1, <2>3, <2>4
<1>2. CASE ss # <<>>
  <2>1. PICK f \in [1..n -> Seq(S)] :
           /\ FlattenSeq(ss) = f[n]
           /\ \A i \in 1..n : f[i] = IF i = 1 THEN ss[i] ELSE f[i - 1] \o ss[i]
    BY <1>2, FlattenedBy
  <2>n. n # 0
    BY <1>2
  <2> DEFINE e == [i \in 0..n |-> IF i = 0 THEN 0 ELSE Len(f[i])]
  <2>2. e[0] = 0 /\ \A i \in 1..n : e[i] = Len(f[i])
    BY <1>n
  <2>f. \A i \in 1..n : f[i] \in Seq(S) /\ Len(f[i]) \in Nat
    BY <2>1
  <2>3. \A i \in 0..n : e[i] \in Nat
    BY <2>f
  <2>4. e \in [0..n -> Nat]
    BY <2>3
  <2> HIDE DEF e, n
  <2>5. ASSUME NEW i \in 1..n
        PROVE  /\ e[i] = e[i - 1] + Len(ss[i])
               /\ \A j \in 1..Len(ss[i]) : f[i][e[i - 1] + j] = ss[i][j]
               /\ i # 1 => \A x \in 1..e[i - 1] : f[i][x] = f[i - 1][x]
    <3>1. CASE i = 1
      <4>0. i - 1 = 0
        BY <3>1
      <4>1. f[i] = ss[i] /\ e[i - 1] = 0 /\ e[i] = Len(ss[i])
        BY <2>1, <2>2, <3>1, <4>0
      <4>2. \A j \in 1..Len(ss[i]) : 0 + j = j
        BY <1>n
      <4> QED
        BY <1>n, <3>1, <4>1, <4>2
    <3>2. CASE i # 1
      <4>1. i - 1 \in 1..n
        BY <1>n, <3>2
      <4>2. f[i] = f[i - 1] \o ss[i] /\ e[i - 1] = Len(f[i - 1]) /\ e[i] = Len(f[i])
        BY <2>1, <2>2, <3>2, <4>1
      <4>3. f[i - 1] \in Seq(S) /\ ss[i] \in Seq(S)
        BY <1>n, <2>f, <4>1
      <4>4. \A s, t \in Seq(S) :
              /\ Len(s \o t) = Len(s) + Len(t)
              /\ \A j \in 1..Len(t) : (s \o t)[Len(s) + j] = t[j]
              /\ \A x \in 1..Len(s) : (s \o t)[x] = s[x]
        OBVIOUS
      <4> DEFINE s == f[i - 1]
                 t == ss[i]
      <4>5. s \in Seq(S) /\ t \in Seq(S) /\ f[i] = s \o t /\ e[i - 1] = Len(s) /\ e[i] = Len(s \o t)
        BY <4>2, <4>3
      <4> HIDE DEF s, t
      <4>6. /\ e[i] = e[i - 1] + Len(t)
            /\ \A j \in 1..Len(t) : f[i][e[i - 1] + j] = t[j]
            /\ \A x \in 1..e[i - 1] : f[i][x] = s[x]
        BY <4>4, <4>5
      <4> QED
        BY <4>6 DEF s, t
    <3> QED
      BY <3>1, <3>2
  <2>6. Ends(ss, e)
    BY <2>2, <2>4, <2>5 DEF Ends, n
  <2>7. \A i \in 1..n : \A j \in 1..Len(ss[i]) : f[n][e[i - 1] + j] = ss[i][j]
    <3> SUFFICES ASSUME NEW i \in 1..n, NEW j \in 1..Len(ss[i])
                 PROVE  f[n][e[i - 1] + j] = ss[i][j]
      OBVIOUS
    <3> DEFINE x == e[i - 1] + j
               bad == {k \in i..n : f[k][x] # ss[i][j]}
    <3>0. \A k, l \in 0..n : k <= l => e[k] <= e[l]
      BY <2>6, EndsGrow DEF n
    <3>1. x \in 1..e[i]
      <4>1. i - 1 \in 0..n /\ i \in 0..n /\ j \in 1..Len(ss[i]) /\ Len(ss[i]) \in Nat
        BY <1>n
      <4>2. e[i - 1] \in Nat /\ e[i] = e[i - 1] + Len(ss[i])
        BY <4>1, <2>3, <2>5
      <4> QED
        BY <4>1, <4>2
    <3>2. f[i][x] = ss[i][j]
      BY <2>5
    <3> HIDE DEF x
    <3>3. SUFFICES ASSUME bad # {}
                   PROVE  FALSE
      <4>1. n \in i..n
        BY <1>n
      <4> QED
        BY <4>1 DEF x
    <3>4. PICK k \in bad : \A l \in bad : k <= l
      <4>1. bad \subseteq Nat
        BY <1>n
      <4> HIDE DEF bad
      <4> QED
        BY <4>1, <3>3, Least
    <3>5. k # i
      BY <3>2, <3>4
    <3>6. k \in 1..n /\ k # 1 /\ k - 1 \in i..n /\ k - 1 \in 0..n /\ i <= k - 1 /\ ~(k <= k - 1) /\ i \in 0..n
      BY <1>n, <3>4, <3>5
    <3>7. k - 1 \notin bad
      <4> HIDE DEF bad
      <4> QED
        BY <3>4, <3>6
    <3>8. f[k - 1][x] = ss[i][j]
      BY <3>6, <3>7
    <3>9. e[i] <= e[k - 1] /\ e[k - 1] \in Nat /\ e[i] \in Nat
      BY <2>3, <3>0, <3>6
    <3>10. x \in 1..e[k - 1]
      BY <3>1, <3>9
    <3>11. f[k][x] = f[k - 1][x]
      BY <2>5, <3>6, <3>10
    <3> QED
      BY <3>4, <3>8, <3>11
  <2>8. f[n] \in Seq(S) /\ Len(f[n]) = e[n]
    <3>1. n \in 1..n
      BY <1>n, <2>n
    <3> QED
      BY <3>1, <2>1, <2>2
  <2>9. FlatAt(ss, FlattenSeq(ss), e)
    BY <2>1, <2>6, <2>7, <2>8 DEF FlatAt, n
  <2> QED
    BY <2>1, <2>8, <2>9
<1> QED
  BY <1>1, <1>2

(* Every element is one of the sequences'.                                 *)
EndsReach(ss, e) ==
  \A x \in 1..e[Len(ss)] : \E i \in 1..Len(ss) : \E j \in 1..Len(ss[i]) : x = e[i - 1] + j

LEMMA FlatFrom ==
  ASSUME NEW S, NEW ss \in Seq(Seq(S)), NEW e, Ends(ss, e)
  PROVE  EndsReach(ss, e)
<1> SUFFICES ASSUME NEW x \in 1..e[Len(ss)]
             PROVE  \E i \in 1..Len(ss) : \E j \in 1..Len(ss[i]) : x = e[i - 1] + j
  BY DEF EndsReach
<1> DEFINE n == Len(ss)
           past == {i \in 0..n : x <= e[i]}
<1>n. n \in Nat /\ \A i \in 1..n : Len(ss[i]) \in Nat
  OBVIOUS
<1>e. /\ \A i \in 0..n : e[i] \in Nat
      /\ \A i \in 1..n : e[i] = e[i - 1] + Len(ss[i])
      /\ e[0] = 0
  BY DEF Ends
<1> HIDE DEF n
<1>x. x \in 1..e[n] /\ x \in Nat /\ e[n] \in Nat
  <2>1. n \in 0..n
    BY <1>n
  <2> QED
    BY <2>1, <1>e DEF n
<1>1. PICK i \in past : \A k \in past : i <= k
  <2>1. past \subseteq Nat
    BY <1>n
  <2>2. n \in past
    BY <1>n, <1>x
  <2> HIDE DEF past
  <2> QED
    BY <2>1, <2>2, Least
<1>2. i # 0
  BY <1>1, <1>e, <1>x
<1>3. i \in 1..n /\ i - 1 \in 0..n /\ ~(i <= i - 1)
  BY <1>1, <1>2, <1>n
<1>4. i - 1 \notin past
  <2> HIDE DEF past
  <2> QED
    BY <1>1, <1>3
<1>5. ~(x <= e[i - 1]) /\ x <= e[i]
  BY <1>1, <1>3, <1>4
<1>6. e[i] = e[i - 1] + Len(ss[i]) /\ e[i - 1] \in Nat /\ Len(ss[i]) \in Nat
  BY <1>3, <1>e, <1>n
<1>7. x - e[i - 1] \in 1..Len(ss[i]) /\ x = e[i - 1] + (x - e[i - 1])
  BY <1>5, <1>6, <1>x
<1> QED
  BY <1>3, <1>7 DEF n

-----------------------------------------------------------------------------
(* Least and greatest.                                                     *)
LEMMA MinIsLeast ==
  ASSUME NEW T, T \subseteq Nat, T # {}
  PROVE  Min(T) \in T /\ \A t \in T : Min(T) <= t
<1>1. \E n \in T : \A m \in T : n <= m
  BY Least
<1> QED
  BY <1>1 DEF Min

LEMMA MaxIsGreatest ==
  ASSUME NEW n \in Nat, NEW T, T \subseteq 0..n, T # {}
  PROVE  Max(T) \in T /\ \A t \in T : t <= Max(T)
<1> DEFINE below == {n - t : t \in T}
<1>0. \A t \in T : t \in 0..n /\ n - t \in Nat
  OBVIOUS
<1>1. below \subseteq Nat /\ below # {}
  BY <1>0
<1>2. PICK b \in below : \A c \in below : b <= c
  <2> HIDE DEF below
  <2> QED
    BY <1>1, Least
<1>3. PICK m \in T : b = n - m
  BY <1>2
<1>4. ASSUME NEW t \in T
      PROVE  m >= t
  <2>1. b <= n - t
    BY <1>2
  <2>2. m \in 0..n /\ t \in 0..n
    OBVIOUS
  <2> QED
    BY <1>3, <2>1, <2>2
<1>5. Max(T) \in T /\ \A t \in T : Max(T) >= t
  BY <1>4 DEF Max
<1>6. \A t \in T : t \in Nat
  OBVIOUS
<1> QED
  BY <1>5, <1>6

-----------------------------------------------------------------------------
(* How a line is wrapped.                                                  *)
IsLine(line) == line.len \in Nat /\ line.spaces \subseteq 0..line.len - 1

LEMMA RowEnds ==
  ASSUME NEW line, IsLine(line), NEW width \in Nat \ {0}, NEW start \in 0..line.len - 1
  PROVE  RowEnd(line, start, width) \in start + 1..line.len
<1> DEFINE full == start + width
           breaks == {cell + 1 : cell \in line.spaces \cap start..full - 1}
<1>l. line.len \in Nat /\ start \in Nat /\ start < line.len
  BY DEF IsLine
<1>f. full \in Nat /\ full > start
  BY <1>l
<1>1. CASE line.len <= full
  <2>1. RowEnd(line, start, width) = line.len
    BY <1>1, <1>f, <1>l DEF RowEnd
  <2> QED
    BY <2>1, <1>l
<1>2. CASE ~(line.len <= full)
  <2>1. full \in start + 1..line.len
    BY <1>2, <1>f, <1>l
  <2>2. RowEnd(line, start, width)
          = IF full \in line.spaces THEN full ELSE IF breaks = {} THEN full ELSE Max(breaks)
    <3>0. ~(line.len <= full) /\ line.len > full
      BY <1>2, <1>f, <1>l
    <3> QED
      BY <3>0 DEF RowEnd
  <2>3. breaks \subseteq start + 1..full
    BY <1>f, <1>l
  <2>4. breaks # {} => Max(breaks) \in breaks
    <3>1. breaks \subseteq 0..full
      BY <2>3, <1>f, <1>l
    <3> HIDE DEF breaks, full
    <3> QED
      BY <3>1, <1>f, MaxIsGreatest
  <2> HIDE DEF breaks
  <2>5. \A x \in start + 1..full : x \in start + 1..line.len
    BY <2>1, <1>f, <1>l
  <2> HIDE DEF full
  <2> QED
    BY <2>1, <2>2, <2>3, <2>4, <2>5
<1> QED
  BY <1>1, <1>2

Cells == [start : Nat, end : Nat]

WrapPiece(line, width, f, s) ==
  IF s = line.len THEN <<>>
  ELSE <<[start |-> s, end |-> RowEnd(line, s, width)]>> \o f[RowEnd(line, s, width)]

WrapStage(line, width, f) == [s \in 0..line.len |-> WrapPiece(line, width, f, s)]

WrapFrom(line, width) == CHOOSE f : f = WrapStage(line, width, f)

LEMMA WrapLineIs ==
  ASSUME NEW line, NEW width
  PROVE  WrapLine(line, width) = IF line.len = 0 THEN <<[start |-> 0, end |-> 0]>>
                                 ELSE WrapFrom(line, width)[0]
BY DEF WrapLine, WrapFrom, WrapStage, WrapPiece

LEMMA WrapExists ==
  ASSUME NEW line, IsLine(line), NEW width \in Nat \ {0}
  PROVE  \A s \in 0..line.len :
           WrapFrom(line, width)[s] = WrapPiece(line, width, WrapFrom(line, width), s)
<1> DEFINE n == line.len
           G(g, s) == WrapPiece(line, width, g, s)
           Next1(s) == RowEnd(line, s, width)
           Downto(m) == \E g : g = [s \in 0..n |-> g[s]] /\ \A s \in n - m..n : g[s] = G(g, s)
           missing == {m \in 0..n : ~Downto(m)}
<1>n. n \in Nat
  BY DEF IsLine
<1>0. \A g, h, s : s # n /\ g[Next1(s)] = h[Next1(s)] => G(g, s) = G(h, s)
  BY DEF WrapPiece
<1>z. \A g, h : G(g, n) = G(h, n)
  BY DEF WrapPiece
<1>r. \A s \in 0..n - 1 : Next1(s) \in s + 1..n
  BY RowEnds
<1>s. WrapFrom(line, width) = CHOOSE f : f = [s \in 0..n |-> G(f, s)]
  BY DEF WrapFrom, WrapStage
<1> HIDE DEF G, n, Next1
<1>1. missing = {}
  <2> SUFFICES ASSUME missing # {}
               PROVE  FALSE
    OBVIOUS
  <2>1. PICK m \in missing : \A k \in missing : m <= k
    <3>1. missing \subseteq Nat
      BY <1>n
    <3> HIDE DEF missing
    <3> QED
      BY <3>1, Least
  <2>2. m \in 0..n /\ ~Downto(m) /\ m \in Nat
    BY <1>n
  <2>3. m # 0
    <3> DEFINE h == [s \in 0..n |-> G(<<>>, s)]
    <3>1. h = [s \in 0..n |-> h[s]] /\ h[n] = G(<<>>, n)
      BY <1>n
    <3> HIDE DEF h
    <3>2. \A s \in n - 0..n : h[s] = G(h, s)
      <4>1. n - 0 = n
        BY <1>n
      <4>2. \A s \in n..n : s = n
        BY <1>n
      <4> QED
        BY <1>z, <3>1, <4>1, <4>2
    <3>3. Downto(0)
      BY <3>1, <3>2
    <3> HIDE DEF Downto
    <3> QED
      BY <2>2, <3>3
  <2>4. m - 1 \in 0..n /\ ~(m <= m - 1)
    BY <1>n, <2>2, <2>3
  <2>5. Downto(m - 1)
    <3> HIDE DEF Downto
    <3> QED
      BY <2>1, <2>4
  <2>6. PICK g : g = [s \in 0..n |-> g[s]] /\ \A s \in n - (m - 1)..n : g[s] = G(g, s)
    BY <2>5
  <2> DEFINE at == n - m
  <2>a. at \in 0..n /\ at \in Nat /\ at # n /\ at \in 0..n - 1
    BY <1>n, <2>2, <2>3
  <2>b. \A s \in n - m..n : s = at \/ (s \in n - (m - 1)..n /\ s # at /\ s \in 0..n)
    BY <1>n, <2>2
  <2>c. \A s \in n - (m - 1)..n - 1 : Next1(s) \in 0..n /\ Next1(s) # at
    <3> SUFFICES ASSUME NEW s \in n - (m - 1)..n - 1
                 PROVE  Next1(s) \in 0..n /\ Next1(s) # at
      OBVIOUS
    <3>1. s \in 0..n - 1 /\ s > n - m
      BY <1>n, <2>2, <2>3
    <3>2. Next1(s) \in s + 1..n
      BY <1>r, <3>1
    <3> QED
      BY <1>n, <2>2, <3>1, <3>2
  <2>d. Next1(at) \in 0..n /\ Next1(at) # at
    <3>1. Next1(at) \in at + 1..n
      BY <1>r, <2>a
    <3> HIDE DEF at
    <3> QED
      BY <1>n, <2>a, <3>1
  <2> HIDE DEF at
  <2> DEFINE h == [s \in 0..n |-> IF s = at THEN G(g, at) ELSE g[s]]
  <2>7. h = [s \in 0..n |-> h[s]]
    OBVIOUS
  <2>8. \A s \in n - m..n : h[s] = G(h, s)
    <3> SUFFICES ASSUME NEW s \in n - m..n
                 PROVE  h[s] = G(h, s)
      OBVIOUS
    <3>1. h[s] = G(g, s)
      <4>1. CASE s = at
        BY <2>a, <4>1
      <4>2. CASE s # at
        BY <2>6, <2>b, <4>2
      <4> QED
        BY <4>1, <4>2
    <3>2. s # n => h[Next1(s)] = g[Next1(s)]
      <4> SUFFICES ASSUME s # n
                   PROVE  h[Next1(s)] = g[Next1(s)]
        OBVIOUS
      <4>1. s # at => s \in n - (m - 1)..n - 1
        BY <1>n, <2>2, <2>b
      <4>2. Next1(s) \in 0..n /\ Next1(s) # at
        BY <2>c, <2>d, <4>1
      <4> QED
        BY <4>2
    <3> HIDE DEF h
    <3>3. G(h, s) = G(g, s)
      BY <1>0, <1>z, <3>2
    <3> QED
      BY <3>1, <3>3
  <2> HIDE DEF h
  <2>9. Downto(m)
    BY <2>7, <2>8
  <2> HIDE DEF Downto
  <2> QED
    BY <2>2, <2>9
<1>2. Downto(n)
  <2>1. n \in 0..n
    BY <1>n
  <2> HIDE DEF Downto
  <2> QED
    BY <1>1, <2>1
<1>3. PICK g : g = [s \in 0..n |-> g[s]] /\ \A s \in n - n..n : g[s] = G(g, s)
  BY <1>2
<1>4. \A s \in 0..n : s \in n - n..n
  BY <1>n
<1>5. g = [s \in 0..n |-> G(g, s)]
  BY <1>3, <1>4
<1>6. WrapFrom(line, width) = [s \in 0..n |-> G(WrapFrom(line, width), s)]
  BY <1>5, <1>s
<1> QED
  <2> DEFINE w == WrapFrom(line, width)
  <2>1. w = [s \in 0..n |-> G(w, s)]
    BY <1>6
  <2> HIDE DEF w
  <2>2. \A s \in 0..n : w[s] = G(w, s)
    BY <2>1
  <2> QED
    BY <2>2 DEF w, G, n

(* Cells c that cover a line from cell s on, one after the other.          *)
Covers(line, c, s) ==
  /\ c \in Seq(Cells)
  /\ c # <<>>
  /\ \A r \in DOMAIN c : s <= c[r].start /\ c[r].start < c[r].end /\ c[r].end <= line.len
  /\ \A r, q \in DOMAIN c : r < q => c[r].end <= c[q].start
  /\ \A x \in s..line.len - 1 : \E r \in DOMAIN c : c[r].start <= x /\ x < c[r].end

LEMMA CoversMore ==
  ASSUME NEW line, IsLine(line), NEW s \in Nat, NEW e \in Nat, s < e, e <= line.len,
         NEW c, Covers(line, c, e) \/ (e = line.len /\ c = <<>>)
  PROVE  Covers(line, <<[start |-> s, end |-> e]>> \o c, s)
<1> DEFINE one == [start |-> s, end |-> e]
           d == <<one>> \o c
<1>l. line.len \in Nat
  BY DEF IsLine
<1>1. one \in Cells /\ one.start = s /\ one.end = e
  BY DEF Cells
<1>2. c \in Seq(Cells) /\ \A r \in DOMAIN c : c[r].start \in Nat /\ c[r].end \in Nat
  <2>1. c \in Seq(Cells)
    <3>1. <<>> \in Seq(Cells)
      OBVIOUS
    <3> QED
      BY <3>1 DEF Covers
  <2>2. \A r \in DOMAIN c : c[r] \in Cells
    BY <2>1
  <2> QED
    BY <2>1, <2>2 DEF Cells
<1>3. /\ \A r \in DOMAIN c : e <= c[r].start /\ c[r].start < c[r].end /\ c[r].end <= line.len
      /\ \A r, q \in DOMAIN c : r < q => c[r].end <= c[q].start
      /\ \A x \in e..line.len - 1 : \E r \in DOMAIN c : c[r].start <= x /\ x < c[r].end
  <2>1. CASE Covers(line, c, e)
    BY <2>1 DEF Covers
  <2>2. CASE e = line.len /\ c = <<>>
    <3>1. DOMAIN c = {} /\ e..line.len - 1 = {}
      BY <2>2, <1>l
    <3> QED
      BY <3>1
  <2> QED
    BY <2>1, <2>2
<1> HIDE DEF one
<1>4. d \in Seq(Cells) /\ Len(d) = Len(c) + 1 /\ d # <<>> /\ Len(c) \in Nat
      /\ DOMAIN d = 1..Len(c) + 1 /\ DOMAIN c = 1..Len(c)
  BY <1>1, <1>2
<1>5. d[1] = one
  BY <1>1, <1>2
<1>6. \A r \in DOMAIN d : r # 1 => r - 1 \in DOMAIN c /\ d[r] = c[r - 1]
  BY <1>1, <1>2
<1>7. \A r \in DOMAIN c : r + 1 \in DOMAIN d /\ d[r + 1] = c[r]
  BY <1>1, <1>2
<1> HIDE DEF d
<1>8. ASSUME NEW r \in DOMAIN d
      PROVE  s <= d[r].start /\ d[r].start < d[r].end /\ d[r].end <= line.len
  <2>1. CASE r = 1
    BY <1>1, <1>5, <2>1
  <2>2. CASE r # 1
    BY <1>2, <1>3, <1>6, <2>2, <1>l
  <2> QED
    BY <2>1, <2>2
<1>9. ASSUME NEW r \in DOMAIN d, NEW q \in DOMAIN d, r < q
      PROVE  d[r].end <= d[q].start
  <2>1. q # 1 /\ q - 1 \in DOMAIN c /\ d[q] = c[q - 1]
    BY <1>4, <1>6, <1>9
  <2>2. CASE r = 1
    BY <1>1, <1>3, <1>5, <2>1, <2>2
  <2>3. CASE r # 1
    <3>1. r - 1 \in DOMAIN c /\ d[r] = c[r - 1] /\ r - 1 < q - 1
      BY <1>4, <1>6, <1>9, <2>3
    <3> QED
      BY <1>3, <2>1, <3>1
  <2> QED
    BY <2>2, <2>3
<1>10. ASSUME NEW x \in s..line.len - 1
       PROVE  \E r \in DOMAIN d : d[r].start <= x /\ x < d[r].end
  <2>1. CASE x < e
    <3>1. 1 \in DOMAIN d
      BY <1>4
    <3>2. d[1].start <= x /\ x < d[1].end
      BY <1>1, <1>5, <2>1
    <3> QED
      BY <3>1, <3>2
  <2>2. CASE ~(x < e)
    <3>1. x \in e..line.len - 1
      BY <2>2, <1>l
    <3> QED
      BY <1>3, <1>7, <3>1
  <2> QED
    BY <2>1, <2>2
<1>11. Covers(line, d, s)
  BY <1>4, <1>8, <1>9, <1>10 DEF Covers
<1> QED
  BY <1>11 DEF d, one

LEMMA WrapCovers ==
  ASSUME NEW line, IsLine(line), NEW width \in Nat \ {0}, line.len # 0
  PROVE  Covers(line, WrapLine(line, width), 0)
<1> DEFINE n == line.len
           w == WrapFrom(line, width)
           bad == {m \in 0..n : ~(Covers(line, w[n - m], n - m) \/ (m = 0 /\ w[n - m] = <<>>))}
<1>n. n \in Nat /\ n # 0
  BY DEF IsLine
<1>0. \A s \in 0..n : w[s] = IF s = n THEN <<>>
                             ELSE <<[start |-> s, end |-> RowEnd(line, s, width)]>>
                                    \o w[RowEnd(line, s, width)]
  BY WrapExists DEF WrapPiece
<1> HIDE DEF n, w
<1>1. bad = {}
  <2> SUFFICES ASSUME bad # {}
               PROVE  FALSE
    OBVIOUS
  <2>1. PICK m \in bad : \A k \in bad : m <= k
    <3>1. bad \subseteq Nat
      BY <1>n
    <3> HIDE DEF bad
    <3> QED
      BY <3>1, Least
  <2> DEFINE s == n - m
             e == RowEnd(line, s, width)
  <2>2. m # 0
    <3>0. n - 0 = n /\ n \in 0..n
      BY <1>n
    <3>1. w[n - 0] = <<>>
      BY <1>0, <3>0
    <3> QED
      BY <2>1, <3>1
  <2>3. s \in 0..n /\ s # n /\ s \in 0..n - 1 /\ m \in 0..n /\ s \in Nat
    BY <1>n, <2>1, <2>2
  <2>4. e \in s + 1..n
    BY <2>3, RowEnds DEF n
  <2>5. w[s] = <<[start |-> s, end |-> e]>> \o w[e]
    BY <1>0, <2>3
  <2> HIDE DEF e
  <2>6. n - e \in 0..n /\ n - (n - e) = e /\ ~(m <= n - e) /\ e \in Nat /\ e <= n /\ s < e
    BY <1>n, <2>3, <2>4
  <2>7. n - e \notin bad
    <3> HIDE DEF bad
    <3> QED
      BY <2>1, <2>6
  <2>8. Covers(line, w[e], e) \/ (n - e = 0 /\ w[e] = <<>>)
    BY <2>6, <2>7
  <2>9. n - e = 0 => e = n
    BY <1>n, <2>6
  <2> HIDE DEF s
  <2>10. Covers(line, w[s], s)
    BY <2>3, <2>5, <2>6, <2>8, <2>9, CoversMore DEF n
  <2> QED
    BY <2>1, <2>10 DEF s
<1>2. Covers(line, w[0], 0)
  <2>1. n \in 0..n /\ n - n = 0
    BY <1>n
  <2> QED
    BY <1>1, <1>n, <2>1
<1> QED
  BY <1>2, WrapLineIs DEF w

(* The rows of a line: one after the other, without gap, and none empty    *)
(* unless the line is.                                                     *)
Wraps(line, c) ==
  /\ c \in Seq(Cells)
  /\ c # <<>>
  /\ \A r \in DOMAIN c : /\ c[r].end <= line.len
                         /\ \/ c[r].start < c[r].end
                            \/ c[r].start = 0 /\ c[r].end = 0
  /\ \A r, q \in DOMAIN c : r < q => /\ c[r].end <= c[q].start
                                     /\ c[r].start < c[r].end /\ c[q].start < c[q].end
  /\ \A x \in 0..line.len - 1 : \E r \in DOMAIN c : c[r].start <= x /\ x < c[r].end

LEMMA LineWraps ==
  ASSUME NEW line, IsLine(line), NEW width \in Nat \ {0}
  PROVE  Wraps(line, WrapLine(line, width))
<1>1. CASE line.len = 0
  <2> DEFINE one == [start |-> 0, end |-> 0]
  <2>1. WrapLine(line, width) = <<one>>
    BY <1>1, WrapLineIs
  <2>2. one \in Cells /\ one.start = 0 /\ one.end = 0
    BY DEF Cells
  <2> HIDE DEF one
  <2>3. <<one>> \in Seq(Cells) /\ <<one>> # <<>> /\ DOMAIN <<one>> = {1} /\ <<one>>[1] = one
    BY <2>2
  <2>4. 0..line.len - 1 = {}
    BY <1>1
  <2> QED
    BY <1>1, <2>1, <2>2, <2>3, <2>4 DEF Wraps
<1>2. CASE line.len # 0
  <2> DEFINE c == WrapLine(line, width)
  <2>1. Covers(line, c, 0)
    BY <1>2, WrapCovers
  <2> HIDE DEF c
  <2>2. Wraps(line, c)
    BY <2>1 DEF Wraps, Covers
  <2> QED
    BY <2>2 DEF c
<1> QED
  BY <1>1, <1>2

-----------------------------------------------------------------------------
LEMMA FlatOrder ==
  ASSUME NEW S, NEW ss \in Seq(Seq(S)), NEW e, Ends(ss, e),
         NEW i \in 1..Len(ss), NEW j \in 1..Len(ss[i]),
         NEW k \in 1..Len(ss), NEW l \in 1..Len(ss[k]),
         e[i - 1] + j <= e[k - 1] + l
  PROVE  i <= k
<1>n. Len(ss) \in Nat /\ Len(ss[i]) \in Nat /\ Len(ss[k]) \in Nat
  OBVIOUS
<1>d. /\ i - 1 \in 0..Len(ss) /\ k - 1 \in 0..Len(ss) /\ i \in 0..Len(ss) /\ k \in 0..Len(ss)
      /\ i \in Nat /\ k \in Nat /\ j \in Nat /\ l \in Nat /\ j >= 1 /\ l <= Len(ss[k])
  BY <1>n
<1>1. /\ e[k] = e[k - 1] + Len(ss[k])
      /\ e[i - 1] \in Nat /\ e[k - 1] \in Nat /\ e[k] \in Nat
  BY <1>d DEF Ends
<1> SUFFICES ASSUME k < i
             PROVE  FALSE
  BY <1>d
<1>2. e[k] <= e[i - 1]
  <2>1. k <= i - 1
    BY <1>d
  <2> QED
    BY <1>d, <2>1, EndsGrow
<1>3. e[k - 1] + l <= e[k]
  <2>1. \A a, x, y \in Nat : x <= y => a + x <= a + y
    OBVIOUS
  <2> QED
    BY ONLY <1>1, <1>d, <1>n, <2>1
<1>4. \A a, b, c, x, y \in Nat : a + x <= b + y /\ b + y <= c /\ c <= a /\ x >= 1 => FALSE
  OBVIOUS
<1>5. e[i - 1] + j <= e[k - 1] + l
  OBVIOUS
<1> QED
  BY ONLY <1>1, <1>2, <1>3, <1>4, <1>5, <1>d

-----------------------------------------------------------------------------
(* A layout.                                                               *)
Rows == [no : Nat, line : Nat \cup {Absent}, start : Nat, end : Nat]
Views == [text : Seq(Lines), source : Seq(Nat)]

Viewable(view) ==
  /\ view \in Views
  /\ view.text # <<>>
  /\ view.source = <<>> \/ Len(view.source) = Len(view.text)

PlaceOf(view, i) == IF i \in DOMAIN view.source THEN view.source[i] ELSE Absent

LineRows(view, width, i) ==
  [r \in DOMAIN WrapLine(view.text[i], width) |->
     [no |-> view.text[i].no, line |-> PlaceOf(view, i),
      start |-> WrapLine(view.text[i], width)[r].start,
      end |-> WrapLine(view.text[i], width)[r].end]]

RowPieces(view, width) == [i \in DOMAIN view.text |-> LineRows(view, width, i)]

LEMMA LayoutIs ==
  ASSUME NEW view, NEW width, view.text # <<>>
  PROVE  NewLayout(view, width) = [view |-> view, width |-> width,
                                   rows |-> FlattenSeq(RowPieces(view, width))]
BY DEF NewLayout, RowPieces, LineRows, PlaceOf

LEMMA LinesAre ==
  ASSUME NEW line \in Lines
  PROVE  IsLine(line) /\ line.no \in Nat
BY LinesAssumption DEF IsLine

(* The rows of line i, in the pieces.                                      *)
LEMMA PiecesAre ==
  ASSUME NEW view, Viewable(view), NEW width \in Nat \ {0}
  PROVE  /\ RowPieces(view, width) \in Seq(Seq(Rows))
         /\ Len(RowPieces(view, width)) = Len(view.text)
         /\ \A i \in 1..Len(view.text) :
              LET piece == RowPieces(view, width)[i]
              IN /\ Len(piece) = Len(WrapLine(view.text[i], width))
                 /\ \A r \in 1..Len(piece) :
                      /\ piece[r].no = view.text[i].no
                      /\ piece[r].line = PlaceOf(view, i)
                      /\ piece[r].start = WrapLine(view.text[i], width)[r].start
                      /\ piece[r].end = WrapLine(view.text[i], width)[r].end
<1> DEFINE n == Len(view.text)
           P == RowPieces(view, width)
<1>n. n \in Nat /\ DOMAIN view.text = 1..n /\ \A i \in 1..n : view.text[i] \in Lines
  BY DEF Viewable, Views
<1>1. ASSUME NEW i \in 1..n
      PROVE  /\ P[i] \in Seq(Rows)
             /\ Len(P[i]) = Len(WrapLine(view.text[i], width))
             /\ \A r \in 1..Len(P[i]) :
                  /\ P[i][r].no = view.text[i].no
                  /\ P[i][r].line = PlaceOf(view, i)
                  /\ P[i][r].start = WrapLine(view.text[i], width)[r].start
                  /\ P[i][r].end = WrapLine(view.text[i], width)[r].end
  <2> DEFINE line == view.text[i]
             w == WrapLine(line, width)
             row(r) == [no |-> line.no, line |-> PlaceOf(view, i),
                        start |-> w[r].start, end |-> w[r].end]
  <2>1. P[i] = [r \in DOMAIN w |-> row(r)]
    BY <1>n DEF RowPieces, LineRows
  <2>2. line \in Lines
    BY <1>n
  <2> HIDE DEF line
  <2>3. IsLine(line) /\ line.no \in Nat
    BY <2>2, LinesAre
  <2>4. w \in Seq(Cells)
    BY <2>3, LineWraps DEF Wraps
  <2> HIDE DEF w
  <2>5. DOMAIN w = 1..Len(w) /\ Len(w) \in Nat
    BY <2>4
  <2>6. \A r \in 1..Len(w) : w[r].start \in Nat /\ w[r].end \in Nat
    <3>1. \A r \in 1..Len(w) : w[r] \in Cells
      BY <2>4
    <3> QED
      BY <3>1 DEF Cells
  <2>7. PlaceOf(view, i) \in Nat \cup {Absent}
    <3>1. view.source \in Seq(Nat)
      BY DEF Viewable, Views
    <3> QED
      BY <3>1 DEF PlaceOf
  <2>8. \A r \in 1..Len(w) : row(r) \in Rows
    BY <2>3, <2>6, <2>7 DEF Rows
  <2> HIDE DEF row
  <2>9. P[i] = [r \in 1..Len(w) |-> row(r)]
    BY <2>1, <2>5
  <2> HIDE DEF P
  <2>10. P[i] \in Seq(Rows) /\ Len(P[i]) = Len(w)
    BY <2>5, <2>8, <2>9
  <2>11. \A r \in 1..Len(w) : P[i][r] = row(r)
    BY <2>9
  <2>12. \A r \in 1..Len(w) : /\ row(r).no = line.no
                              /\ row(r).line = PlaceOf(view, i)
                              /\ row(r).start = w[r].start
                              /\ row(r).end = w[r].end
    BY DEF row
  <2>13. /\ P[i] \in Seq(Rows) /\ Len(P[i]) = Len(w)
         /\ \A r \in 1..Len(P[i]) : /\ P[i][r].no = line.no
                                    /\ P[i][r].line = PlaceOf(view, i)
                                    /\ P[i][r].start = w[r].start
                                    /\ P[i][r].end = w[r].end
    BY <2>10, <2>11, <2>12
  <2> QED
    BY <2>13 DEF w, line
<1>2. P = [i \in 1..n |-> P[i]]
  BY <1>n DEF RowPieces
<1> HIDE DEF P, n
<1>3. P \in Seq(Seq(Rows)) /\ Len(P) = n
  BY <1>1, <1>2, <1>n
<1> QED
  BY <1>1, <1>3 DEF P, n

(* Of which line of its text each row is.                                  *)
RowsAre(view, rows, of) ==
  /\ of \in [DOMAIN rows -> DOMAIN view.text]
  /\ \A x \in DOMAIN rows :
       /\ rows[x].no = view.text[of[x]].no
       /\ rows[x].line = PlaceOf(view, of[x])
       /\ rows[x].end <= view.text[of[x]].len
       /\ rows[x].start < rows[x].end \/ (rows[x].start = 0 /\ rows[x].end = 0)
  /\ \A x, y \in DOMAIN rows : x < y =>
       /\ of[x] <= of[y]
       /\ of[x] = of[y] => /\ rows[x].end <= rows[y].start
                           /\ rows[x].start < rows[x].end
                           /\ rows[y].start < rows[y].end
  /\ \A i \in DOMAIN view.text : \A c \in 0..view.text[i].len - 1 :
       \E x \in DOMAIN rows : of[x] = i /\ rows[x].start <= c /\ c < rows[x].end

LEMMA RowsLaid ==
  ASSUME NEW view, Viewable(view), NEW width \in Nat \ {0}
  PROVE  LET rows == NewLayout(view, width).rows
         IN /\ rows \in Seq(Rows) /\ rows # <<>>
            /\ \E of : RowsAre(view, rows, of)
<1> DEFINE n == Len(view.text)
           P == RowPieces(view, width)
           rows == NewLayout(view, width).rows
           w(i) == WrapLine(view.text[i], width)
<1>n. n \in Nat /\ n # 0 /\ DOMAIN view.text = 1..n /\ \A i \in 1..n : view.text[i] \in Lines
  BY DEF Viewable, Views
<1>p. /\ P \in Seq(Seq(Rows)) /\ Len(P) = n
      /\ \A i \in 1..n : /\ Len(P[i]) = Len(w(i))
                         /\ \A r \in 1..Len(P[i]) :
                              /\ P[i][r].no = view.text[i].no
                              /\ P[i][r].line = PlaceOf(view, i)
                              /\ P[i][r].start = w(i)[r].start
                              /\ P[i][r].end = w(i)[r].end
  BY PiecesAre
<1>w. \A i \in 1..n : Wraps(view.text[i], w(i)) /\ DOMAIN w(i) = 1..Len(P[i]) /\ Len(P[i]) \in Nat
  <2> SUFFICES ASSUME NEW i \in 1..n
               PROVE  Wraps(view.text[i], w(i)) /\ DOMAIN w(i) = 1..Len(P[i]) /\ Len(P[i]) \in Nat
    OBVIOUS
  <2>1. IsLine(view.text[i])
    BY <1>n, LinesAre
  <2>2. Wraps(view.text[i], w(i))
    BY <2>1, LineWraps
  <2>3. w(i) \in Seq(Cells)
    BY <2>2 DEF Wraps
  <2> QED
    BY <1>p, <2>2, <2>3
<1>r. rows = FlattenSeq(P)
  BY LayoutIs, <1>n
<1>1. rows \in Seq(Rows)
  BY <1>p, <1>r, Flat
<1>2. PICK e : FlatAt(P, rows, e)
  BY <1>p, <1>r, Flat
<1> HIDE DEF P, rows, w, n
<1>3. /\ Ends(P, e) /\ Len(rows) = e[n]
      /\ \A i \in 1..n : \A j \in 1..Len(P[i]) : rows[e[i - 1] + j] = P[i][j]
      /\ DOMAIN rows = 1..e[n] /\ e[n] \in Nat
  BY <1>1, <1>2, <1>p DEF FlatAt
<1>s. /\ \A i \in 0..n : e[i] \in Nat
      /\ \A i \in 1..n : e[i] = e[i - 1] + Len(P[i])
      /\ e[0] = 0
      /\ \A i, k \in 0..n : i <= k => e[i] <= e[k]
  BY <1>3, <1>p, EndsGrow DEF Ends
<1> DEFINE At(x, i) == \E j \in 1..Len(P[i]) : x = e[i - 1] + j
           of == [x \in DOMAIN rows |-> CHOOSE i \in 1..n : At(x, i)]
<1>4. \A x \in DOMAIN rows : of[x] \in 1..n /\ At(x, of[x])
  <2>1. \A x \in DOMAIN rows : \E i \in 1..n : At(x, i)
    <3> SUFFICES ASSUME NEW x \in DOMAIN rows
                 PROVE  \E i \in 1..n : At(x, i)
      OBVIOUS
    <3>1. P \in Seq(Seq(Rows)) /\ Len(P) = n
      BY <1>p
    <3>2. Ends(P, e) /\ x \in 1..e[Len(P)]
      BY <1>3, <3>1
    <3>4. EndsReach(P, e)
      BY <3>1, <3>2, FlatFrom
    <3>3. \E i \in 1..Len(P) : \E j \in 1..Len(P[i]) : x = e[i - 1] + j
      BY <3>2, <3>4 DEF EndsReach
    <3> QED
      BY <3>1, <3>3
  <2> HIDE DEF At
  <2> QED
    BY <2>1
<1>5. of \in [DOMAIN rows -> DOMAIN view.text]
  <2> HIDE DEF At
  <2> QED
    BY <1>4, <1>n
<1>6. \A x, y \in DOMAIN rows : \A i, k \in 1..n : At(x, i) /\ At(y, k) /\ x <= y => i <= k
  <2> SUFFICES ASSUME NEW x \in DOMAIN rows, NEW y \in DOMAIN rows, NEW i \in 1..n, NEW k \in 1..n,
                      At(x, i), At(y, k), x <= y
               PROVE  i <= k
    OBVIOUS
  <2>1. PICK j \in 1..Len(P[i]) : x = e[i - 1] + j
    OBVIOUS
  <2>2. PICK l \in 1..Len(P[k]) : y = e[k - 1] + l
    OBVIOUS
  <2> QED
    BY <1>3, <1>p, <2>1, <2>2, FlatOrder
<1> HIDE DEF of
<1>7. ASSUME NEW x \in DOMAIN rows
      PROVE  /\ rows[x].no = view.text[of[x]].no
             /\ rows[x].line = PlaceOf(view, of[x])
             /\ rows[x].end <= view.text[of[x]].len
             /\ rows[x].start < rows[x].end \/ (rows[x].start = 0 /\ rows[x].end = 0)
  <2> DEFINE i == of[x]
  <2>1. i \in 1..n /\ At(x, i)
    BY <1>4
  <2> HIDE DEF i
  <2>2. PICK j \in 1..Len(P[i]) : x = e[i - 1] + j
    BY <2>1
  <2>3. rows[x] = P[i][j]
    BY <1>3, <2>1, <2>2
  <2>4. j \in DOMAIN w(i) /\ Wraps(view.text[i], w(i))
    BY <1>w, <2>1
  <2>5. w(i)[j].end <= view.text[i].len
        /\ (w(i)[j].start < w(i)[j].end \/ (w(i)[j].start = 0 /\ w(i)[j].end = 0))
    BY <2>4 DEF Wraps
  <2> QED
    BY <1>p, <2>1, <2>3, <2>5 DEF i
<1>8. ASSUME NEW x \in DOMAIN rows, NEW y \in DOMAIN rows, x < y
      PROVE  /\ of[x] <= of[y]
             /\ of[x] = of[y] => /\ rows[x].end <= rows[y].start
                                 /\ rows[x].start < rows[x].end
                                 /\ rows[y].start < rows[y].end
  <2>1. x \in Nat /\ y \in Nat /\ x <= y
    BY <1>3, <1>8
  <2>2. of[x] <= of[y]
    <3> HIDE DEF At
    <3> QED
      BY <1>4, <1>6, <2>1
  <2>3. ASSUME of[x] = of[y]
        PROVE  /\ rows[x].end <= rows[y].start
               /\ rows[x].start < rows[x].end
               /\ rows[y].start < rows[y].end
    <3> DEFINE i == of[x]
    <3>1. i \in 1..n /\ At(x, i) /\ At(y, i)
      BY <1>4, <2>3
    <3> HIDE DEF i
    <3>2. PICK j \in 1..Len(P[i]) : x = e[i - 1] + j
      BY <3>1
    <3>3. PICK l \in 1..Len(P[i]) : y = e[i - 1] + l
      BY <3>1
    <3>4. rows[x] = P[i][j] /\ rows[y] = P[i][l]
      BY <1>3, <3>1, <3>2, <3>3
    <3>5. i - 1 \in 0..n
      BY <1>n, <3>1
    <3>6. j < l
      BY <1>8, <1>s, <1>w, <3>1, <3>2, <3>3, <3>5
    <3>7. j \in DOMAIN w(i) /\ l \in DOMAIN w(i) /\ Wraps(view.text[i], w(i))
      BY <1>w, <3>1
    <3>8. w(i)[j].end <= w(i)[l].start /\ w(i)[j].start < w(i)[j].end /\ w(i)[l].start < w(i)[l].end
      BY <3>6, <3>7 DEF Wraps
    <3> QED
      BY <1>p, <3>1, <3>4, <3>8
  <2> QED
    BY <2>2, <2>3
<1>9. ASSUME NEW i \in DOMAIN view.text, NEW c \in 0..view.text[i].len - 1
      PROVE  \E x \in DOMAIN rows : of[x] = i /\ rows[x].start <= c /\ c < rows[x].end
  <2>1. i \in 1..n /\ i - 1 \in 0..n
    BY <1>n
  <2>2. Wraps(view.text[i], w(i)) /\ DOMAIN w(i) = 1..Len(P[i])
    BY <1>w, <2>1
  <2>3. PICK j \in 1..Len(P[i]) : w(i)[j].start <= c /\ c < w(i)[j].end
    BY <2>2 DEF Wraps
  <2> DEFINE x == e[i - 1] + j
  <2>4. x \in DOMAIN rows
    <3>1. e[i - 1] \in Nat /\ e[i] = e[i - 1] + Len(P[i]) /\ Len(P[i]) \in Nat
      BY <1>s, <1>w, <2>1
    <3>2. i \in 0..n /\ n \in 0..n /\ i <= n
      BY <1>n, <2>1
    <3>3. e[i] <= e[n] /\ e[n] \in Nat
      BY <1>s, <3>2
    <3>4. x \in 1..e[n]
      BY <3>1, <3>3
    <3> QED
      BY <1>3, <3>4
  <2>5. At(x, i)
    OBVIOUS
  <2>6. rows[x] = P[i][j]
    BY <1>3, <2>1
  <2> HIDE DEF x
  <2>7. of[x] = i
    <3>1. of[x] \in 1..n /\ At(x, of[x]) /\ x \in Nat /\ x <= x
      BY <1>3, <1>4, <2>4
    <3> HIDE DEF At
    <3>2. of[x] <= i /\ i <= of[x]
      BY <1>6, <2>1, <2>4, <2>5, <3>1
    <3> QED
      BY <1>n, <2>1, <3>1, <3>2
  <2>8. rows[x].start <= c /\ c < rows[x].end
    BY <1>p, <2>1, <2>3, <2>6
  <2> QED
    BY <2>4, <2>7, <2>8
<1>10. rows # <<>>
  <2>1. 1 \in 1..n /\ 1 \in 0..n /\ n \in 0..n /\ 1 <= n /\ 1 - 1 = 0
    BY <1>n
  <2>2. Wraps(view.text[1], w(1)) /\ Len(P[1]) \in Nat /\ DOMAIN w(1) = 1..Len(P[1])
    BY <1>w, <2>1
  <2>3. w(1) # <<>> /\ w(1) \in Seq(Cells)
    BY <2>2 DEF Wraps
  <2>4. Len(P[1]) # 0
    BY <2>2, <2>3
  <2>5. e[1] = Len(P[1]) /\ e[1] <= e[n]
    <3>1. e[1] = e[1 - 1] + Len(P[1])
      BY <1>s, <2>1
    <3>2. e[1 - 1] = 0
      BY <1>s, <2>1
    <3> QED
      BY <1>s, <2>1, <2>2, <3>1, <3>2
  <2>6. Len(rows) # 0
    BY <1>3, <2>2, <2>4, <2>5
  <2> QED
    BY <2>6
<1>11. RowsAre(view, rows, of)
  BY <1>5, <1>7, <1>8, <1>9 DEF RowsAre
<1> QED
  BY <1>1, <1>10, <1>11 DEF rows

-----------------------------------------------------------------------------
(* The text and what is shown of it.                                       *)
IsText(text) == text \in Seq(Lines) /\ text # <<>>

LEMMA RetainedIs ==
  ASSUME NEW output \in Seq(Lines)
  PROVE  /\ IsText(Retained(output))
         /\ output = <<>> => Retained(output) = <<Empty>>
         /\ Len(output) \in 1..Limit => Retained(output) = output
<1> DEFINE n == Len(output)
<1>l. n \in Nat /\ Limit \in Nat /\ Limit > 1
  BY LinesAssumption
<1>e. Empty \in Lines /\ Marker \in Lines
  BY DEF Lines
<1>1. CASE n = 0
  <2>1. Retained(output) = <<Empty>>
    BY <1>1 DEF Retained
  <2>2. <<Empty>> \in Seq(Lines) /\ <<Empty>> # <<>>
    BY <1>e
  <2>3. n \notin 1..Limit
    BY <1>1, <1>l
  <2> QED
    BY <2>1, <2>2, <2>3 DEF IsText
<1>2. CASE n \in 1..Limit
  <2>1. Retained(output) = output
    BY <1>2, <1>l DEF Retained
  <2>2. output # <<>>
    BY <1>2
  <2> QED
    BY <2>1, <2>2 DEF IsText
<1>3. CASE n # 0 /\ n \notin 1..Limit
  <2> DEFINE t == SubSeq(output, n - Limit + 2, n)
  <2>1. Retained(output) = <<Marker>> \o t
    BY <1>3 DEF Retained
  <2>2. n - Limit + 2 \in 1..n
    BY <1>3, <1>l
  <2>3. t \in Seq(Lines)
    BY <1>l, <2>2
  <2>4. output # <<>>
    BY <1>3
  <2> HIDE DEF t
  <2>5. <<Marker>> \o t \in Seq(Lines) /\ <<Marker>> \o t # <<>>
    BY <1>e, <2>3
  <2> QED
    BY <1>3, <2>1, <2>4, <2>5 DEF IsText
<1> QED
  BY <1>1, <1>2, <1>3

Matching(text, query) ==
  FlattenSeq([i \in DOMAIN text |-> IF Hits(text[i], query) # {} THEN <<i>> ELSE <<>>])

LEMMA MatchingIs ==
  ASSUME NEW text, IsText(text), NEW query
  PROVE  LET m == Matching(text, query)
         IN /\ m \in Seq(1..Len(text))
            /\ \A x, y \in DOMAIN m : x < y => m[x] < m[y]
            /\ \A x \in DOMAIN m : Hits(text[m[x]], query) # {}
            /\ \A i \in DOMAIN text : Hits(text[i], query) # {} => \E x \in DOMAIN m : m[x] = i
<1> DEFINE n == Len(text)
           hit(i) == Hits(text[i], query) # {}
           P == [i \in 1..n |-> IF hit(i) THEN <<i>> ELSE <<>>]
           m == Matching(text, query)
<1>n. n \in Nat /\ DOMAIN text = 1..n
  BY DEF IsText
<1>m. m = FlattenSeq(P)
  BY <1>n DEF Matching
<1> HIDE DEF hit, m, n
<1>1. \A i \in 1..n : P[i] = IF hit(i) THEN <<i>> ELSE <<>>
  OBVIOUS
<1>2. \A i \in 1..n : P[i] \in Seq(1..n)
  <2>1. \A i \in 1..n : <<i>> \in Seq(1..n)
    OBVIOUS
  <2>2. <<>> \in Seq(1..n)
    OBVIOUS
  <2> HIDE DEF P
  <2> QED
    BY <1>1, <2>1, <2>2
<1>3. P \in Seq(Seq(1..n)) /\ Len(P) = n
  BY <1>2, <1>n
<1> HIDE DEF P
<1>4. m \in Seq(1..n) /\ \E e : FlatAt(P, m, e)
  BY <1>3, <1>m, Flat
<1>5. PICK e : FlatAt(P, m, e)
  BY <1>4
<1>6. /\ Ends(P, e) /\ Len(m) = e[n]
      /\ \A i \in 1..n : \A j \in 1..Len(P[i]) : m[e[i - 1] + j] = P[i][j]
      /\ DOMAIN m = 1..e[n]
  <2>1. /\ Ends(P, e) /\ Len(m) = e[n]
        /\ \A i \in 1..n : \A j \in 1..Len(P[i]) : m[e[i - 1] + j] = P[i][j]
    BY <1>3, <1>5 DEF FlatAt
  <2>2. m \in Seq(1..n)
    BY <1>4
  <2>3. DOMAIN m = 1..Len(m)
    BY <2>2
  <2> QED
    BY <2>1, <2>3
<1>7. \A i \in 1..n : \A j \in 1..Len(P[i]) : j = 1 /\ hit(i) /\ P[i][j] = i
  <2> SUFFICES ASSUME NEW i \in 1..n, NEW j \in 1..Len(P[i])
               PROVE  j = 1 /\ hit(i) /\ P[i][j] = i
    OBVIOUS
  <2>1. CASE hit(i)
    <3>1. P[i] = <<i>>
      BY <1>1, <2>1
    <3>2. Len(P[i]) = 1 /\ P[i][1] = i
      BY <3>1
    <3>3. j = 1
      BY <3>2
    <3> QED
      BY <2>1, <3>2, <3>3
  <2>2. CASE ~hit(i)
    <3>1. P[i] = <<>>
      BY <1>1, <2>2
    <3>2. Len(P[i]) = 0
      BY <3>1
    <3> QED
      BY <3>2
  <2> QED
    BY <2>1, <2>2
<1>8. ASSUME NEW x \in DOMAIN m
      PROVE  m[x] \in 1..n /\ hit(m[x]) /\ x = e[m[x] - 1] + 1 /\ 1 \in 1..Len(P[m[x]])
  <2>1. x \in 1..e[Len(P)]
    BY <1>3, <1>6
  <2>2. Ends(P, e) /\ P \in Seq(Seq(1..n))
    BY <1>3, <1>6
  <2>3. \A y \in 1..e[Len(P)] : \E i \in 1..Len(P) : \E j \in 1..Len(P[i]) : y = e[i - 1] + j
    <3>1. EndsReach(P, e)
      BY <2>2, FlatFrom
    <3> QED
      BY <3>1 DEF EndsReach
  <2>4. PICK i \in 1..n : \E j \in 1..Len(P[i]) : x = e[i - 1] + j
    BY <1>3, <2>1, <2>3
  <2>5. PICK j \in 1..Len(P[i]) : x = e[i - 1] + j
    BY <2>4
  <2>6. j = 1 /\ hit(i) /\ P[i][j] = i
    BY <1>7
  <2>7. m[x] = i
    BY <1>6, <2>5, <2>6
  <2> QED
    BY <2>5, <2>6, <2>7
<1>9. ASSUME NEW x \in DOMAIN m, NEW y \in DOMAIN m, x < y
      PROVE  m[x] < m[y]
  <2> DEFINE i == m[x]
             k == m[y]
  <2>1. i \in 1..n /\ k \in 1..n /\ x = e[i - 1] + 1 /\ y = e[k - 1] + 1
        /\ 1 \in 1..Len(P[i]) /\ 1 \in 1..Len(P[k])
    BY <1>8
  <2> HIDE DEF i, k
  <2>2. x \in Nat /\ y \in Nat
    BY <1>4
  <2>3. e[i - 1] + 1 <= e[k - 1] + 1
    BY <1>9, <2>1, <2>2
  <2>4. i <= k
    <3>1. Ends(P, e) /\ P \in Seq(Seq(1..n)) /\ i \in 1..Len(P) /\ k \in 1..Len(P)
      BY <1>3, <1>6, <2>1
    <3> QED
      BY <2>1, <2>3, <3>1, FlatOrder
  <2>5. i # k
    BY <1>9, <2>1, <2>2
  <2>6. i < k
    BY <1>n, <2>1, <2>4, <2>5
  <2> QED
    BY <2>6 DEF i, k
<1>10. ASSUME NEW i \in 1..n, hit(i)
       PROVE  \E x \in DOMAIN m : m[x] = i
  <2>1. P[i] = <<i>>
    BY <1>1, <1>10
  <2>2. 1 \in 1..Len(P[i]) /\ P[i][1] = i /\ Len(P[i]) = 1
    BY <2>1
  <2>3. m[e[i - 1] + 1] = i
    BY <1>6, <2>2
  <2>4. e[i - 1] \in Nat /\ e[i] = e[i - 1] + 1 /\ e[i] <= e[n] /\ e[n] \in Nat
    <3>1. i - 1 \in 0..n /\ i \in 0..n /\ n \in 0..n /\ i <= n
      BY <1>n
    <3>2. \A k \in 0..n : e[k] \in Nat
      BY <1>3, <1>6 DEF Ends
    <3>3. e[i] = e[i - 1] + Len(P[i])
      BY <1>3, <1>6 DEF Ends
    <3>4. e[i] <= e[n]
      BY <1>3, <1>6, <3>1, EndsGrow
    <3> QED
      BY <2>2, <3>1, <3>2, <3>3, <3>4
  <2>5. e[i - 1] + 1 \in 1..e[n]
    BY <2>4
  <2> QED
    BY <1>6, <2>3, <2>5
<1> QED
  BY <1>4, <1>8, <1>9, <1>10, <1>n DEF m, n, hit

(* A view of a text: lines of it, in order, or the one that says none.     *)
Shows(view, text) ==
  /\ Viewable(view)
  /\ view.source = <<>> => view.text = <<NoMatch>>
  /\ \A x \in DOMAIN view.source : /\ view.source[x] + 1 \in DOMAIN text
                                   /\ view.text[x] = text[view.source[x] + 1]
  /\ \A x, y \in DOMAIN view.source : x < y => view.source[x] < view.source[y]

ShowsLine(p, line) == ~p.filter \/ p.query = NoQuery \/ Hits(line, p.query) # {}

LEMMA ViewOf ==
  ASSUME NEW text, IsText(text), NEW places \in Seq(1..Len(text)), places # <<>>,
         \A x, y \in DOMAIN places : x < y => places[x] < places[y]
  PROVE  LET view == [text |-> [i \in DOMAIN places |-> text[places[i]]],
                      source |-> [i \in DOMAIN places |-> places[i] - 1]]
         IN Shows(view, text) /\ DOMAIN view.source = DOMAIN places /\ view.source # <<>>
<1> DEFINE n == Len(places)
           t == [i \in DOMAIN places |-> text[places[i]]]
           s == [i \in DOMAIN places |-> places[i] - 1]
           view == [text |-> t, source |-> s]
<1>t. text \in Seq(Lines) /\ DOMAIN text = 1..Len(text)
  BY DEF IsText
<1>n. n \in Nat /\ n # 0 /\ DOMAIN places = 1..n /\ \A i \in 1..n : places[i] \in 1..Len(text)
  OBVIOUS
<1>1. t = [i \in 1..n |-> text[places[i]]] /\ s = [i \in 1..n |-> places[i] - 1]
  BY <1>n
<1>2. \A i \in 1..n : text[places[i]] \in Lines /\ places[i] - 1 \in Nat /\ places[i] - 1 + 1 = places[i]
  BY <1>n, <1>t
<1> HIDE DEF t, s, n
<1>3. t \in Seq(Lines) /\ s \in Seq(Nat) /\ Len(t) = n /\ Len(s) = n /\ DOMAIN t = 1..n /\ DOMAIN s = 1..n
  BY <1>1, <1>2, <1>n
<1>4. t # <<>> /\ s # <<>>
  BY <1>3, <1>n
<1>5. view.text = t /\ view.source = s
  OBVIOUS
<1>v. view \in Views
  BY <1>3 DEF Views
<1> HIDE DEF view
<1>6. Viewable(view)
  BY <1>3, <1>4, <1>5, <1>v DEF Viewable
<1>7. \A x \in 1..n : s[x] + 1 \in DOMAIN text /\ t[x] = text[s[x] + 1]
  BY <1>1, <1>2, <1>n, <1>t
<1>8. \A x, y \in 1..n : x < y => s[x] < s[y]
  <2> SUFFICES ASSUME NEW x \in 1..n, NEW y \in 1..n, x < y
               PROVE  s[x] < s[y]
    OBVIOUS
  <2>1. s[x] = places[x] - 1 /\ s[y] = places[y] - 1
    BY <1>1
  <2>2. places[x] < places[y]
    BY <1>n
  <2>3. places[x] \in Nat /\ places[y] \in Nat
    BY <1>n
  <2> QED
    BY <2>1, <2>2, <2>3
<1>9. Shows(view, text)
  BY <1>3, <1>4, <1>5, <1>6, <1>7, <1>8 DEF Shows
<1> QED
  BY <1>3, <1>4, <1>5, <1>9, <1>n DEF view, t, s

LEMMA ViewIs ==
  ASSUME NEW text, IsText(text), NEW p
  PROVE  LET view == OutputView(p, text)
         IN /\ Shows(view, text)
            /\ \A i \in DOMAIN text :
                 ShowsLine(p, text[i]) => \E x \in DOMAIN view.source : view.source[x] = i - 1
<1> DEFINE n == Len(text)
           all == [i \in DOMAIN text |-> i]
           matching == Matching(text, p.query)
           View(places) == [text |-> [i \in DOMAIN places |-> text[places[i]]],
                            source |-> [i \in DOMAIN places |-> places[i] - 1]]
<1>n. n \in Nat /\ DOMAIN text = 1..n /\ n # 0
  BY DEF IsText
<1>1. OutputView(p, text) = IF ~p.filter \/ p.query = NoQuery THEN View(all)
                            ELSE IF matching = <<>> THEN [text |-> <<NoMatch>>, source |-> <<>>]
                            ELSE View(matching)
  BY DEF OutputView, Matching
<1>2. /\ matching \in Seq(1..n)
      /\ \A x, y \in DOMAIN matching : x < y => matching[x] < matching[y]
      /\ \A i \in DOMAIN text : Hits(text[i], p.query) # {} =>
           \E x \in DOMAIN matching : matching[x] = i
  <2>1. LET m == Matching(text, p.query)
        IN /\ m \in Seq(1..Len(text))
           /\ \A x, y \in DOMAIN m : x < y => m[x] < m[y]
           /\ \A x \in DOMAIN m : Hits(text[m[x]], p.query) # {}
           /\ \A i \in DOMAIN text : Hits(text[i], p.query) # {} => \E x \in DOMAIN m : m[x] = i
    BY MatchingIs
  <2> QED
    BY <2>1
<1>3. all \in Seq(1..n) /\ DOMAIN all = 1..n /\ \A i \in 1..n : all[i] = i
  BY <1>n
<1> HIDE DEF matching, all
<1>4. \A places \in Seq(1..n) :
        places # <<>> /\ (\A x, y \in DOMAIN places : x < y => places[x] < places[y])
          => /\ Shows(View(places), text)
             /\ DOMAIN View(places).source = DOMAIN places
  BY ViewOf
<1>5. \A places : View(places).source = [i \in DOMAIN places |-> places[i] - 1]
  OBVIOUS
<1> HIDE DEF View
<1>6. CASE ~p.filter \/ p.query = NoQuery
  <2>1. OutputView(p, text) = View(all)
    BY <1>1, <1>6
  <2>2. all # <<>>
    BY <1>3, <1>n
  <2>3. \A x, y \in DOMAIN all : x < y => all[x] < all[y]
    BY <1>3
  <2>4. Shows(View(all), text)
    BY <1>3, <1>4, <2>2, <2>3
  <2>5. \A i \in 1..n : i \in DOMAIN View(all).source /\ View(all).source[i] = i - 1
    <3>1. View(all).source = [i \in DOMAIN all |-> all[i] - 1]
      BY <1>5
    <3>2. \A i \in 1..n : i \in DOMAIN all /\ all[i] = i
      BY <1>3
    <3> QED
      BY <3>1, <3>2
  <2> QED
    BY <1>n, <2>1, <2>4, <2>5
<1>7. CASE ~(~p.filter \/ p.query = NoQuery) /\ matching = <<>>
  <2> DEFINE none == [text |-> <<NoMatch>>, source |-> <<>>]
  <2>1. OutputView(p, text) = none
    BY <1>1, <1>7
  <2>2. NoMatch \in Lines
    BY DEF Lines
  <2>3. none \in Views
    <3>1. <<NoMatch>> \in Seq(Lines) /\ <<>> \in Seq(Nat)
      BY <2>2
    <3> QED
      BY <3>1 DEF Views
  <2>4. none.text = <<NoMatch>> /\ none.source = <<>> /\ <<NoMatch>> # <<>> /\ DOMAIN none.source = {}
    OBVIOUS
  <2> HIDE DEF none
  <2>5. Shows(none, text)
    BY <2>3, <2>4 DEF Shows, Viewable
  <2>6. \A i \in DOMAIN text : ~ShowsLine(p, text[i])
    <3>1. DOMAIN matching = {}
      BY <1>7
    <3> QED
      BY <1>2, <1>7, <3>1 DEF ShowsLine
  <2> QED
    BY <2>1, <2>5, <2>6
<1>8. CASE ~(~p.filter \/ p.query = NoQuery) /\ matching # <<>>
  <2>1. OutputView(p, text) = View(matching)
    BY <1>1, <1>8
  <2>2. Shows(View(matching), text) /\ DOMAIN View(matching).source = DOMAIN matching
    BY <1>2, <1>4, <1>8
  <2>3. \A x \in DOMAIN matching : View(matching).source[x] = matching[x] - 1
    BY <1>5
  <2>4. ASSUME NEW i \in DOMAIN text, ShowsLine(p, text[i])
        PROVE  \E x \in DOMAIN View(matching).source : View(matching).source[x] = i - 1
    <3>1. PICK x \in DOMAIN matching : matching[x] = i
      BY <1>2, <1>8, <2>4 DEF ShowsLine
    <3> QED
      BY <2>2, <2>3, <3>1
  <2> QED
    BY <2>1, <2>2, <2>4
<1> QED
  BY <1>6, <1>7, <1>8

LEMMA SameView ==
  ASSUME NEW p, NEW q, NEW text, p.filter = q.filter, p.query = q.query
  PROVE  OutputView(p, text) = OutputView(q, text)
BY DEF OutputView

-----------------------------------------------------------------------------
(* The rows of a view of a text.                                           *)
TextRows(text, rows) ==
  /\ \A x \in DOMAIN rows :
       /\ rows[x].line \in Nat
       /\ rows[x].line + 1 \in DOMAIN text
       /\ rows[x].no = text[rows[x].line + 1].no
       /\ rows[x].end <= text[rows[x].line + 1].len
  /\ \A x, y \in DOMAIN rows : x < y =>
       /\ rows[x].line <= rows[y].line
       /\ rows[x].line = rows[y].line => /\ rows[x].end <= rows[y].start
                                         /\ rows[x].start < rows[x].end
                                         /\ rows[y].start < rows[y].end

RowsHold(view, text, rows) ==
  \A i \in DOMAIN view.source : \A c \in 0..text[view.source[i] + 1].len - 1 :
    \E x \in DOMAIN rows : rows[x].line = view.source[i] /\ rows[x].start <= c /\ c < rows[x].end

Filled(rows) ==
  /\ rows \in Seq(Rows) /\ rows # <<>>
  /\ \A x \in DOMAIN rows : rows[x].start < rows[x].end \/ (rows[x].start = 0 /\ rows[x].end = 0)

LEMMA ViewRows ==
  ASSUME NEW text, IsText(text), NEW view, Shows(view, text), NEW width \in Nat \ {0}
  PROVE  LET rows == NewLayout(view, width).rows
         IN /\ Filled(rows)
            /\ view.source # <<>> => TextRows(text, rows) /\ RowsHold(view, text, rows)
            /\ view.source = <<>> => \A x \in DOMAIN rows : /\ rows[x].line = Absent
                                                            /\ rows[x].no = NoMatch.no
<1> DEFINE rows == NewLayout(view, width).rows
<1>1. Viewable(view)
  BY DEF Shows
<1>2. rows \in Seq(Rows) /\ rows # <<>> /\ \E of : RowsAre(view, rows, of)
  BY <1>1, RowsLaid
<1> HIDE DEF rows
<1>3. PICK of : RowsAre(view, rows, of)
  BY <1>2
<1>4. /\ \A x \in DOMAIN rows : of[x] \in DOMAIN view.text
      /\ \A x \in DOMAIN rows :
           /\ rows[x].no = view.text[of[x]].no
           /\ rows[x].line = PlaceOf(view, of[x])
           /\ rows[x].end <= view.text[of[x]].len
           /\ rows[x].start < rows[x].end \/ (rows[x].start = 0 /\ rows[x].end = 0)
      /\ \A x, y \in DOMAIN rows : x < y =>
           /\ of[x] <= of[y]
           /\ of[x] = of[y] => /\ rows[x].end <= rows[y].start
                               /\ rows[x].start < rows[x].end
                               /\ rows[y].start < rows[y].end
      /\ \A i \in DOMAIN view.text : \A c \in 0..view.text[i].len - 1 :
           \E x \in DOMAIN rows : of[x] = i /\ rows[x].start <= c /\ c < rows[x].end
  BY <1>3 DEF RowsAre
<1>5. Filled(rows)
  BY <1>2, <1>4 DEF Filled
<1>6. ASSUME view.source # <<>>
      PROVE  TextRows(text, rows) /\ RowsHold(view, text, rows)
  <2> DEFINE n == Len(view.text)
  <2>1. /\ n \in Nat /\ DOMAIN view.text = 1..n /\ DOMAIN view.source = 1..n
        /\ \A i \in 1..n : view.source[i] \in Nat
    BY <1>1, <1>6 DEF Viewable, Views
  <2>2. /\ \A i \in 1..n : view.source[i] + 1 \in DOMAIN text /\ view.text[i] = text[view.source[i] + 1]
        /\ \A i, k \in 1..n : i < k => view.source[i] < view.source[k]
    BY <2>1 DEF Shows
  <2> HIDE DEF n
  <2>3. \A x \in DOMAIN rows : of[x] \in 1..n /\ rows[x].line = view.source[of[x]]
    BY <1>4, <2>1 DEF PlaceOf
  <2>4. ASSUME NEW x \in DOMAIN rows
        PROVE  /\ rows[x].line \in Nat
               /\ rows[x].line + 1 \in DOMAIN text
               /\ rows[x].no = text[rows[x].line + 1].no
               /\ rows[x].end <= text[rows[x].line + 1].len
    BY <1>4, <2>1, <2>2, <2>3
  <2>5. ASSUME NEW x \in DOMAIN rows, NEW y \in DOMAIN rows, x < y
        PROVE  /\ rows[x].line <= rows[y].line
               /\ rows[x].line = rows[y].line => /\ rows[x].end <= rows[y].start
                                                 /\ rows[x].start < rows[x].end
                                                 /\ rows[y].start < rows[y].end
    <3>1. of[x] \in 1..n /\ of[y] \in 1..n /\ of[x] <= of[y]
      BY <1>4, <2>3, <2>5
    <3>2. CASE of[x] = of[y]
      <4>1. /\ rows[x].end <= rows[y].start
            /\ rows[x].start < rows[x].end
            /\ rows[y].start < rows[y].end
        BY <1>4, <2>5, <3>2
      <4>2. rows[x].line = rows[y].line /\ rows[x].line \in Nat
        BY <2>1, <2>3, <3>1, <3>2
      <4> QED
        BY <4>1, <4>2
    <3>3. CASE of[x] # of[y]
      <4>1. of[x] < of[y]
        BY <2>1, <3>1, <3>3
      <4>2. view.source[of[x]] < view.source[of[y]]
        BY <2>2, <3>1, <4>1
      <4>3. rows[x].line < rows[y].line /\ rows[x].line \in Nat /\ rows[y].line \in Nat
        BY <2>3, <2>4, <4>2
      <4> QED
        BY <4>3
    <3> QED
      BY <3>2, <3>3
  <2>6. ASSUME NEW i \in DOMAIN view.source, NEW c \in 0..text[view.source[i] + 1].len - 1
        PROVE  \E x \in DOMAIN rows :
                 rows[x].line = view.source[i] /\ rows[x].start <= c /\ c < rows[x].end
    <3>1. i \in 1..n /\ i \in DOMAIN view.text
      BY <2>1
    <3>2. c \in 0..view.text[i].len - 1
      BY <2>2, <3>1
    <3>3. PICK x \in DOMAIN rows : of[x] = i /\ rows[x].start <= c /\ c < rows[x].end
      BY <1>4, <3>1, <3>2
    <3> QED
      BY <2>3, <3>3
  <2> QED
    BY <2>4, <2>5, <2>6 DEF TextRows, RowsHold
<1>7. ASSUME view.source = <<>>
      PROVE  \A x \in DOMAIN rows : rows[x].line = Absent /\ rows[x].no = NoMatch.no
  <2>1. view.text = <<NoMatch>>
    BY <1>7 DEF Shows
  <2>2. DOMAIN view.text = {1} /\ view.text[1] = NoMatch /\ DOMAIN view.source = {}
    BY <1>7, <2>1
  <2>3. \A x \in DOMAIN rows : of[x] = 1
    BY <1>4, <2>2
  <2> QED
    BY <1>4, <2>2, <2>3 DEF PlaceOf
<1> QED
  BY <1>5, <1>6, <1>7 DEF rows

-----------------------------------------------------------------------------
(* The pane between two steps of a handler.                                *)
Layouts == [view : Views, width : Nat, rows : Seq(Rows)]

PaneType == [viewport : Viewport, width : Nat, layoutInitialized : BOOLEAN, layout : Layouts,
          query : Queries \cup {NoQuery, Invalid}, filter : BOOLEAN,
          current : Positions \cup {Absent}]

LayoutOK(layout) ==
  /\ layout \in Layouts
  /\ layout.width # 0
  /\ Filled(layout.rows)
  /\ layout = NewLayout(layout.view, layout.width)

PaneOK(p) ==
  /\ p \in PaneType
  /\ p.width \in Widths
  /\ Sound(p.viewport)
  /\ LayoutOK(p.layout)

LEMMA WidthsAre ==
  ASSUME NEW width \in Widths
  PROVE  width \in Nat \ {0}
BY LinesAssumption

LEMMA NewLayoutOK ==
  ASSUME NEW text, IsText(text), NEW view, Shows(view, text), NEW width \in Nat \ {0}
  PROVE  /\ LayoutOK(NewLayout(view, width))
         /\ NewLayout(view, width).view = view
         /\ NewLayout(view, width).width = width
<1> DEFINE layout == NewLayout(view, width)
<1>1. view \in Views /\ view.text # <<>>
  BY DEF Shows, Viewable
<1>2. layout = [view |-> view, width |-> width, rows |-> layout.rows]
  BY <1>1, LayoutIs
<1>3. Filled(layout.rows)
  BY ViewRows
<1> HIDE DEF layout
<1>4. layout.view = view /\ layout.width = width
  BY <1>2
<1>5. layout \in Layouts
  BY <1>1, <1>2, <1>3 DEF Layouts, Filled
<1>6. layout = NewLayout(layout.view, layout.width)
  BY <1>4 DEF layout
<1> QED
  BY <1>3, <1>4, <1>5, <1>6 DEF LayoutOK, layout

LEMMA Scrolls ==
  ASSUME NEW v, Sound(v)
  PROVE  /\ \A page, len \in Nat \ {0} :
              LET w == SetMetrics(v, page, len)
              IN /\ Sound(w) /\ w.page = page /\ w.len = len /\ w.follow = v.follow
                 /\ w.scroll = IF v.follow THEN MaxScroll(len, page) ELSE Clamp(v.scroll, len, page)
         /\ \A scroll \in Nat :
              LET w == SetScroll(v, scroll)
              IN /\ Sound(w) /\ w.page = v.page /\ w.len = v.len /\ w.follow = v.follow
                 /\ w.scroll = Clamp(scroll, v.len, v.page)
         /\ LET w == Unfollow(v)
            IN /\ Sound(w) /\ w.page = v.page /\ w.len = v.len /\ w.follow = FALSE
               /\ w.scroll = v.scroll
<1>v. /\ v = [scroll |-> v.scroll, page |-> v.page, len |-> v.len, follow |-> v.follow]
      /\ v.follow \in BOOLEAN
  BY DEF Sound, Viewport
<1>1. ASSUME NEW page \in Nat \ {0}, NEW len \in Nat \ {0}
      PROVE  LET w == SetMetrics(v, page, len)
             IN /\ Sound(w) /\ w.page = page /\ w.len = len /\ w.follow = v.follow
                /\ w.scroll = IF v.follow THEN MaxScroll(len, page) ELSE Clamp(v.scroll, len, page)
  <2>1. Larger(page, 1) = page /\ Larger(len, 1) = len
    BY DEF Larger
  <2>2. Sound(SetMetrics(v, page, len))
    BY StaysSound
  <2>3. SetMetrics(v, page, len)
          = [scroll |-> IF v.follow THEN MaxScroll(len, page) ELSE Clamp(v.scroll, len, page),
             page |-> page, len |-> len, follow |-> v.follow]
    BY <1>v, <2>1 DEF SetMetrics, ToBottom, SetScroll
  <2> QED
    BY <2>2, <2>3
<1>2. ASSUME NEW scroll \in Nat
      PROVE  LET w == SetScroll(v, scroll)
             IN /\ Sound(w) /\ w.page = v.page /\ w.len = v.len /\ w.follow = v.follow
                /\ w.scroll = Clamp(scroll, v.len, v.page)
  <2>1. Sound(SetScroll(v, scroll))
    BY StaysSound
  <2>2. SetScroll(v, scroll) = [scroll |-> Clamp(scroll, v.len, v.page),
                                page |-> v.page, len |-> v.len, follow |-> v.follow]
    BY <1>v DEF SetScroll
  <2> QED
    BY <2>1, <2>2
<1>3. LET w == Unfollow(v)
      IN /\ Sound(w) /\ w.page = v.page /\ w.len = v.len /\ w.follow = FALSE
         /\ w.scroll = v.scroll
  BY <1>v DEF Sound, Unfollow, Viewport
<1> QED
  BY <1>1, <1>2, <1>3

(* The rows at a position.                                                 *)
HoldingRows(rows, line, offset) ==
  {i \in DOMAIN rows : /\ rows[i].line # Absent /\ rows[i].line = line
                       /\ rows[i].start <= offset
                       /\ \/ offset < rows[i].end
                          \/ rows[i].start = rows[i].end}

LEMMA RowForIs ==
  ASSUME NEW rows \in Seq(Rows), NEW position
  PROVE  /\ RowForPosition(rows, position) \in Nat \cup {Absent}
         /\ HoldingRows(rows, position.line, position.offset) # {} =>
              RowForPosition(rows, position)
                = Min(HoldingRows(rows, position.line, position.offset)) - 1
<1> DEFINE ofText == {i \in DOMAIN rows : rows[i].line # Absent}
           exact == {i \in ofText : rows[i].line = position.line}
           holding == {i \in exact : /\ rows[i].start <= position.offset
                                     /\ \/ position.offset < rows[i].end
                                        \/ rows[i].start = rows[i].end}
           later == {i \in ofText : rows[i].line > position.line}
<1>n. Len(rows) \in Nat /\ DOMAIN rows = 1..Len(rows)
  OBVIOUS
<1>1. HoldingRows(rows, position.line, position.offset) = holding
  BY DEF HoldingRows
<1>2. RowForPosition(rows, position)
        = IF holding # {} THEN Min(holding) - 1
          ELSE IF exact # {} THEN Max(exact) - 1
          ELSE IF later # {} THEN Min(later) - 1
          ELSE IF ofText # {} THEN Max(ofText) - 1
          ELSE Absent
  BY DEF RowForPosition
<1>3. holding \subseteq 1..Len(rows) /\ exact \subseteq 1..Len(rows) /\ later \subseteq 1..Len(rows)
      /\ ofText \subseteq 1..Len(rows)
  BY <1>n
<1> HIDE DEF holding, exact, later, ofText
<1>4. \A T : T \subseteq 1..Len(rows) /\ T # {} => Min(T) - 1 \in Nat /\ Max(T) - 1 \in Nat
  <2> SUFFICES ASSUME NEW T, T \subseteq 1..Len(rows), T # {}
               PROVE  Min(T) - 1 \in Nat /\ Max(T) - 1 \in Nat
    OBVIOUS
  <2>1. T \subseteq Nat /\ T \subseteq 0..Len(rows)
    BY <1>n
  <2>2. Min(T) \in T
    BY <2>1, MinIsLeast
  <2>3. Max(T) \in T
    BY <1>n, <2>1, MaxIsGreatest
  <2>4. \A t \in 1..Len(rows) : t - 1 \in Nat
    BY <1>n
  <2> QED
    BY <2>2, <2>3, <2>4
<1>5. RowForPosition(rows, position) \in Nat \cup {Absent}
  BY <1>2, <1>3, <1>4
<1> QED
  BY <1>1, <1>2, <1>5

Held(p, line, offset) == HoldingRows(p.layout.rows, line, offset)

LEMMA RestoreIs ==
  ASSUME NEW q, PaneOK(q), NEW position
  PROVE  LET r == RestorePosition(q, position)
         IN /\ r = [q EXCEPT !.viewport = r.viewport]
            /\ PaneOK(r)
            /\ r.viewport.page = q.viewport.page /\ r.viewport.len = q.viewport.len
            /\ r.viewport.follow = q.viewport.follow
            /\ position = Absent => r = q
            /\ position # Absent /\ Held(q, position.line, position.offset) # {} =>
                 r.viewport.scroll = Clamp(Min(Held(q, position.line, position.offset)) - 1,
                                           q.viewport.len, q.viewport.page)
<1> DEFINE r == RestorePosition(q, position)
           row == IF position = Absent THEN Absent ELSE RowForPosition(q.layout.rows, position)
           v == q.viewport
<1>q. /\ q \in PaneType /\ q.width \in Widths /\ Sound(v) /\ LayoutOK(q.layout)
      /\ q.layout.rows \in Seq(Rows)
  BY DEF PaneOK, LayoutOK, Filled
<1>1. r = IF row = Absent THEN q ELSE [q EXCEPT !.viewport = SetScroll(v, row)]
  BY DEF RestorePosition
<1>2. row \in Nat \cup {Absent}
  BY <1>q, RowForIs
<1>3. position # Absent /\ Held(q, position.line, position.offset) # {} =>
        row = Min(Held(q, position.line, position.offset)) - 1 /\ row \in Nat
  <2> SUFFICES ASSUME position # Absent, Held(q, position.line, position.offset) # {}
               PROVE  row = Min(Held(q, position.line, position.offset)) - 1 /\ row \in Nat
    OBVIOUS
  <2> DEFINE h == Held(q, position.line, position.offset)
  <2>1. row = Min(h) - 1
    BY <1>q, RowForIs DEF Held
  <2>2. h \subseteq 1..Len(q.layout.rows) /\ Len(q.layout.rows) \in Nat
    BY <1>q DEF Held, HoldingRows
  <2> HIDE DEF h
  <2>3. h # {} /\ h \subseteq Nat
    BY <2>2 DEF h
  <2>4. Min(h) \in h
    BY <2>3, MinIsLeast
  <2>5. Min(h) \in 1..Len(q.layout.rows)
    BY <2>2, <2>4
  <2>6. Min(h) - 1 \in Nat
    BY <2>2, <2>5
  <2> QED
    BY <2>1, <2>6 DEF h
<1> HIDE DEF r, row
<1>4. CASE row = Absent
  <2>1. r = q
    BY <1>1, <1>4
  <2>2. r = [q EXCEPT !.viewport = r.viewport]
    BY <1>q, <2>1 DEF PaneType
  <2>3. ~(position # Absent /\ Held(q, position.line, position.offset) # {})
    BY <1>3, <1>4, LinesAssumption
  <2>4. PaneOK(r)
    BY <2>1
  <2> QED
    BY <2>1, <2>2, <2>3, <2>4 DEF r
<1>5. CASE row # Absent
  <2>1. row \in Nat
    BY <1>2, <1>5
  <2> DEFINE w == SetScroll(v, row)
  <2>2. /\ Sound(w) /\ w.page = v.page /\ w.len = v.len /\ w.follow = v.follow
        /\ w.scroll = Clamp(row, v.len, v.page)
    BY <1>q, <2>1, Scrolls
  <2> HIDE DEF w
  <2>3. r = [q EXCEPT !.viewport = w]
    BY <1>1, <1>5 DEF w
  <2>4. r.viewport = w /\ r.width = q.width /\ r.layout = q.layout /\ r \in PaneType
    BY <1>q, <2>2, <2>3 DEF PaneType, Sound
  <2>5. PaneOK(r)
    BY <1>q, <2>2, <2>4 DEF PaneOK
  <2>6. position # Absent
    BY <1>5 DEF row
  <2> QED
    BY <1>3, <2>2, <2>3, <2>4, <2>5, <2>6 DEF r
<1> QED
  BY <1>4, <1>5

(* What laying out again leaves of a pane.                                 *)
Prepared(p, text, page, q) ==
  /\ PaneOK(q)
  /\ q.width = p.width /\ q.query = p.query /\ q.filter = p.filter /\ q.current = p.current
  /\ q.layout = NewLayout(OutputView(p, text), p.width)
  /\ q.layout.view = OutputView(p, text) /\ q.layout.width = p.width
  /\ p.layoutInitialized => q.layoutInitialized
  /\ q.viewport.page = page /\ q.viewport.len = Len(q.layout.rows)
  /\ q.viewport.follow = p.viewport.follow
  /\ p.viewport.follow => q.viewport.scroll = MaxScroll(q.viewport.len, page)

Anchored(p, page, q) ==
  p.layoutInitialized /\ ~p.viewport.follow /\ TopRow(p).line # Absent
    /\ Held(q, TopRow(p).line, TopRow(p).start) # {} =>
    q.viewport.scroll = Clamp(Min(Held(q, TopRow(p).line, TopRow(p).start)) - 1,
                              q.viewport.len, page)

LEMMA TopIs ==
  ASSUME NEW p, PaneOK(p)
  PROVE  LET top == Smaller(p.viewport.scroll + 1, Len(p.layout.rows))
         IN /\ top \in 1..Len(p.layout.rows)
            /\ TopRow(p) = p.layout.rows[top]
            /\ TopRow(p) \in Rows
            /\ p.viewport.len = Len(p.layout.rows) => top = p.viewport.scroll + 1
<1> DEFINE n == Len(p.layout.rows)
           s == p.viewport.scroll
           top == Smaller(s + 1, n)
<1>1. p.layout.rows \in Seq(Rows) /\ p.layout.rows # <<>>
  BY DEF PaneOK, LayoutOK, Filled
<1>2. n \in Nat /\ n # 0
  BY <1>1
<1>3. s \in Nat /\ p.viewport.len \in Nat \ {0} /\ p.viewport.page \in Nat \ {0}
      /\ s <= MaxScroll(p.viewport.len, p.viewport.page)
  BY DEF PaneOK, Sound, Viewport
<1>4. top \in 1..n
  BY <1>2, <1>3 DEF Smaller
<1>5. TopRow(p) = p.layout.rows[top]
  BY DEF TopRow
<1> HIDE DEF top
<1>6. TopRow(p) \in Rows
  BY <1>1, <1>4, <1>5
<1>7. ASSUME p.viewport.len = n
      PROVE  top = s + 1
  <2>1. s + 1 <= n
    BY <1>2, <1>3, <1>7 DEF MaxScroll, Less, Larger
  <2> QED
    BY <1>2, <1>3, <2>1 DEF top, Smaller
<1> QED
  BY <1>4, <1>5, <1>6, <1>7 DEF top

LEMMA PrepareIs ==
  ASSUME NEW p, PaneOK(p), NEW text, IsText(text), NEW page \in Nat \ {0}
  PROVE  /\ Prepared(p, text, page, PrepareLayout(p, text, page))
         /\ Anchored(p, page, PrepareLayout(p, text, page))
<1> DEFINE anchor == IF p.layoutInitialized /\ ~p.viewport.follow THEN TopPosition(p) ELSE Absent
           view == OutputView(p, text)
           laid == IF p.layout.view = view /\ p.layout.width = p.width THEN p
                   ELSE [p EXCEPT !.layout = NewLayout(view, p.width), !.layoutInitialized = TRUE]
           v == SetMetrics(p.viewport, page, Len(laid.layout.rows))
           sized == [laid EXCEPT !.viewport = v]
           q == RestorePosition(sized, anchor)
<1>0. PrepareLayout(p, text, page) = RestorePosition([laid EXCEPT !.viewport =
          SetMetrics(laid.viewport, page, Len(laid.layout.rows))], anchor)
  BY DEF PrepareLayout
<1>p. /\ p \in PaneType /\ p.width \in Widths /\ Sound(p.viewport) /\ LayoutOK(p.layout)
      /\ p.width \in Nat \ {0}
  BY WidthsAre DEF PaneOK
<1>1. Shows(view, text)
  BY ViewIs
<1>2. /\ LayoutOK(NewLayout(view, p.width))
      /\ NewLayout(view, p.width).view = view
      /\ NewLayout(view, p.width).width = p.width
  BY <1>1, <1>p, NewLayoutOK
<1>3. /\ laid \in PaneType /\ laid.layout = NewLayout(view, p.width)
      /\ laid.viewport = p.viewport /\ laid.width = p.width /\ laid.query = p.query
      /\ laid.filter = p.filter /\ laid.current = p.current
      /\ p.layoutInitialized => laid.layoutInitialized
  <2> DEFINE new == NewLayout(view, p.width)
  <2>1. LayoutOK(new) /\ new \in Layouts
    BY <1>2 DEF LayoutOK
  <2>2. CASE p.layout.view = view /\ p.layout.width = p.width
    <3>1. p.layout = new
      BY <1>p, <2>2 DEF LayoutOK
    <3>2. laid = p
      BY <2>2
    <3> QED
      BY <1>p, <3>1, <3>2
  <2>3. CASE ~(p.layout.view = view /\ p.layout.width = p.width)
    <3> HIDE DEF new
    <3>1. laid = [p EXCEPT !.layout = new, !.layoutInitialized = TRUE]
      BY <2>3 DEF new
    <3> HIDE DEF laid
    <3>2. /\ laid \in PaneType /\ laid.layout = new
          /\ laid.viewport = p.viewport /\ laid.width = p.width /\ laid.query = p.query
          /\ laid.filter = p.filter /\ laid.current = p.current
          /\ laid.layoutInitialized
      BY <1>p, <2>1, <3>1 DEF PaneType
    <3> QED
      BY <3>2 DEF new
  <2> QED
    BY <2>2, <2>3
<1> HIDE DEF laid
<1>4. Len(laid.layout.rows) \in Nat \ {0}
  <2>1. laid.layout.rows \in Seq(Rows) /\ laid.layout.rows # <<>>
    BY <1>2, <1>3 DEF LayoutOK, Filled
  <2> QED
    BY <2>1
<1>5. /\ Sound(v) /\ v.page = page /\ v.len = Len(laid.layout.rows) /\ v.follow = p.viewport.follow
      /\ p.viewport.follow => v.scroll = MaxScroll(v.len, page)
  <2> DEFINE len == Len(laid.layout.rows)
             w == SetMetrics(p.viewport, page, len)
  <2>1. len \in Nat \ {0} /\ Sound(p.viewport)
    BY <1>4, <1>p
  <2> HIDE DEF len
  <2>2. LET u == SetMetrics(p.viewport, page, len)
        IN /\ Sound(u) /\ u.page = page /\ u.len = len /\ u.follow = p.viewport.follow
           /\ u.scroll = IF p.viewport.follow THEN MaxScroll(len, page)
                         ELSE Clamp(p.viewport.scroll, len, page)
    <3> DEFINE vp == p.viewport
    <3>1. Sound(vp)
      BY <2>1
    <3> HIDE DEF vp
    <3>2. \A pg, ln \in Nat \ {0} :
            LET u == SetMetrics(vp, pg, ln)
            IN /\ Sound(u) /\ u.page = pg /\ u.len = ln /\ u.follow = vp.follow
               /\ u.scroll = IF vp.follow THEN MaxScroll(ln, pg) ELSE Clamp(vp.scroll, ln, pg)
      BY <3>1, Scrolls
    <3>3. page \in Nat \ {0} /\ len \in Nat \ {0}
      BY <2>1
    <3>4. LET u == SetMetrics(vp, page, len)
          IN /\ Sound(u) /\ u.page = page /\ u.len = len /\ u.follow = vp.follow
             /\ u.scroll = IF vp.follow THEN MaxScroll(len, page) ELSE Clamp(vp.scroll, len, page)
      BY <3>2, <3>3
    <3> QED
      BY <3>4 DEF vp
  <2> HIDE DEF w
  <2>3. /\ Sound(w) /\ w.page = page /\ w.len = len /\ w.follow = p.viewport.follow
        /\ p.viewport.follow => w.scroll = MaxScroll(w.len, page)
    BY <2>2 DEF w
  <2> QED
    BY <2>3 DEF w, len
<1> HIDE DEF v
<1>6. /\ PaneOK(sized) /\ sized.viewport = v /\ sized.layout = laid.layout
      /\ sized.width = p.width /\ sized.query = p.query
      /\ sized.filter = p.filter /\ sized.current = p.current
      /\ p.layoutInitialized => sized.layoutInitialized
  <2>1. /\ sized \in PaneType /\ sized.viewport = v /\ sized.layout = laid.layout
        /\ sized.width = p.width /\ sized.query = p.query
        /\ sized.filter = p.filter /\ sized.current = p.current
        /\ p.layoutInitialized => sized.layoutInitialized
    BY <1>3, <1>5 DEF PaneType, Sound
  <2> HIDE DEF sized
  <2> QED
    BY <1>2, <1>3, <1>5, <1>p, <2>1 DEF PaneOK
<1>7. q = PrepareLayout(p, text, page)
  BY <1>0, <1>3 DEF v
<1> HIDE DEF sized, anchor
<1>8. /\ q = [sized EXCEPT !.viewport = q.viewport]
      /\ PaneOK(q)
      /\ q.viewport.page = v.page /\ q.viewport.len = v.len /\ q.viewport.follow = v.follow
      /\ anchor = Absent => q = sized
      /\ anchor # Absent /\ Held(sized, anchor.line, anchor.offset) # {} =>
           q.viewport.scroll = Clamp(Min(Held(sized, anchor.line, anchor.offset)) - 1, v.len, v.page)
  BY <1>6, RestoreIs
<1> HIDE DEF q
<1>9. /\ q.layout = laid.layout /\ q.width = p.width /\ q.query = p.query
      /\ q.filter = p.filter /\ q.current = p.current
      /\ p.layoutInitialized => q.layoutInitialized
  <2>1. sized \in PaneType
    BY <1>6 DEF PaneOK
  <2>2. /\ q.layout = sized.layout /\ q.width = sized.width /\ q.query = sized.query
        /\ q.filter = sized.filter /\ q.current = sized.current
        /\ q.layoutInitialized = sized.layoutInitialized
    BY <1>8, <2>1 DEF PaneType
  <2> QED
    BY <1>6, <2>2
<1>10. p.viewport.follow => q.viewport.scroll = MaxScroll(q.viewport.len, page)
  <2> SUFFICES ASSUME p.viewport.follow
               PROVE  q.viewport.scroll = MaxScroll(q.viewport.len, page)
    OBVIOUS
  <2>1. anchor = Absent
    BY DEF anchor
  <2> QED
    BY <1>5, <1>6, <1>8, <2>1
<1>11. Prepared(p, text, page, q)
  BY <1>2, <1>3, <1>5, <1>8, <1>9, <1>10 DEF Prepared
<1>12. Anchored(p, page, q)
  <2> SUFFICES ASSUME p.layoutInitialized, ~p.viewport.follow, TopRow(p).line # Absent,
                      Held(q, TopRow(p).line, TopRow(p).start) # {}
               PROVE  q.viewport.scroll
                        = Clamp(Min(Held(q, TopRow(p).line, TopRow(p).start)) - 1,
                                q.viewport.len, page)
    BY DEF Anchored
  <2>1. anchor = [line |-> TopRow(p).line, offset |-> TopRow(p).start]
    BY DEF anchor, TopPosition
  <2>2. TopRow(p).line \in Nat /\ TopRow(p).start \in Nat
    BY TopIs DEF Rows
  <2>3. anchor # Absent /\ anchor.line = TopRow(p).line /\ anchor.offset = TopRow(p).start
    BY <2>1, <2>2, LinesAssumption
  <2>4. \A l, o : Held(sized, l, o) = Held(q, l, o)
    BY <1>6, <1>9 DEF Held
  <2> QED
    BY <1>5, <1>8, <2>3, <2>4
<1> QED
  BY <1>7, <1>11, <1>12

-----------------------------------------------------------------------------
Versions == [lines : 0..Len(Live), failed : BOOLEAN, summary : {"None", "Run", "Command"}]

(* What had arrived before in the same run.                                *)
Until(now) ==
  {v \in Versions : \/ v = now
                    \/ v.summary = "None" /\ v.lines <= now.lines /\ (v.failed => now.failed)}

TextOf(sel, v) ==
  WithSummary(IF sel = "Live" THEN Retained(Captured(v)) ELSE Other, v.summary)

(* What is laid out is of the text as it is or was.                        *)
LaidInv ==
  pane.layoutInitialized => \E m \in Until(arrived) : Shows(pane.layout.view, TextOf(selected, m))

QueryInv == pane.query = NoQuery => pane.current = Absent

(* The match that was found is the current one, in the text as it was.     *)
FoundInv ==
  found # Absent =>
    /\ pane.query \in Queries
    /\ pane.current # Absent
    /\ \E m \in Until(arrived) :
         LET text == TextOf(selected, m)
         IN /\ pane.current.line + 1 \in DOMAIN text
            /\ found = [no |-> text[pane.current.line + 1].no, offset |-> pane.current.start]

(* Since the last frame nothing was laid out or scrolled.                  *)
DrawnInv ==
  drawn # Absent =>
    /\ drawn = Place(pane)
    /\ pane.layout.width = pane.width
    /\ pane.viewport.len = Len(pane.layout.rows)

PaneIInv ==
  /\ selected \in {"Live", "Other"}
  /\ arrived \in Versions
  /\ PaneOK(pane)
  /\ LaidInv
  /\ QueryInv
  /\ FoundInv
  /\ DrawnInv

LEMMA CapturedIs ==
  ASSUME NEW v \in Versions
  PROVE  /\ Captured(v) \in Seq(Lines)
         /\ Len(Captured(v)) = v.lines + (IF v.failed THEN 1 ELSE 0)
         /\ \A i \in 1..v.lines : Captured(v)[i] = Live[i]
         /\ v.failed => Captured(v)[v.lines + 1] = Failure
<1> DEFINE n == v.lines
           t == SubSeq(Live, 1, n)
<1>1. Live \in Seq(Lines) /\ Len(Live) \in Nat /\ Failure \in Lines
  BY LinesAssumption DEF Lines
<1>2. n \in 0..Len(Live) /\ n \in Nat /\ v.failed \in BOOLEAN
  BY <1>1 DEF Versions
<1>3. t \in Seq(Lines) /\ Len(t) = n /\ \A i \in 1..n : t[i] = Live[i]
  <2> HIDE DEF n
  <2> QED
    BY <1>1, <1>2
<1> HIDE DEF t
<1>4. t \o <<>> = t
  BY <1>3
<1>5. /\ t \o <<Failure>> \in Seq(Lines) /\ Len(t \o <<Failure>>) = n + 1
      /\ \A i \in 1..n : (t \o <<Failure>>)[i] = t[i]
      /\ (t \o <<Failure>>)[n + 1] = Failure
  <2> HIDE DEF n
  <2> QED
    BY <1>1, <1>2, <1>3
<1>6. Captured(v) = IF v.failed THEN t \o <<Failure>> ELSE t
  BY <1>4 DEF Captured, t
<1> HIDE DEF n
<1>7. CASE v.failed
  BY <1>2, <1>3, <1>5, <1>6, <1>7 DEF n
<1>8. CASE ~v.failed
  BY <1>2, <1>3, <1>6, <1>8 DEF n
<1> QED
  BY <1>7, <1>8

LEMMA TextsAre ==
  ASSUME NEW sel \in {"Live", "Other"}, NEW v \in Versions
  PROVE  IsText(TextOf(sel, v))
<1> DEFINE own == IF sel = "Live" THEN Retained(Captured(v)) ELSE Other
<1>1. IsText(Retained(Captured(v)))
  BY CapturedIs, RetainedIs
<1>2. IsText(Other)
  BY LinesAssumption DEF IsText
<1>3. IsText(own) /\ own \in Seq(Lines)
  BY <1>1, <1>2 DEF IsText
<1>4. TextOf(sel, v) = WithSummary(own, v.summary) /\ v.summary \in {"None", "Run", "Command"}
  BY DEF TextOf, Versions
<1> HIDE DEF own
<1>5. Report \in Lines
  BY DEF Lines
<1>6. IsText(Append(own, Report)) /\ IsText(<<Report>>)
  BY <1>3, <1>5 DEF IsText
<1>7. WithSummary(own, v.summary) \in {own, Append(own, Report), <<Report>>}
  BY <1>4 DEF WithSummary
<1> QED
  BY <1>3, <1>4, <1>6, <1>7

LEMMA SourceIs ==
  SourceText = TextOf(selected, arrived)
BY DEF SourceText, TextOf

(* The fields of a pane, set one by one.                                   *)
LEMMA Changed ==
  ASSUME NEW p, PaneOK(p)
  PROVE  /\ \A width \in Widths : PaneOK([p EXCEPT !.width = width])
         /\ \A query \in Queries \cup {NoQuery, Invalid} : PaneOK([p EXCEPT !.query = query])
         /\ \A filter \in BOOLEAN : PaneOK([p EXCEPT !.filter = filter])
         /\ \A match \in Positions \cup {Absent} : PaneOK([p EXCEPT !.current = match])
         /\ \A v : Sound(v) => PaneOK([p EXCEPT !.viewport = v])
<1>1. p \in PaneType /\ p.width \in Widths /\ Sound(p.viewport) /\ LayoutOK(p.layout)
  BY DEF PaneOK
<1>2. ASSUME NEW width \in Widths
      PROVE  PaneOK([p EXCEPT !.width = width])
  <2>1. width \in Nat
    BY WidthsAre
  <2>2. LET q == [p EXCEPT !.width = width]
        IN /\ q \in PaneType /\ q.width = width /\ q.viewport = p.viewport /\ q.layout = p.layout
    BY <1>1, <2>1 DEF PaneType
  <2> QED
    BY <1>1, <2>2 DEF PaneOK
<1>3. ASSUME NEW query \in Queries \cup {NoQuery, Invalid}
      PROVE  PaneOK([p EXCEPT !.query = query])
  <2>2. LET q == [p EXCEPT !.query = query]
        IN /\ q \in PaneType /\ q.width = p.width /\ q.viewport = p.viewport /\ q.layout = p.layout
    BY <1>1 DEF PaneType
  <2> QED
    BY <1>1, <2>2 DEF PaneOK
<1>4. ASSUME NEW filter \in BOOLEAN
      PROVE  PaneOK([p EXCEPT !.filter = filter])
  <2>2. LET q == [p EXCEPT !.filter = filter]
        IN /\ q \in PaneType /\ q.width = p.width /\ q.viewport = p.viewport /\ q.layout = p.layout
    BY <1>1 DEF PaneType
  <2> QED
    BY <1>1, <2>2 DEF PaneOK
<1>5. ASSUME NEW match \in Positions \cup {Absent}
      PROVE  PaneOK([p EXCEPT !.current = match])
  <2>2. LET q == [p EXCEPT !.current = match]
        IN /\ q \in PaneType /\ q.width = p.width /\ q.viewport = p.viewport /\ q.layout = p.layout
    BY <1>1 DEF PaneType
  <2> QED
    BY <1>1, <2>2 DEF PaneOK
<1>6. ASSUME NEW v, Sound(v)
      PROVE  PaneOK([p EXCEPT !.viewport = v])
  <2>1. v \in Viewport
    BY <1>6 DEF Sound
  <2>2. LET q == [p EXCEPT !.viewport = v]
        IN /\ q \in PaneType /\ q.width = p.width /\ q.viewport = v /\ q.layout = p.layout
    BY <1>1, <2>1 DEF PaneType
  <2> QED
    BY <1>1, <1>6, <2>2 DEF PaneOK
<1> QED
  BY <1>2, <1>3, <1>4, <1>5, <1>6

(* That the pane no longer follows changes nothing else.                   *)
SameBut(p, q) ==
  /\ PaneOK(q)
  /\ q.width = p.width /\ q.layoutInitialized = p.layoutInitialized /\ q.layout = p.layout
  /\ q.query = p.query /\ q.filter = p.filter /\ q.current = p.current

LEMMA Freed ==
  ASSUME NEW p, PaneOK(p)
  PROVE  LET q == DisableSnap(p)
         IN /\ SameBut(p, q)
            /\ q.viewport.page = p.viewport.page /\ q.viewport.len = p.viewport.len
            /\ q.viewport.scroll = p.viewport.scroll /\ q.viewport.follow = FALSE
            /\ TopRow(q) = TopRow(p)
            /\ TopPosition(q) = TopPosition(p)
            /\ ShownRows(q) = ShownRows(p)
<1> DEFINE v == Unfollow(p.viewport)
           q == DisableSnap(p)
<1>1. p \in PaneType /\ Sound(p.viewport)
  BY DEF PaneOK
<1>2. /\ Sound(v) /\ v.page = p.viewport.page /\ v.len = p.viewport.len /\ v.follow = FALSE
      /\ v.scroll = p.viewport.scroll
  <2>1. LET w == Unfollow(p.viewport)
        IN /\ Sound(w) /\ w.page = p.viewport.page /\ w.len = p.viewport.len /\ w.follow = FALSE
           /\ w.scroll = p.viewport.scroll
    BY <1>1, Scrolls
  <2> QED
    BY <2>1 DEF v
<1>3. q = [p EXCEPT !.viewport = v]
  BY DEF q, v, DisableSnap
<1> HIDE DEF v
<1>4. PaneOK([p EXCEPT !.viewport = v])
  BY <1>2, Changed
<1>5. /\ q.viewport = v /\ q.width = p.width /\ q.layoutInitialized = p.layoutInitialized
      /\ q.layout = p.layout /\ q.query = p.query /\ q.filter = p.filter /\ q.current = p.current
  BY <1>1, <1>3 DEF PaneType
<1> HIDE DEF q
<1>6. SameBut(p, q)
  BY <1>3, <1>4, <1>5 DEF SameBut
<1>7. TopRow(q) = TopRow(p)
  BY <1>2, <1>5 DEF TopRow
<1>8. TopPosition(q) = TopPosition(p)
  BY <1>7 DEF TopPosition
<1>9. ShownRows(q) = ShownRows(p)
  BY <1>2, <1>5 DEF ShownRows
<1>10. /\ SameBut(p, q)
       /\ q.viewport.page = p.viewport.page /\ q.viewport.len = p.viewport.len
       /\ q.viewport.scroll = p.viewport.scroll /\ q.viewport.follow = FALSE
       /\ TopRow(q) = TopRow(p)
       /\ TopPosition(q) = TopPosition(p)
       /\ ShownRows(q) = ShownRows(p)
  BY <1>2, <1>5, <1>6, <1>7, <1>8, <1>9
<1> QED
  BY <1>10 DEF q

LEMMA SyncIs ==
  ASSUME NEW p, PaneOK(p), NEW text, IsText(text)
  PROVE  LET q == SyncLayout(p, text)
         IN Prepared(p, text, p.viewport.page, q) /\ Anchored(p, p.viewport.page, q)
<1>1. p.viewport.page \in Nat \ {0}
  BY DEF PaneOK, Sound, Viewport
<1> DEFINE page == p.viewport.page
<1>2. page \in Nat \ {0} /\ SyncLayout(p, text) = PrepareLayout(p, text, page)
  BY <1>1 DEF SyncLayout
<1> HIDE DEF page
<1>3. /\ Prepared(p, text, page, PrepareLayout(p, text, page))
      /\ Anchored(p, page, PrepareLayout(p, text, page))
  BY <1>2, PrepareIs
<1>4. /\ Prepared(p, text, page, SyncLayout(p, text))
      /\ Anchored(p, page, SyncLayout(p, text))
  BY <1>2, <1>3
<1> QED
  BY <1>4 DEF page
-----------------------------------------------------------------------------
(* The matches of a query in a text.                                       *)
IsMatch(text, query, m) ==
  /\ m \in Positions
  /\ m.line + 1 \in DOMAIN text
  /\ Hits(text[m.line + 1], query) # {}
  /\ m.start < m.end /\ m.end <= text[m.line + 1].len

LEMMA MatchesAre ==
  ASSUME NEW text, IsText(text), NEW query
  PROVE  /\ \A m \in MatchOccurrences(text, query) : IsMatch(text, query, m)
         /\ query \notin Queries => MatchOccurrences(text, query) = {}
<1>1. ASSUME NEW m \in MatchOccurrences(text, query)
      PROVE  IsMatch(text, query, m) /\ query \in Queries
  <2>1. PICK i \in DOMAIN text : \E hit \in Hits(text[i], query) :
               m = [line |-> i - 1, start |-> hit[1], end |-> hit[2]]
    BY <1>1 DEF MatchOccurrences
  <2>2. PICK hit \in Hits(text[i], query) : m = [line |-> i - 1, start |-> hit[1], end |-> hit[2]]
    BY <2>1
  <2>3. query \in Queries /\ hit \in text[i].hits[query]
    BY <2>2 DEF Hits
  <2>4. i \in 1..Len(text) /\ text[i] \in Lines
    BY DEF IsText
  <2>5. text[i].len \in Nat
    BY <2>4, LinesAre DEF IsLine
  <2>6. 0 <= hit[1] /\ hit[1] < hit[2] /\ hit[2] <= text[i].len
    BY <2>3, <2>4, LinesAssumption
  <2>7. hit[1] \in Nat /\ hit[2] \in Nat
    BY <2>3, <2>4, LinesAssumption
  <2>8. m.line = i - 1 /\ m.start = hit[1] /\ m.end = hit[2]
    BY <2>2
  <2>9. m \in Positions /\ m.line + 1 = i
    BY <2>2, <2>4, <2>7 DEF Positions
  <2> QED
    BY <2>2, <2>3, <2>6, <2>8, <2>9 DEF IsMatch
<1> QED
  BY <1>1

LEMMA FirstIs ==
  ASSUME NEW A, A \subseteq Positions, A # {}
  PROVE  First(A) \in A /\ \A other \in A : ~Before(other, First(A))
<1> DEFINE Ls == {m.line : m \in A}
<1>1. Ls \subseteq Nat /\ Ls # {}
  BY DEF Positions
<1>2. PICK l \in Ls : \A k \in Ls : l <= k
  <2> HIDE DEF Ls
  <2> QED
    BY <1>1, Least
<1> DEFINE Ss == {m.start : m \in {n \in A : n.line = l}}
<1>3. Ss \subseteq Nat /\ Ss # {}
  BY DEF Positions
<1>4. PICK s \in Ss : \A t \in Ss : s <= t
  <2> HIDE DEF Ss
  <2> QED
    BY <1>3, Least
<1>5. PICK m \in A : m.line = l /\ m.start = s
  BY <1>4
<1>6. \A other \in A : ~Before(other, m)
  <2> SUFFICES ASSUME NEW other \in A, Before(other, m)
               PROVE  FALSE
    OBVIOUS
  <2>1. l <= other.line /\ l \in Nat /\ other.line \in Nat
    BY <1>1, <1>2
  <2>2. other.line = l
    BY <1>5, <2>1 DEF Before
  <2>3. s <= other.start /\ s \in Nat /\ other.start \in Nat
    BY <1>3, <1>4, <2>2
  <2> QED
    BY <1>5, <2>2, <2>3, <2>1 DEF Before
<1> QED
  BY <1>5, <1>6 DEF First

LEMMA FinalIs ==
  ASSUME NEW text, IsText(text), NEW query,
         NEW A, A \subseteq MatchOccurrences(text, query), A # {}
  PROVE  Final(A) \in A
<1>0. \A m \in A : IsMatch(text, query, m)
  BY MatchesAre
<1> DEFINE Ls == {m.line : m \in A}
<1>1. Ls \subseteq 0..Len(text) /\ Ls # {}
  <2>1. ASSUME NEW m \in A PROVE m.line \in 0..Len(text)
    BY <1>0, <2>1 DEF IsMatch, Positions, IsText
  <2> QED
    BY <2>1
<1>2. PICK l \in Ls : \A k \in Ls : k <= l
  <2>1. Len(text) \in Nat
    BY DEF IsText
  <2> HIDE DEF Ls
  <2> QED
    BY <1>1, <2>1, MaxIsGreatest
<1> DEFINE Ss == {m.start : m \in {n \in A : n.line = l}}
<1>3. Ss \subseteq 0..text[l + 1].len /\ Ss # {} /\ text[l + 1].len \in Nat
  <2>1. ASSUME NEW m \in A, m.line = l
        PROVE  m.start \in 0..text[l + 1].len /\ text[l + 1].len \in Nat
    <3>1. /\ l + 1 \in DOMAIN text /\ m.start \in Nat /\ m.end \in Nat
          /\ m.start < m.end /\ m.end <= text[l + 1].len
      BY <1>0, <2>1 DEF IsMatch, Positions
    <3>2. text[l + 1] \in Lines
      BY <3>1 DEF IsText
    <3> QED
      BY <3>1, <3>2, LinesAre DEF IsLine
  <2>2. \E m \in A : m.line = l
    BY <1>2
  <2> QED
    BY <2>1, <2>2
<1>4. PICK s \in Ss : \A t \in Ss : t <= s
  <2> HIDE DEF Ss
  <2> QED
    BY <1>3, MaxIsGreatest
<1>5. PICK m \in A : m.line = l /\ m.start = s
  BY <1>4
<1>6. \A other \in A : ~Before(m, other)
  <2> SUFFICES ASSUME NEW other \in A, Before(m, other)
               PROVE  FALSE
    OBVIOUS
  <2>1. other.line <= l /\ l \in Nat /\ other.line \in Nat
    BY <1>1, <1>2
  <2>2. other.line = l
    BY <1>5, <2>1 DEF Before
  <2>3. other.start <= s /\ s \in Nat /\ other.start \in Nat
    BY <1>3, <1>4, <2>2
  <2> QED
    BY <1>5, <2>2, <2>3, <2>1 DEF Before
<1> QED
  BY <1>5, <1>6 DEF Final

LEMMA NextIsMatch ==
  ASSUME NEW text, IsText(text), NEW query, NEW current, NEW direction \in {"Next", "Previous"},
         MatchOccurrences(text, query) # {}
  PROVE  NextMatch(MatchOccurrences(text, query), current, direction)
           \in MatchOccurrences(text, query)
<1> DEFINE M == MatchOccurrences(text, query)
           after == {m \in M : Before(current, m)}
           before == {m \in M : Before(m, current)}
<1>1. M \subseteq Positions
  BY MatchesAre DEF IsMatch
<1>2. First(M) \in M
  BY <1>1, FirstIs
<1>3. after # {} => First(after) \in M
  <2> DEFINE A == after
  <2>1. A \subseteq M
    OBVIOUS
  <2> SUFFICES A # {} => First(A) \in M
    OBVIOUS
  <2> HIDE DEF A
  <2> QED
    BY <1>1, <2>1, FirstIs
<1>4. before # {} => Final(before) \in M
  <2> DEFINE A == before
  <2>1. A \subseteq M
    OBVIOUS
  <2> SUFFICES A # {} => Final(A) \in M
    OBVIOUS
  <2> HIDE DEF A
  <2> QED
    BY <2>1, FinalIs
<1>5. Final(M) \in M
  BY FinalIs
<1>6. CASE direction = "Next"
  BY <1>2, <1>3, <1>6 DEF NextMatch
<1>7. CASE direction = "Previous"
  BY <1>4, <1>5, <1>7 DEF NextMatch
<1> QED
  BY <1>6, <1>7
-----------------------------------------------------------------------------
(* The rows a match is in: one after the other, and it begins in the first *)
(* of them alone.                                                          *)
RangeRows(rows, m) ==
  {i \in DOMAIN rows : rows[i].line = m.line /\ rows[i].start < m.end /\ m.start < rows[i].end}

LEMMA RangeHeld ==
  ASSUME NEW text, IsText(text), NEW view, Shows(view, text), NEW width \in Nat \ {0},
         NEW query, NEW m, IsMatch(text, query, m),
         NEW x \in DOMAIN view.source, view.source[x] = m.line
  PROVE  LET rows == NewLayout(view, width).rows
             held == RangeRows(rows, m)
         IN /\ held # {} /\ held \subseteq 1..Len(rows)
            /\ held = Min(held)..Max(held) /\ Min(held) \in held /\ Max(held) \in held
            /\ rows[Min(held)].start <= m.start
            /\ \A i \in held : rows[i].start <= m.start => i = Min(held)
            /\ \A i, j \in held : i # j => rows[i] # rows[j]
<1> DEFINE rows == NewLayout(view, width).rows
           held == RangeRows(rows, m)
<1>1. Filled(rows) /\ TextRows(text, rows) /\ RowsHold(view, text, rows)
  <2>1. view.source # <<>>
    OBVIOUS
  <2>2. LET rs == NewLayout(view, width).rows
        IN /\ Filled(rs)
           /\ view.source # <<>> => TextRows(text, rs) /\ RowsHold(view, text, rs)
    BY ViewRows
  <2> QED
    BY <2>1, <2>2 DEF rows
<1> HIDE DEF rows
<1>2. /\ m.line \in Nat /\ m.start \in Nat /\ m.end \in Nat /\ m.start < m.end
      /\ m.line + 1 \in DOMAIN text /\ m.end <= text[m.line + 1].len
  BY DEF IsMatch, Positions
<1>3. text[m.line + 1].len \in Nat
  BY <1>2, LinesAre DEF IsText, IsLine
<1>4. rows \in Seq(Rows) /\ DOMAIN rows = 1..Len(rows) /\ Len(rows) \in Nat
  BY <1>1 DEF Filled
<1>5. \A i \in DOMAIN rows : rows[i].start \in Nat /\ rows[i].end \in Nat
  <2>1. \A i \in DOMAIN rows : rows[i] \in Rows
    BY <1>4
  <2> QED
    BY <2>1 DEF Rows
<1>6. held \subseteq 1..Len(rows)
  BY <1>4 DEF RangeRows
<1>7. \A i \in held : /\ i \in DOMAIN rows
                      /\ rows[i].line = m.line /\ rows[i].start < m.end /\ m.start < rows[i].end
  BY DEF RangeRows
<1>8. PICK b \in DOMAIN rows : rows[b].line = m.line /\ rows[b].start <= m.start
                               /\ m.start < rows[b].end
  <2>1. m.start \in 0..text[view.source[x] + 1].len - 1
    BY <1>2, <1>3
  <2> QED
    BY <1>1, <2>1 DEF RowsHold
<1>9. b \in held
  BY <1>2, <1>5, <1>8 DEF RangeRows
<1>10. Min(held) \in held /\ \A i \in held : Min(held) <= i
  <2>1. held \subseteq Nat
    BY <1>4, <1>6
  <2> HIDE DEF held
  <2> QED
    BY <1>9, <2>1, MinIsLeast
<1>11. Max(held) \in held /\ \A i \in held : i <= Max(held)
  <2>1. held \subseteq 0..Len(rows)
    BY <1>4, <1>6
  <2> HIDE DEF held
  <2> QED
    BY <1>4, <1>9, <2>1, MaxIsGreatest
<1>12. \A i, j \in held : i < j => /\ rows[i].end <= rows[j].start
                                   /\ rows[i].start < rows[i].end
  <2>1. \A i, j \in DOMAIN rows : i < j /\ rows[i].line = rows[j].line =>
          rows[i].end <= rows[j].start /\ rows[i].start < rows[i].end
    BY <1>1 DEF TextRows
  <2> HIDE DEF held
  <2> QED
    BY <1>7, <2>1
<1>13. ASSUME NEW i \in held, rows[i].start <= m.start
       PROVE  i = Min(held)
  <2>1. CASE Min(held) < i
    <3>1. rows[Min(held)].end <= rows[i].start
      BY <1>10, <1>12, <2>1
    <3>2. m.start < rows[Min(held)].end /\ Min(held) \in DOMAIN rows /\ i \in DOMAIN rows
      BY <1>7, <1>10
    <3> QED
      BY <1>2, <1>5, <1>13, <3>1, <3>2
  <2>2. i \in Nat /\ Min(held) \in Nat /\ Min(held) <= i
    BY <1>4, <1>6, <1>10
  <2> QED
    BY <2>1, <2>2
<1>14. b = Min(held)
  BY <1>8, <1>9, <1>13
<1>15. ASSUME NEW i \in Min(held)..Max(held)
       PROVE  i \in held
  <2> DEFINE a == Min(held)
             c == Max(held)
  <2>1. a \in held /\ c \in held /\ a \in Nat /\ c \in Nat /\ c <= Len(rows) /\ 1 <= a
    BY <1>4, <1>6, <1>10, <1>11
  <2>2. i \in DOMAIN rows /\ a <= i /\ i <= c /\ i \in Nat
    BY <1>4, <2>1
  <2> HIDE DEF a, c, held
  <2>3. CASE i = a \/ i = c
    BY <2>1, <2>3
  <2>4. CASE a < i /\ i < c
    <3>1. /\ rows[a].line = m.line /\ rows[c].line = m.line
          /\ a \in DOMAIN rows /\ c \in DOMAIN rows
          /\ m.start < rows[a].end /\ rows[c].start < m.end
      BY <1>7, <2>1
    <3>2. rows[a].line <= rows[i].line /\ rows[i].line <= rows[c].line /\ rows[i].line \in Nat
      BY <1>1, <2>2, <2>4, <3>1 DEF TextRows
    <3>3. rows[i].line = m.line
      BY <1>2, <3>1, <3>2
    <3>4. rows[a].end <= rows[i].start /\ rows[i].start < rows[i].end
          /\ rows[i].end <= rows[c].start
      BY <1>1, <2>2, <2>4, <3>1, <3>3 DEF TextRows
    <3>5. m.start < rows[i].end /\ rows[i].start < m.end
      BY <1>2, <1>5, <2>2, <3>1, <3>4
    <3> QED
      BY <2>2, <3>3, <3>5 DEF RangeRows, held
  <2> QED
    BY <2>1, <2>2, <2>3, <2>4
<1>16. held \subseteq Min(held)..Max(held)
  <2>1. \A i \in held : i \in Nat
    BY <1>4, <1>6
  <2> HIDE DEF held
  <2> QED
    BY <1>10, <1>11, <2>1
<1>17. ASSUME NEW i \in held, NEW j \in held, i # j
       PROVE  rows[i] # rows[j]
  <2>1. i \in Nat /\ j \in Nat /\ i \in DOMAIN rows /\ j \in DOMAIN rows
    BY <1>4, <1>6
  <2>2. CASE i < j
    BY <1>5, <1>12, <2>1, <2>2
  <2>3. CASE j < i
    BY <1>5, <1>12, <2>1, <2>3
  <2> QED
    BY <1>17, <2>1, <2>2, <2>3
<1>18. held = Min(held)..Max(held)
  BY <1>15, <1>16
<1>19. /\ held # {} /\ held \subseteq 1..Len(rows)
       /\ held = Min(held)..Max(held) /\ Min(held) \in held /\ Max(held) \in held
       /\ rows[Min(held)].start <= m.start
       /\ \A i \in held : rows[i].start <= m.start => i = Min(held)
       /\ \A i, j \in held : i # j => rows[i] # rows[j]
  BY <1>6, <1>8, <1>9, <1>10, <1>11, <1>13, <1>14, <1>17, <1>18
<1> QED
  BY <1>19 DEF rows

(* Bringing them into view.                                                *)
ShowsMatch(q, m) ==
  LET held == {row \in ToSet(q.layout.rows) :
                 row.line = m.line /\ row.start < m.end /\ m.start < row.end}
      begins == {row \in held : row.start <= m.start}
  IN /\ begins # {} /\ begins \subseteq ShownRows(q)
     /\ Cardinality(held) < q.viewport.page => held \subseteq ShownRows(q)

LEMMA RangeScroll ==
  ASSUME NEW z, PaneOK(z), z.viewport.len = Len(z.layout.rows), NEW m,
         NEW a \in 1..Len(z.layout.rows), NEW c \in a..Len(z.layout.rows),
         RangeRows(z.layout.rows, m) # {},
         Min(RangeRows(z.layout.rows, m)) = a, Max(RangeRows(z.layout.rows, m)) = c
  PROVE  LET q == EnsureSourceRangeVisible(z, m)
         IN /\ SameBut(z, q)
            /\ q.viewport.page = z.viewport.page /\ q.viewport.len = z.viewport.len
            /\ q.viewport.scroll + 1 <= a /\ a <= q.viewport.scroll + q.viewport.page
            /\ c - a + 1 < q.viewport.page => c <= q.viewport.scroll + q.viewport.page
<1> DEFINE rows == z.layout.rows
           n == Len(rows)
           v == z.viewport
           first == a - 1
           count == c - first
           scroll == IF count = 1 THEN EnsureVisible(v.scroll, first, n, v.page)
                     ELSE EnsureRangeVisible(v.scroll, first, count, n, v.page)
           q == EnsureSourceRangeVisible(z, m)
<1>1. /\ z \in PaneType /\ Sound(v) /\ v \in Viewport /\ v.len = n
      /\ v.scroll \in Nat /\ v.page \in Nat \ {0} /\ v.len \in Nat \ {0}
  BY DEF PaneOK, Sound, Viewport
<1>2. n \in Nat /\ a \in Nat /\ c \in Nat /\ 1 <= a /\ a <= c /\ c <= n
  BY <1>1
<1>3. q = [z EXCEPT !.viewport = SetScroll(v, scroll)]
  <2>1. RangeRows(rows, m) # {}
    OBVIOUS
  <2>2. {i \in DOMAIN rows : rows[i].line = m.line /\ rows[i].start < m.end
                             /\ m.start < rows[i].end} = RangeRows(rows, m)
    BY DEF RangeRows
  <2> QED
    BY <2>1, <2>2 DEF EnsureSourceRangeVisible
<1>4. first \in Nat /\ count \in Nat \ {0} /\ first + count = c /\ first < n /\ first + count <= n
      /\ count = c - a + 1 /\ first + 1 = a
  BY <1>2
<1>5. /\ scroll \in Nat /\ scroll <= MaxScroll(n, v.page)
      /\ scroll <= first /\ first < scroll + v.page
      /\ count < v.page => first + count <= scroll + v.page
  <2> DEFINE page == v.page
             from == v.scroll
             to == EnsureVisible(from, first, n, page)
             range == EnsureRangeVisible(from, first, count, n, page)
  <2>1. page \in Nat \ {0} /\ from \in Nat
    BY <1>1
  <2> HIDE DEF page, from, v, first, count, n
  <2>2. /\ to \in Nat /\ to <= MaxScroll(n, page)
        /\ to <= first /\ first < to + page
    <3>1. DefaultScrolloff \in Nat
      BY DEF DefaultScrolloff
    <3>2. LET t == EnsureVisibleWith(from, first, n, page, DefaultScrolloff)
          IN /\ t \in Nat /\ t <= MaxScroll(n, page)
             /\ t <= first /\ first < t + page
      BY <1>2, <1>4, <2>1, <3>1, ShowsSelected
    <3> QED
      BY <3>2 DEF EnsureVisible
  <2>3. LET t == EnsureRangeVisible(from, first, count, n, page)
        IN /\ t \in Nat /\ t <= MaxScroll(n, page)
           /\ t <= first /\ first < t + page
           /\ count < page => first + count <= t + page
    BY <1>2, <1>4, <2>1, ShowsRange
  <2>4. CASE count = 1
    <3>1. scroll = to
      BY <2>4 DEF from, page
    <3> HIDE DEF to, scroll
    <3> QED
      BY <1>4, <2>1, <2>2, <2>4, <3>1 DEF page
  <2>5. CASE count # 1
    <3>1. scroll = range
      BY <2>5 DEF from, page
    <3> HIDE DEF scroll
    <3> QED
      BY <2>3, <3>1 DEF page
  <2> QED
    BY <2>4, <2>5
<1> HIDE DEF scroll
<1> DEFINE w == SetScroll(v, scroll)
<1>6. /\ Sound(w) /\ w.page = v.page /\ w.len = v.len
      /\ w.scroll = Clamp(scroll, v.len, v.page)
  <2>1. LET u == SetScroll(v, scroll)
        IN /\ Sound(u) /\ u.page = v.page /\ u.len = v.len
           /\ u.scroll = Clamp(scroll, v.len, v.page)
    BY <1>1, <1>5, Scrolls
  <2> QED
    BY <2>1 DEF w
<1>7. w.scroll = scroll
  <2>1. MaxScroll(n, v.page) \in Nat
    BY <1>1, <1>2 DEF MaxScroll, Larger, Less
  <2> QED
    BY <1>1, <1>5, <1>6, <2>1 DEF Clamp, Smaller
<1>8. q = [z EXCEPT !.viewport = w]
  BY <1>3 DEF w
<1> HIDE DEF w, q
<1>9. /\ PaneOK(q) /\ q.viewport = w
      /\ q.width = z.width /\ q.layoutInitialized = z.layoutInitialized /\ q.layout = z.layout
      /\ q.query = z.query /\ q.filter = z.filter /\ q.current = z.current
  <2>1. PaneOK(q)
    BY <1>6, <1>8, Changed
  <2> QED
    BY <1>1, <1>8, <2>1 DEF PaneType
<1>10. SameBut(z, q)
  BY <1>9 DEF SameBut
<1>11. /\ q.viewport.scroll + 1 <= a /\ a <= q.viewport.scroll + q.viewport.page
       /\ c - a + 1 < q.viewport.page => c <= q.viewport.scroll + q.viewport.page
  <2>1. q.viewport.scroll = scroll /\ q.viewport.page = v.page
    BY <1>6, <1>7, <1>9
  <2>t. v.page \in Nat /\ scroll \in Nat /\ first \in Nat /\ a \in Nat
    BY <1>1, <1>2, <1>4, <1>5
  <2>f. first + 1 = a /\ scroll <= first /\ first < scroll + v.page
    BY <1>4, <1>5
  <2>c. c - a + 1 < v.page => c <= scroll + v.page
    BY <1>4, <1>5
  <2> HIDE DEF v, first, count, n
  <2>2. scroll + 1 <= a /\ a <= scroll + v.page
    BY <2>t, <2>f
  <2>3. c - a + 1 < v.page => c <= scroll + v.page
    BY <2>c
  <2> QED
    BY <2>1, <2>2, <2>3
<1>12. q.viewport.page = z.viewport.page /\ q.viewport.len = z.viewport.len
  BY <1>6, <1>9
<1> QED
  BY <1>10, <1>11, <1>12 DEF q

LEMMA ShownAre ==
  ASSUME NEW p, PaneOK(p), NEW i \in 1..Len(p.layout.rows),
         p.viewport.scroll + 1 <= i, i <= p.viewport.scroll + p.viewport.page
  PROVE  p.layout.rows[i] \in ShownRows(p)
<1> DEFINE n == Len(p.layout.rows)
           to == p.viewport.scroll + p.viewport.page
<1>1. p.viewport.scroll \in Nat /\ p.viewport.page \in Nat \ {0}
  BY DEF PaneOK, Sound, Viewport
<1>2. n \in Nat /\ i <= n /\ i \in Nat
  BY DEF PaneOK, LayoutOK, Filled
<1>3. i \in p.viewport.scroll + 1..Smaller(to, n)
  BY <1>1, <1>2 DEF Smaller
<1> QED
  BY <1>3 DEF ShownRows

LEMMA MatchShown ==
  ASSUME NEW text, IsText(text), NEW z, PaneOK(z), z.viewport.len = Len(z.layout.rows),
         z.layout = NewLayout(OutputView(z, text), z.width), z.query \in Queries,
         NEW m, IsMatch(text, z.query, m)
  PROVE  LET q == EnsureSourceRangeVisible(z, m)
         IN SameBut(z, q) /\ q.viewport.len = z.viewport.len /\ ShowsMatch(q, m)
<1> DEFINE rows == z.layout.rows
           range == RangeRows(rows, m)
           a == Min(range)
           c == Max(range)
           q == EnsureSourceRangeVisible(z, m)
<1>0. rows \in Seq(Rows) /\ Len(rows) \in Nat /\ DOMAIN rows = 1..Len(rows)
  BY DEF PaneOK, LayoutOK, Filled
<1>1. /\ range # {} /\ range \subseteq 1..Len(rows)
      /\ range = a..c /\ a \in range /\ c \in range
      /\ rows[a].start <= m.start
      /\ \A i \in range : rows[i].start <= m.start => i = a
      /\ \A i, j \in range : i # j => rows[i] # rows[j]
  <2> DEFINE view == OutputView(z, text)
  <2>1. Shows(view, text)
    BY ViewIs
  <2>2. \A i \in DOMAIN text : ShowsLine(z, text[i]) =>
          \E x \in DOMAIN view.source : view.source[x] = i - 1
    <3>1. LET w == OutputView(z, text)
          IN \A i \in DOMAIN text : ShowsLine(z, text[i]) =>
               \E x \in DOMAIN w.source : w.source[x] = i - 1
      BY ViewIs
    <3> QED
      BY <3>1 DEF view
  <2>3. m.line + 1 \in DOMAIN text /\ m.line \in Nat /\ Hits(text[m.line + 1], z.query) # {}
    BY DEF IsMatch, Positions
  <2>4. PICK x \in DOMAIN view.source : view.source[x] = m.line
    <3>1. ShowsLine(z, text[m.line + 1])
      BY <2>3 DEF ShowsLine
    <3>2. m.line + 1 - 1 = m.line
      BY <2>3
    <3> HIDE DEF view
    <3> QED
      BY <2>2, <2>3, <3>1, <3>2
  <2>5. z.width \in Nat \ {0}
    BY WidthsAre DEF PaneOK
  <2>6. rows = NewLayout(view, z.width).rows
    OBVIOUS
  <2> HIDE DEF view
  <2>7. LET rs == NewLayout(view, z.width).rows
            held == RangeRows(rs, m)
        IN /\ held # {} /\ held \subseteq 1..Len(rs)
           /\ held = Min(held)..Max(held) /\ Min(held) \in held /\ Max(held) \in held
           /\ rs[Min(held)].start <= m.start
           /\ \A i \in held : rs[i].start <= m.start => i = Min(held)
           /\ \A i, j \in held : i # j => rs[i] # rs[j]
    BY <2>1, <2>4, <2>5, RangeHeld
  <2> HIDE DEF rows
  <2> QED
    BY <2>6, <2>7
<1>2. a \in 1..Len(rows) /\ c \in a..Len(rows)
  <2>1. a \in 1..Len(rows) /\ c \in 1..Len(rows) /\ c \in a..c
    BY <1>1
  <2> QED
    BY <1>0, <2>1
<1> HIDE DEF q
<1>3. /\ SameBut(z, q)
      /\ q.viewport.page = z.viewport.page /\ q.viewport.len = z.viewport.len
      /\ q.viewport.scroll + 1 <= a /\ a <= q.viewport.scroll + q.viewport.page
      /\ c - a + 1 < q.viewport.page => c <= q.viewport.scroll + q.viewport.page
  <2> DEFINE b == a
             d == c
  <2>1. /\ b \in 1..Len(z.layout.rows) /\ d \in b..Len(z.layout.rows)
        /\ RangeRows(z.layout.rows, m) # {}
        /\ Min(RangeRows(z.layout.rows, m)) = b /\ Max(RangeRows(z.layout.rows, m)) = d
    BY <1>1, <1>2
  <2> HIDE DEF b, d
  <2>2. LET r == EnsureSourceRangeVisible(z, m)
        IN /\ SameBut(z, r)
           /\ r.viewport.page = z.viewport.page /\ r.viewport.len = z.viewport.len
           /\ r.viewport.scroll + 1 <= b /\ b <= r.viewport.scroll + r.viewport.page
           /\ d - b + 1 < r.viewport.page => d <= r.viewport.scroll + r.viewport.page
    BY <2>1, RangeScroll
  <2> QED
    BY <2>2 DEF q, b, d
<1>4. q.layout.rows = rows /\ PaneOK(q)
  BY <1>3 DEF SameBut
<1> DEFINE held == {row \in ToSet(q.layout.rows) :
                      row.line = m.line /\ row.start < m.end /\ m.start < row.end}
           begins == {row \in held : row.start <= m.start}
<1>5. held = {rows[i] : i \in a..c}
  <2>1. ToSet(rows) = {rows[i] : i \in DOMAIN rows}
    BY DEF ToSet
  <2>2. range = {i \in DOMAIN rows : rows[i].line = m.line /\ rows[i].start < m.end
                                     /\ m.start < rows[i].end}
    BY DEF RangeRows
  <2>3. held = {rows[i] : i \in range}
    <3> HIDE DEF rows, range
    <3> QED
      BY <1>4, <2>1, <2>2
  <2> QED
    BY <1>1, <2>3
<1>6. begins = {rows[a]}
  <2>1. a \in a..c
    BY <1>1
  <2>2. \A i \in a..c : rows[i].start <= m.start => i = a
    BY <1>1
  <2> HIDE DEF held, rows, a, c
  <2> QED
    BY <1>1, <1>5, <2>1, <2>2
<1>7. rows[a] \in ShownRows(q)
  BY <1>2, <1>3, <1>4, ShownAre
<1>8. ASSUME Cardinality(held) < q.viewport.page
      PROVE  held \subseteq ShownRows(q)
  <2>0. a \in Nat /\ c \in Nat /\ a <= c
    BY <1>0, <1>2
  <2>1. Cardinality(held) = c - a + 1
    <3> DEFINE I == a..c
    <3>1. IsFiniteSet(I) /\ Cardinality(I) = c - a + 1
      BY <2>0, FS_Interval
    <3>2. \A i, j \in I : i # j => rows[i] # rows[j]
      BY <1>1
    <3> DEFINE g == [i \in I |-> rows[i]]
    <3>3. g \in Bijection(I, held)
      <4> HIDE DEF I, held, rows, a, c
      <4>1. held = {rows[i] : i \in I}
        BY <1>5 DEF I
      <4>2. g \in [I -> held]
        BY <4>1
      <4>3. g \in Injection(I, held)
        BY <3>2, <4>2 DEF Injection, IsInjective
      <4>4. g \in Surjection(I, held)
        BY <4>1, <4>2 DEF Surjection
      <4> QED
        BY <4>3, <4>4 DEF Bijection
    <3>4. ExistsBijection(I, held)
      BY <3>3 DEF ExistsBijection
    <3> HIDE DEF g, I, held
    <3>5. Cardinality(held) = Cardinality(I)
      BY <3>1, <3>4, FS_Bijection
    <3> QED
      BY <3>1, <3>5
  <2>2. c <= q.viewport.scroll + q.viewport.page
    BY <1>3, <1>8, <2>1
  <2>3. q.viewport.scroll \in Nat /\ q.viewport.page \in Nat
    BY <1>4 DEF PaneOK, Sound, Viewport
  <2>4. ASSUME NEW i \in a..c
        PROVE  rows[i] \in ShownRows(q)
    <3> DEFINE e == a
               f == c
               s == q.viewport.scroll
               t == q.viewport.page
    <3>1. /\ i \in Nat /\ e <= i /\ i <= f /\ e \in Nat /\ f \in Nat /\ f <= Len(rows) /\ 1 <= e
          /\ s + 1 <= e /\ f <= s + t /\ s \in Nat /\ t \in Nat
      BY <1>0, <1>2, <1>3, <2>0, <2>2, <2>3
    <3> HIDE DEF e, f, s, t
    <3>2. i \in 1..Len(rows) /\ s + 1 <= i /\ i <= s + t
      BY <1>0, <3>1
    <3> QED
      BY <1>4, <3>2, ShownAre DEF s, t
  <2> HIDE DEF held, a, c, rows
  <2> QED
    BY <1>5, <2>4
<1>9. ShowsMatch(q, m)
  <2>1. begins # {} /\ begins \subseteq ShownRows(q)
    BY <1>6, <1>7
  <2> QED
    BY <1>8, <2>1 DEF ShowsMatch
<1> QED
  BY <1>3, <1>9 DEF q

LEMMA RangeKeeps ==
  ASSUME NEW z, PaneOK(z), z.viewport.len = Len(z.layout.rows), NEW m
  PROVE  SameBut(z, EnsureSourceRangeVisible(z, m))
<1> DEFINE range == RangeRows(z.layout.rows, m)
<1>0. z.layout.rows \in Seq(Rows) /\ Len(z.layout.rows) \in Nat
      /\ DOMAIN z.layout.rows = 1..Len(z.layout.rows)
  BY DEF PaneOK, LayoutOK, Filled
<1>1. range \subseteq 1..Len(z.layout.rows)
  BY <1>0 DEF RangeRows
<1>2. CASE range = {}
  <2>1. {i \in DOMAIN z.layout.rows :
           /\ z.layout.rows[i].line = m.line
           /\ z.layout.rows[i].start < m.end
           /\ m.start < z.layout.rows[i].end} = range
    BY DEF RangeRows
  <2>2. EnsureSourceRangeVisible(z, m) = z
    BY <1>2, <2>1 DEF EnsureSourceRangeVisible
  <2> QED
    BY <2>2 DEF SameBut
<1>3. CASE range # {}
  <2> DEFINE a == Min(range)
             c == Max(range)
  <2>1. a \in range /\ c \in range /\ a <= c
    <3>1. range \subseteq Nat /\ range \subseteq 0..Len(z.layout.rows)
      BY <1>0, <1>1
    <3> HIDE DEF range
    <3>2. a \in range /\ \A t \in range : a <= t
      BY <1>3, <3>1, MinIsLeast
    <3>3. c \in range
      BY <1>0, <1>3, <3>1, MaxIsGreatest
    <3> QED
      BY <3>2, <3>3
  <2>2. a \in 1..Len(z.layout.rows) /\ c \in a..Len(z.layout.rows)
    BY <1>0, <1>1, <2>1
  <2> HIDE DEF a, c
  <2>3. LET q == EnsureSourceRangeVisible(z, m)
        IN SameBut(z, q)
    BY <1>3, <2>2, RangeScroll DEF a, c
  <2> QED
    BY <2>3
<1> QED
  BY <1>2, <1>3

-----------------------------------------------------------------------------
(* What each handler makes of a pane.                                      *)
LaidFor(p, sel, n) ==
  p.layoutInitialized => \E m \in Until(n) : Shows(p.layout.view, TextOf(sel, m))

KeepsSearch(p, q) == PaneOK(q) /\ q.query = p.query /\ q.current = p.current

LEMMA LaidNow ==
  ASSUME NEW p, NEW sel, NEW n \in Versions, IsText(TextOf(sel, n)), NEW page, NEW q,
         Prepared(p, TextOf(sel, n), page, q)
  PROVE  LaidFor(q, sel, n) /\ Shows(q.layout.view, TextOf(sel, n))
<1>1. q.layout.view = OutputView(p, TextOf(sel, n))
  BY DEF Prepared
<1>2. LET view == OutputView(p, TextOf(sel, n))
      IN Shows(view, TextOf(sel, n))
  BY ViewIs
<1>3. n \in Until(n)
  BY DEF Until
<1> QED
  BY <1>1, <1>2, <1>3 DEF LaidFor

LEMMA ScrolledTo ==
  ASSUME NEW p, PaneOK(p), NEW sel, NEW n \in Versions, IsText(TextOf(sel, n)), LaidFor(p, sel, n)
  PROVE  LET q == ScrollToCurrent(p, TextOf(sel, n))
         IN KeepsSearch(p, q) /\ LaidFor(q, sel, n)
<1> DEFINE text == TextOf(sel, n)
           z == SyncLayout(p, text)
           q == ScrollToCurrent(p, text)
<1>1. CASE p.current = Absent
  <2>1. q = p
    BY <1>1 DEF ScrollToCurrent
  <2> QED
    BY <2>1 DEF KeepsSearch
<1>2. CASE p.current # Absent
  <2>1. Prepared(p, text, p.viewport.page, z)
    <3>1. LET y == SyncLayout(p, text)
          IN Prepared(p, text, p.viewport.page, y) /\ Anchored(p, p.viewport.page, y)
      <4> HIDE DEF text
      <4> QED
        BY SyncIs DEF text
    <3> QED
      BY <3>1
  <2>2. LaidFor(z, sel, n)
    <3> HIDE DEF z
    <3> QED
      BY <2>1, LaidNow
  <2>3. q = EnsureSourceRangeVisible(z, p.current)
    BY <1>2 DEF ScrollToCurrent
  <2> HIDE DEF z, q
  <2>4. /\ PaneOK(z) /\ z.viewport.len = Len(z.layout.rows)
        /\ z.width = p.width /\ z.query = p.query /\ z.filter = p.filter /\ z.current = p.current
    BY <2>1 DEF Prepared
  <2>5. SameBut(z, q)
    BY <2>3, <2>4, RangeKeeps
  <2>6. KeepsSearch(p, q)
    BY <2>4, <2>5 DEF SameBut, KeepsSearch
  <2>7. LaidFor(q, sel, n)
    BY <2>2, <2>5 DEF SameBut, LaidFor
  <2> QED
    BY <2>6, <2>7 DEF q
<1> QED
  BY <1>1, <1>2

(* Laid out in full, at the place where the pane was.                      *)
EmptiedQuery(p, text, q) ==
  /\ PaneOK(q)
  /\ q.width = p.width /\ q.query = NoQuery /\ q.current = Absent
  /\ q.viewport.follow = FALSE /\ q.viewport.len = Len(q.layout.rows)
  /\ q.layout.width = q.width
  /\ Shows(q.layout.view, text)
  /\ q.layout.view.source # <<>>
  /\ q.layout = NewLayout(q.layout.view, q.width)
  /\ TopRow(p).line # Absent /\ Held(q, TopRow(p).line, TopRow(p).start) # {} =>
       q.viewport.scroll = Clamp(Min(Held(q, TopRow(p).line, TopRow(p).start)) - 1,
                                 q.viewport.len, q.viewport.page)

LEMMA EmptiedIs ==
  ASSUME NEW p, PaneOK(p), NEW text, IsText(text)
  PROVE  EmptiedQuery(p, text, EmptyQuery(p, text))
<1> DEFINE pos == TopPosition(p)
           asked == [p EXCEPT !.query = NoQuery]
           cleared == [asked EXCEPT !.current = Absent]
           z == SyncLayout(cleared, text)
           r == RestorePosition(z, pos)
           q == DisableSnap(r)
<1>0. EmptyQuery(p, text) = q
  BY DEF EmptyQuery, ClearCurrentMatch
<1>1. /\ PaneOK(asked) /\ asked.query = NoQuery /\ asked.width = p.width
      /\ asked.filter = p.filter /\ asked.viewport = p.viewport
  <2>1. PaneOK(asked)
    BY Changed
  <2> QED
    BY <2>1 DEF PaneOK, PaneType
<1> HIDE DEF asked
<1>2. /\ PaneOK(cleared) /\ cleared.query = NoQuery /\ cleared.width = p.width
      /\ cleared.current = Absent
  <2>1. PaneOK(cleared)
    BY <1>1, Changed
  <2>2. asked \in PaneType
    BY <1>1 DEF PaneOK
  <2> QED
    BY <1>1, <2>1, <2>2 DEF PaneType
<1> HIDE DEF cleared
<1>3. Prepared(cleared, text, cleared.viewport.page, z)
  <2>1. LET y == SyncLayout(cleared, text)
        IN Prepared(cleared, text, cleared.viewport.page, y)
             /\ Anchored(cleared, cleared.viewport.page, y)
    BY <1>2, SyncIs
  <2> QED
    BY <2>1
<1> HIDE DEF z
<1> DEFINE view == OutputView(cleared, text)
<1>4. Shows(view, text) /\ view.source # <<>>
  <2>1. LET w == OutputView(cleared, text)
        IN /\ Shows(w, text)
           /\ \A i \in DOMAIN text :
                ShowsLine(cleared, text[i]) => \E x \in DOMAIN w.source : w.source[x] = i - 1
    BY ViewIs
  <2>2. Shows(view, text)
    BY <2>1
  <2>3. 1 \in DOMAIN text
    BY DEF IsText
  <2>4. ShowsLine(cleared, text[1])
    BY <1>2 DEF ShowsLine
  <2>5. \E x \in DOMAIN view.source : view.source[x] = 1 - 1
    BY <2>1, <2>3, <2>4
  <2> HIDE DEF view
  <2>6. view.source # <<>>
    BY <2>5
  <2> QED
    BY <2>2, <2>6
<1>5. /\ PaneOK(z) /\ z.layout = NewLayout(view, p.width) /\ z.layout.view = view
      /\ z.layout.width = p.width /\ z.width = p.width /\ z.query = NoQuery
      /\ z.current = Absent /\ z.viewport.len = Len(z.layout.rows)
  BY <1>2, <1>3 DEF Prepared
<1> HIDE DEF view
<1>6. /\ r = [z EXCEPT !.viewport = r.viewport]
      /\ PaneOK(r)
      /\ r.viewport.page = z.viewport.page /\ r.viewport.len = z.viewport.len
      /\ pos = Absent => r = z
      /\ pos # Absent /\ Held(z, pos.line, pos.offset) # {} =>
           r.viewport.scroll = Clamp(Min(Held(z, pos.line, pos.offset)) - 1,
                                     z.viewport.len, z.viewport.page)
  <2> HIDE DEF pos
  <2>1. LET s == RestorePosition(z, pos)
        IN /\ s = [z EXCEPT !.viewport = s.viewport]
           /\ PaneOK(s)
           /\ s.viewport.page = z.viewport.page /\ s.viewport.len = z.viewport.len
           /\ s.viewport.follow = z.viewport.follow
           /\ pos = Absent => s = z
           /\ pos # Absent /\ Held(z, pos.line, pos.offset) # {} =>
                s.viewport.scroll = Clamp(Min(Held(z, pos.line, pos.offset)) - 1,
                                          z.viewport.len, z.viewport.page)
    BY <1>5, RestoreIs
  <2> QED
    BY <2>1
<1> HIDE DEF r
<1>7. /\ r.layout = z.layout /\ r.width = z.width /\ r.query = z.query /\ r.current = z.current
  <2>1. z \in PaneType
    BY <1>5 DEF PaneOK
  <2> QED
    BY <1>6, <2>1 DEF PaneType
<1>8. /\ SameBut(r, q)
      /\ q.viewport.page = r.viewport.page /\ q.viewport.len = r.viewport.len
      /\ q.viewport.scroll = r.viewport.scroll /\ q.viewport.follow = FALSE
  <2>1. LET s == DisableSnap(r)
        IN /\ SameBut(r, s)
           /\ s.viewport.page = r.viewport.page /\ s.viewport.len = r.viewport.len
           /\ s.viewport.scroll = r.viewport.scroll /\ s.viewport.follow = FALSE
           /\ TopRow(s) = TopRow(r)
           /\ TopPosition(s) = TopPosition(r)
           /\ ShownRows(s) = ShownRows(r)
    BY <1>6, Freed
  <2> QED
    BY <2>1
<1> HIDE DEF q
<1>9. /\ PaneOK(q) /\ q.layout = r.layout /\ q.width = r.width /\ q.query = r.query
      /\ q.current = r.current
  BY <1>8 DEF SameBut
<1>10. ASSUME TopRow(p).line # Absent, Held(q, TopRow(p).line, TopRow(p).start) # {}
       PROVE  q.viewport.scroll = Clamp(Min(Held(q, TopRow(p).line, TopRow(p).start)) - 1,
                                        q.viewport.len, q.viewport.page)
  <2>1. pos = [line |-> TopRow(p).line, offset |-> TopRow(p).start]
    BY <1>10 DEF pos, TopPosition
  <2>2. TopRow(p).line \in Nat /\ TopRow(p).start \in Nat
    BY <1>10, TopIs DEF Rows
  <2>3. pos # Absent /\ pos.line = TopRow(p).line /\ pos.offset = TopRow(p).start
    BY <2>1, <2>2, LinesAssumption
  <2>4. \A l, o : Held(z, l, o) = Held(q, l, o)
    BY <1>7, <1>9 DEF Held
  <2> QED
    BY <1>6, <1>8, <1>10, <2>3, <2>4
<1>11. q.layout.view = view /\ q.layout.width = q.width
       /\ q.layout = NewLayout(q.layout.view, q.width)
  BY <1>5, <1>7, <1>9
<1>12. q.viewport.len = Len(q.layout.rows)
  BY <1>5, <1>6, <1>7, <1>8, <1>9
<1>13. q.width = p.width /\ q.query = NoQuery /\ q.current = Absent
  BY <1>5, <1>7, <1>9
<1>14. EmptiedQuery(p, text, q)
  BY <1>4, <1>8, <1>9, <1>10, <1>11, <1>12, <1>13 DEF EmptiedQuery
<1> QED
  BY <1>0, <1>14

(* Brought to a match.                                                     *)
Brought(p, q, m, sel, n) ==
  /\ PaneOK(q) /\ LaidFor(q, sel, n)
  /\ q.query = p.query /\ q.current = m
  /\ ShowsMatch(q, m)

LEMMA FoundTo ==
  ASSUME NEW p, PaneOK(p), NEW sel, NEW n \in Versions, IsText(TextOf(sel, n)),
         NEW m, IsMatch(TextOf(sel, n), p.query, m), p.query \in Queries
  PROVE  LET q == ScrollToCurrent(SetCurrentMatch(p, m), TextOf(sel, n))
         IN Brought(p, q, m, sel, n) /\ Brought(p, DisableSnap(q), m, sel, n)
<1> DEFINE text == TextOf(sel, n)
           c == SetCurrentMatch(p, m)
           z == SyncLayout(c, text)
           e == EnsureSourceRangeVisible(z, m)
           q == DisableSnap(e)
<1>1. m \in Positions /\ m # Absent
  BY LinesAssumption DEF IsMatch, Positions
<1>2. PaneOK(c) /\ c.current = m /\ c.query = p.query
  <2>1. c = [p EXCEPT !.current = m]
    BY DEF SetCurrentMatch
  <2>2. PaneOK([p EXCEPT !.current = m])
    BY <1>1, Changed
  <2> HIDE DEF c
  <2> QED
    BY <2>1, <2>2 DEF PaneOK, PaneType
<1>3. ScrollToCurrent(c, text) = e
  BY <1>1, <1>2 DEF ScrollToCurrent
<1> HIDE DEF c
<1>4. Prepared(c, text, c.viewport.page, z)
  <2>1. LET y == SyncLayout(c, text)
        IN Prepared(c, text, c.viewport.page, y) /\ Anchored(c, c.viewport.page, y)
    <3> HIDE DEF text
    <3> QED
      BY <1>2, SyncIs DEF text
  <2> QED
    BY <2>1
<1>5. LaidFor(z, sel, n)
  <2> HIDE DEF z
  <2> QED
    BY <1>4, LaidNow
<1> HIDE DEF z
<1>6. /\ PaneOK(z) /\ z.viewport.len = Len(z.layout.rows)
      /\ z.query = p.query /\ z.current = m
      /\ z.layout = NewLayout(OutputView(z, text), z.width)
  <2>1. OutputView(z, text) = OutputView(c, text)
    BY <1>4, SameView DEF Prepared
  <2> QED
    BY <1>2, <1>4, <2>1 DEF Prepared
<1>7. SameBut(z, e) /\ ShowsMatch(e, m)
  <2>1. LET r == EnsureSourceRangeVisible(z, m)
        IN SameBut(z, r) /\ r.viewport.len = z.viewport.len /\ ShowsMatch(r, m)
    <3> HIDE DEF text
    <3> QED
      BY <1>6, MatchShown DEF text
  <2> QED
    BY <2>1
<1> HIDE DEF e
<1>8. PaneOK(e)
  BY <1>7 DEF SameBut
<1>9. SameBut(e, q) /\ ShownRows(q) = ShownRows(e) /\ q.viewport.page = e.viewport.page
  <2>1. LET s == DisableSnap(e)
        IN /\ SameBut(e, s)
           /\ s.viewport.page = e.viewport.page /\ s.viewport.len = e.viewport.len
           /\ s.viewport.scroll = e.viewport.scroll /\ s.viewport.follow = FALSE
           /\ TopRow(s) = TopRow(e)
           /\ TopPosition(s) = TopPosition(e)
           /\ ShownRows(s) = ShownRows(e)
    BY <1>8, Freed
  <2> QED
    BY <2>1
<1> HIDE DEF q
<1>10. PaneOK(q) /\ q.query = p.query /\ q.current = m
       /\ q.layout = e.layout /\ q.layoutInitialized = e.layoutInitialized
  BY <1>6, <1>7, <1>9 DEF SameBut
<1>11. LaidFor(q, sel, n)
  BY <1>5, <1>7, <1>10 DEF LaidFor, SameBut
<1>12. ShowsMatch(q, m)
  BY <1>7, <1>9, <1>10 DEF ShowsMatch
<1>13. e = ScrollToCurrent(SetCurrentMatch(p, m), TextOf(sel, n)) /\ q = DisableSnap(e)
  BY <1>3 DEF q, c
<1>14. Brought(p, e, m, sel, n)
  BY <1>5, <1>6, <1>7, <1>8 DEF Brought, SameBut, LaidFor
<1>15. Brought(p, q, m, sel, n)
  BY <1>10, <1>11, <1>12 DEF Brought
<1> QED
  BY <1>13, <1>14, <1>15
-----------------------------------------------------------------------------
(* The invariant, kept by each action.                                     *)
LEMMA AtEnd ==
  ASSUME PaneIInv
  PROVE  /\ arrived \in Versions /\ SourceText = TextOf(selected, arrived)
         /\ IsText(SourceText) /\ IsText(TextOf(selected, arrived))
         /\ PaneOK(pane) /\ LaidFor(pane, selected, arrived)
<1>1. selected \in {"Live", "Other"} /\ arrived \in Versions /\ PaneOK(pane)
  BY DEF PaneIInv
<1>2. IsText(TextOf(selected, arrived))
  BY <1>1, TextsAre
<1>3. arrived \in Versions
  BY <1>1
<1>4. LaidFor(pane, selected, arrived)
  BY DEF PaneIInv, LaidInv, LaidFor
<1> QED
  BY <1>1, <1>2, <1>3, <1>4, SourceIs

LEMMA Kept ==
  ASSUME PaneIInv, UNCHANGED <<selected, arrived, found>>, drawn' = Absent,
         KeepsSearch(pane, pane'), LaidFor(pane', selected, arrived)
  PROVE  PaneIInv'
<1>1. PaneOK(pane') /\ pane'.query = pane.query /\ pane'.current = pane.current
  BY DEF KeepsSearch
<1>2. /\ selected' \in {"Live", "Other"} /\ arrived' \in Versions
      /\ selected' = selected /\ arrived' = arrived
  BY DEF PaneIInv
<1>3. LaidInv'
  BY <1>2 DEF LaidInv, LaidFor
<1>4. QueryInv'
  BY <1>1 DEF PaneIInv, QueryInv
<1>5. FoundInv'
  BY <1>1 DEF PaneIInv, FoundInv
<1>6. DrawnInv'
  BY DEF DrawnInv
<1> QED
  BY <1>1, <1>2, <1>3, <1>4, <1>5, <1>6 DEF PaneIInv

(* Something more arrives in the run.                                      *)
Arrives ==
  /\ arrived.summary = "None"
  /\ arrived' \in Versions
  /\ arrived'.lines >= arrived.lines
  /\ arrived.failed => arrived'.failed
  /\ UNCHANGED <<selected, pane, drawn, found>>

LEMMA Arrivals ==
  ASSUME PaneIInv, TestPrints \/ TestFails \/ RunEnds
  PROVE  Arrives
<1>1. arrived \in Versions /\ Len(Live) \in Nat
  BY LinesAssumption DEF PaneIInv
<1> DEFINE a == arrived
<1>2. /\ a = [lines |-> a.lines, failed |-> a.failed, summary |-> a.summary]
      /\ a.lines \in 0..Len(Live) /\ a.failed \in BOOLEAN
  BY <1>1 DEF Versions
<1>3. CASE TestPrints
  <2>1. PICK lines \in arrived.lines + 1..Len(Live) : arrived' = [arrived EXCEPT !.lines = lines]
    BY <1>3 DEF TestPrints
  <2>2. arrived' = [lines |-> lines, failed |-> a.failed, summary |-> a.summary]
    BY <1>2, <2>1
  <2>3. lines \in 0..Len(Live) /\ lines >= a.lines
    BY <1>1, <1>2
  <2>4. a.summary = "None" /\ UNCHANGED <<selected, pane, drawn, found>>
    BY <1>3 DEF TestPrints
  <2> QED
    BY <1>2, <2>2, <2>3, <2>4 DEF Arrives, Versions
<1>4. CASE TestFails
  <2>1. PICK lines \in arrived.lines..Len(Live) :
          arrived' = [arrived EXCEPT !.lines = lines, !.failed = TRUE]
    BY <1>4 DEF TestFails
  <2>2. arrived' = [lines |-> lines, failed |-> TRUE, summary |-> a.summary]
    BY <1>2, <2>1
  <2>3. lines \in 0..Len(Live) /\ lines >= a.lines
    BY <1>1, <1>2
  <2>4. a.summary = "None" /\ UNCHANGED <<selected, pane, drawn, found>>
    BY <1>4 DEF TestFails
  <2> QED
    BY <1>2, <2>2, <2>3, <2>4 DEF Arrives, Versions
<1>5. CASE RunEnds
  <2>1. arrived' = [lines |-> a.lines, failed |-> a.failed, summary |-> "Run"]
    BY <1>2, <1>5 DEF RunEnds
  <2>2. a.summary = "None" /\ UNCHANGED <<selected, pane, drawn, found>>
    BY <1>5 DEF RunEnds
  <2>3. a.lines >= a.lines
    BY <1>2
  <2> QED
    BY <1>2, <2>1, <2>2, <2>3 DEF Arrives, Versions
<1> QED
  BY <1>3, <1>4, <1>5

LEMMA ArrivesKeeps ==
  ASSUME PaneIInv, Arrives
  PROVE  PaneIInv'
<1>1. /\ arrived' \in Versions
      /\ selected' = selected /\ pane' = pane /\ drawn' = drawn /\ found' = found
  BY DEF Arrives
<1>2. arrived \in Versions
  BY DEF PaneIInv
<1>3. \A v \in Until(arrived) : v \in Until(arrived')
  <2> SUFFICES ASSUME NEW v \in Until(arrived)
               PROVE  v \in Until(arrived')
    OBVIOUS
  <2>1. /\ v \in Versions /\ v.summary = "None" /\ v.lines <= arrived.lines
        /\ v.failed => arrived.failed
    BY <1>2 DEF Until, Arrives, Versions
  <2>2. v.lines \in Nat /\ arrived.lines \in Nat /\ arrived'.lines \in Nat
    BY <1>1, <1>2, <2>1, LinesAssumption DEF Versions
  <2>3. v.lines <= arrived'.lines
    BY <2>1, <2>2 DEF Arrives
  <2> QED
    BY <2>1, <2>3 DEF Until, Arrives
<1>4. LaidInv'
  BY <1>1, <1>3 DEF PaneIInv, LaidInv
<1>5. QueryInv'
  BY <1>1 DEF PaneIInv, QueryInv
<1>6. FoundInv'
  BY <1>1, <1>3 DEF PaneIInv, FoundInv
<1>7. DrawnInv'
  BY <1>1 DEF PaneIInv, DrawnInv, Place, TopRow
<1>8. PaneOK(pane') /\ selected' \in {"Live", "Other"}
  BY <1>1 DEF PaneIInv
<1> QED
  BY <1>1, <1>4, <1>5, <1>6, <1>7, <1>8 DEF PaneIInv

(* A pane that is to show another text, at its end or at its start.        *)
LEMMA ResetKeeps ==
  ASSUME PaneIInv, NEW v \in {ResetForSourceChange(pane.viewport), ResetToStart(pane.viewport)},
         pane' = [pane EXCEPT !.viewport = v, !.layoutInitialized = FALSE, !.current = Absent],
         drawn' = Absent, found' = Absent, arrived' \in Versions, selected' \in {"Live", "Other"}
  PROVE  PaneIInv'
<1>2. PaneOK(pane) /\ pane \in PaneType
  BY DEF PaneIInv, PaneOK
<1> DEFINE p1 == [pane EXCEPT !.viewport = v]
           p2 == [p1 EXCEPT !.current = Absent]
<1>3. Sound(v)
  <2>1. Sound(ResetForSourceChange(pane.viewport)) /\ Sound(ResetToStart(pane.viewport))
    BY <1>2, StaysSound DEF PaneOK
  <2> QED
    BY <2>1
<1>4. PaneOK(p1)
  BY <1>2, <1>3, Changed
<1>5. PaneOK(p2)
  <2> HIDE DEF p1
  <2> QED
    BY <1>4, Changed
<1>6. /\ pane' = [p2 EXCEPT !.layoutInitialized = FALSE] /\ p2 \in PaneType
      /\ p2.current = Absent
  BY <1>2, <1>5 DEF PaneType, PaneOK
<1> HIDE DEF p2
<1>7. /\ pane' \in PaneType /\ pane'.layoutInitialized = FALSE /\ pane'.current = Absent
      /\ pane'.width = p2.width /\ pane'.viewport = p2.viewport /\ pane'.layout = p2.layout
  BY <1>6 DEF PaneType
<1>8. PaneOK(pane')
  BY <1>5, <1>7 DEF PaneOK
<1>9. LaidInv' /\ QueryInv' /\ FoundInv' /\ DrawnInv'
  BY <1>7 DEF LaidInv, QueryInv, FoundInv, DrawnInv
<1> QED
  BY <1>8, <1>9 DEF PaneIInv

LEMMA ResetsKeep ==
  ASSUME PaneIInv, Select \/ CommandFails \/ BeginRun
  PROVE  PaneIInv'
<1> DEFINE end == ResetForSourceChange(pane.viewport)
           start == ResetToStart(pane.viewport)
<1>0. arrived \in Versions /\ selected \in {"Live", "Other"} /\ PaneOK(pane) /\ pane \in PaneType
  BY DEF PaneIInv, PaneOK
<1>1. /\ ResetPane(pane) = [pane EXCEPT !.viewport = end, !.layoutInitialized = FALSE,
                                        !.current = Absent]
      /\ ResetPaneToStart(pane) = [pane EXCEPT !.viewport = start, !.layoutInitialized = FALSE,
                                               !.current = Absent]
  BY DEF ResetPane, ResetPaneToStart
<1>2. CASE Select
  <2>1. /\ pane' = ResetPane(pane) /\ drawn' = Absent /\ found' = Absent
        /\ arrived' \in Versions /\ selected' \in {"Live", "Other"}
    BY <1>0, <1>2 DEF Select
  <2> HIDE DEF end
  <2> QED
    BY <1>1, <2>1, ResetKeeps DEF end
<1>3. CASE CommandFails
  <2>1. arrived' = [lines |-> arrived.lines, failed |-> arrived.failed, summary |-> "Command"]
    BY <1>0, <1>3 DEF CommandFails, Versions
  <2>2. arrived' \in Versions
    BY <1>0, <2>1 DEF Versions
  <2>3. /\ pane' = ResetPaneToStart(pane) /\ drawn' = Absent /\ found' = Absent
        /\ selected' \in {"Live", "Other"}
    BY <1>0, <1>3 DEF CommandFails
  <2> HIDE DEF start
  <2> QED
    BY <1>1, <2>2, <2>3, ResetKeeps DEF start
<1>4. CASE BeginRun
  <2>1. NothingArrived \in Versions
    BY LinesAssumption DEF NothingArrived, Versions
  <2>2. /\ pane' = ResetPane(pane) /\ drawn' = Absent /\ found' = Absent
        /\ arrived' \in Versions /\ selected' \in {"Live", "Other"}
    BY <1>0, <1>4, <2>1 DEF BeginRun
  <2> HIDE DEF end
  <2> QED
    BY <1>1, <2>2, ResetKeeps DEF end
<1> QED
  BY <1>2, <1>3, <1>4

LEMMA SyncedIs ==
  ASSUME PaneIInv, NEW p, PaneOK(p), p.query = pane.query, p.current = pane.current,
         NEW page \in Nat \ {0}
  PROVE  LET q == PrepareLayout(p, SourceText, page)
         IN /\ Prepared(p, SourceText, page, q)
            /\ KeepsSearch(pane, q)
            /\ LaidFor(q, selected, arrived)
<1> DEFINE q == PrepareLayout(p, SourceText, page)
<1>1. IsText(SourceText) /\ arrived \in Versions /\ SourceText = TextOf(selected, arrived)
  BY AtEnd
<1>2. Prepared(p, SourceText, page, q)
  BY <1>1, PrepareIs
<1> HIDE DEF q
<1>3. KeepsSearch(pane, q)
  BY <1>2 DEF Prepared, KeepsSearch
<1>4. LaidFor(q, selected, arrived)
  BY <1>1, <1>2, LaidNow
<1> QED
  BY <1>2, <1>3, <1>4 DEF q

LEMMA PagesAre ==
  ASSUME NEW page \in Pages
  PROVE  page \in Nat \ {0}
BY LinesAssumption

LEMMA ScrolledViewport ==
  ASSUME NEW p, PaneOK(p), NEW v, Sound(v), NEW sel, NEW n, LaidFor(p, sel, n)
  PROVE  LET q == [p EXCEPT !.viewport = v]
         IN KeepsSearch(p, q) /\ LaidFor(q, sel, n)
<1> DEFINE q == [p EXCEPT !.viewport = v]
<1>1. PaneOK(q) /\ p \in PaneType
  BY Changed DEF PaneOK
<1>2. /\ q.query = p.query /\ q.current = p.current /\ q.layout = p.layout
      /\ q.layoutInitialized = p.layoutInitialized
  BY <1>1 DEF PaneType
<1> HIDE DEF q
<1>3. KeepsSearch(p, q) /\ LaidFor(q, sel, n)
  BY <1>1, <1>2 DEF KeepsSearch, LaidFor
<1> QED
  BY <1>3 DEF q

LEMMA FrameKeeps ==
  ASSUME PaneIInv, NEW page \in Pages, NEW width \in Widths, Frame(page, width)
  PROVE  /\ PaneIInv'
         /\ Prepared([pane EXCEPT !.width = width], SourceText, page, pane')
<1> DEFINE p == [pane EXCEPT !.width = width]
<1>1. /\ pane' = PrepareLayout(p, SourceText, page) /\ drawn' = Place(pane')
      /\ selected' = selected /\ arrived' = arrived /\ found' = found
  BY DEF Frame
<1>2. /\ PaneOK(p) /\ p.query = pane.query /\ p.current = pane.current
  <2>1. PaneOK(pane)
    BY AtEnd
  <2>2. PaneOK(p)
    BY <2>1, Changed
  <2> QED
    BY <2>1, <2>2 DEF PaneOK, PaneType
<1> HIDE DEF p
<1>3. /\ Prepared(p, SourceText, page, pane') /\ KeepsSearch(pane, pane')
      /\ LaidFor(pane', selected, arrived)
  <2>1. page \in Nat \ {0}
    BY PagesAre
  <2>2. LET q == PrepareLayout(p, SourceText, page)
        IN /\ Prepared(p, SourceText, page, q)
           /\ KeepsSearch(pane, q)
           /\ LaidFor(q, selected, arrived)
    BY <1>2, <2>1, SyncedIs
  <2> QED
    BY <1>1, <2>2
<1>4. PaneOK(pane') /\ pane'.query = pane.query /\ pane'.current = pane.current
  BY <1>3 DEF KeepsSearch
<1>5. LaidInv'
  BY <1>1, <1>3 DEF LaidInv, LaidFor
<1>6. QueryInv'
  BY <1>4 DEF PaneIInv, QueryInv
<1>7. FoundInv'
  BY <1>1, <1>4 DEF PaneIInv, FoundInv
<1>8. DrawnInv'
  <2>1. pane'.layout.width = pane'.width /\ pane'.viewport.len = Len(pane'.layout.rows)
    BY <1>3 DEF Prepared
  <2>2. Place(pane)' = Place(pane')
    BY DEF Place, TopRow
  <2> QED
    BY <1>1, <2>1, <2>2 DEF DrawnInv
<1>9. selected' \in {"Live", "Other"} /\ arrived' \in Versions
  BY <1>1 DEF PaneIInv
<1>10. PaneIInv'
  BY <1>4, <1>5, <1>6, <1>7, <1>8, <1>9 DEF PaneIInv
<1> QED
  BY <1>3, <1>10 DEF p

LEMMA SyncHere ==
  ASSUME PaneIInv
  PROVE  LET q == SyncLayout(pane, SourceText)
         IN /\ Prepared(pane, SourceText, pane.viewport.page, q)
            /\ KeepsSearch(pane, q)
            /\ LaidFor(q, selected, arrived)
<1>1. PaneOK(pane)
  BY AtEnd
<1>2. pane.viewport.page \in Nat \ {0}
  BY <1>1 DEF PaneOK, Sound, Viewport
<1> DEFINE page == pane.viewport.page
<1>3. page \in Nat \ {0} /\ SyncLayout(pane, SourceText) = PrepareLayout(pane, SourceText, page)
  BY <1>2 DEF SyncLayout
<1> HIDE DEF page
<1>4. LET q == PrepareLayout(pane, SourceText, page)
      IN /\ Prepared(pane, SourceText, page, q)
         /\ KeepsSearch(pane, q)
         /\ LaidFor(q, selected, arrived)
  BY <1>1, <1>3, SyncedIs
<1>5. /\ Prepared(pane, SourceText, page, SyncLayout(pane, SourceText))
      /\ KeepsSearch(pane, SyncLayout(pane, SourceText))
      /\ LaidFor(SyncLayout(pane, SourceText), selected, arrived)
  BY <1>3, <1>4
<1> QED
  BY <1>5 DEF page

LEMMA ScrollByKeeps ==
  ASSUME PaneIInv, NEW action \in ScrollActions, ScrollBy(action)
  PROVE  PaneIInv'
<1> DEFINE z == SyncLayout(pane, SourceText)
           len == Len(z.layout.rows)
           u == SetContentLen(z.viewport, len)
           v == ApplyScroll(u, action)
<1>1. /\ pane' = [z EXCEPT !.viewport = v]
      /\ drawn' = Absent /\ UNCHANGED <<selected, arrived, found>>
  BY DEF ScrollBy
<1>2. /\ KeepsSearch(pane, z) /\ LaidFor(z, selected, arrived)
  <2>1. LET q == SyncLayout(pane, SourceText)
        IN /\ Prepared(pane, SourceText, pane.viewport.page, q)
           /\ KeepsSearch(pane, q)
           /\ LaidFor(q, selected, arrived)
    BY SyncHere
  <2> QED
    BY <2>1
<1> HIDE DEF z
<1>3. PaneOK(z) /\ Sound(z.viewport) /\ len \in Nat
  BY <1>2 DEF KeepsSearch, PaneOK, LayoutOK, Filled
<1>4. Sound(u)
  <2>1. z.viewport.page \in Nat
    BY <1>3 DEF Sound, Viewport
  <2> HIDE DEF len
  <2> QED
    BY <1>3, <2>1, StaysSound DEF SetContentLen
<1> HIDE DEF u
<1>5. Sound(v)
  BY <1>4, StaysSound
<1> HIDE DEF v
<1>6. KeepsSearch(z, pane') /\ LaidFor(pane', selected, arrived)
  BY <1>1, <1>2, <1>3, <1>5, ScrolledViewport
<1>7. KeepsSearch(pane, pane')
  BY <1>2, <1>6 DEF KeepsSearch
<1> QED
  BY <1>1, <1>6, <1>7, Kept

LEMMA ToggleSnapKeeps ==
  ASSUME PaneIInv, ToggleSnap
  PROVE  PaneIInv'
<1> DEFINE z == SyncLayout(pane, SourceText)
           len == Len(z.layout.rows)
           v == ToggleFollow(z.viewport, len)
<1>1. /\ pane' = [z EXCEPT !.viewport = v]
      /\ drawn' = Absent /\ UNCHANGED <<selected, arrived, found>>
  BY DEF ToggleSnap
<1>2. /\ KeepsSearch(pane, z) /\ LaidFor(z, selected, arrived)
  <2>1. LET q == SyncLayout(pane, SourceText)
        IN /\ Prepared(pane, SourceText, pane.viewport.page, q)
           /\ KeepsSearch(pane, q)
           /\ LaidFor(q, selected, arrived)
    BY SyncHere
  <2> QED
    BY <2>1
<1> HIDE DEF z
<1>3. PaneOK(z) /\ Sound(z.viewport) /\ len \in Nat
  BY <1>2 DEF KeepsSearch, PaneOK, LayoutOK, Filled
<1>5. Sound(v)
  <2> HIDE DEF len
  <2> QED
    BY <1>3, StaysSound
<1> HIDE DEF v
<1>6. KeepsSearch(z, pane') /\ LaidFor(pane', selected, arrived)
  BY <1>1, <1>2, <1>3, <1>5, ScrolledViewport
<1>7. KeepsSearch(pane, pane')
  BY <1>2, <1>6 DEF KeepsSearch
<1> QED
  BY <1>1, <1>6, <1>7, Kept

LEMMA FreedHere ==
  ASSUME PaneIInv
  PROVE  LET q == DisableSnap(pane)
         IN /\ SameBut(pane, q) /\ LaidFor(q, selected, arrived) /\ KeepsSearch(pane, q)
            /\ q.viewport.page = pane.viewport.page /\ q.viewport.len = pane.viewport.len
            /\ q.viewport.scroll = pane.viewport.scroll /\ q.viewport.follow = FALSE
            /\ TopRow(q) = TopRow(pane)
<1> DEFINE q == DisableSnap(pane)
<1>1. PaneOK(pane) /\ LaidFor(pane, selected, arrived)
  BY AtEnd
<1>2. /\ SameBut(pane, q)
      /\ q.viewport.page = pane.viewport.page /\ q.viewport.len = pane.viewport.len
      /\ q.viewport.scroll = pane.viewport.scroll /\ q.viewport.follow = FALSE
      /\ TopRow(q) = TopRow(pane)
  <2>1. LET s == DisableSnap(pane)
        IN /\ SameBut(pane, s)
           /\ s.viewport.page = pane.viewport.page /\ s.viewport.len = pane.viewport.len
           /\ s.viewport.scroll = pane.viewport.scroll /\ s.viewport.follow = FALSE
           /\ TopRow(s) = TopRow(pane)
           /\ TopPosition(s) = TopPosition(pane)
           /\ ShownRows(s) = ShownRows(pane)
    BY <1>1, Freed
  <2> QED
    BY <2>1
<1> HIDE DEF q
<1>3. LaidFor(q, selected, arrived) /\ KeepsSearch(pane, q)
  BY <1>1, <1>2 DEF LaidFor, SameBut, KeepsSearch
<1> QED
  BY <1>2, <1>3 DEF q

(* What a pane at rest was drawn with it still has.                        *)
LEMMA DrawnStays ==
  ASSUME PaneIInv, drawn' = drawn, pane'.layout = pane.layout, pane'.width = pane.width,
         pane'.viewport.len = pane.viewport.len, TopRow(pane') = TopRow(pane)
  PROVE  DrawnInv'
<1>1. Place(pane') = Place(pane)
  BY DEF Place
<1>2. Place(pane)' = Place(pane')
  BY DEF Place, TopRow
<1> HIDE DEF Place
<1>3. DrawnInv
  BY DEF PaneIInv
<1> QED
  BY <1>1, <1>2, <1>3 DEF DrawnInv

LEMMA StartSearchKeeps ==
  ASSUME PaneIInv, StartSearch
  PROVE  PaneIInv'
<1>1. /\ pane' = DisableSnap(pane) /\ UNCHANGED <<selected, arrived, drawn, found>>
  BY DEF StartSearch
<1>2. /\ SameBut(pane, pane') /\ LaidFor(pane', selected, arrived) /\ KeepsSearch(pane, pane')
      /\ pane'.viewport.len = pane.viewport.len /\ TopRow(pane') = TopRow(pane)
  <2>1. LET q == DisableSnap(pane)
        IN /\ SameBut(pane, q) /\ LaidFor(q, selected, arrived) /\ KeepsSearch(pane, q)
           /\ q.viewport.page = pane.viewport.page /\ q.viewport.len = pane.viewport.len
           /\ q.viewport.scroll = pane.viewport.scroll /\ q.viewport.follow = FALSE
           /\ TopRow(q) = TopRow(pane)
    BY FreedHere
  <2> QED
    BY <1>1, <2>1
<1>3. DrawnInv'
  BY <1>1, <1>2, DrawnStays DEF SameBut
<1>4. PaneOK(pane') /\ pane'.query = pane.query /\ pane'.current = pane.current
  BY <1>2 DEF KeepsSearch
<1>5. LaidInv'
  BY <1>1, <1>2 DEF LaidInv, LaidFor
<1>6. QueryInv'
  BY <1>4 DEF PaneIInv, QueryInv
<1>7. FoundInv'
  BY <1>1, <1>4 DEF PaneIInv, FoundInv
<1>8. selected' \in {"Live", "Other"} /\ arrived' \in Versions
  BY <1>1 DEF PaneIInv
<1> QED
  BY <1>3, <1>4, <1>5, <1>6, <1>7, <1>8 DEF PaneIInv

LEMMA ToggleModeKeeps ==
  ASSUME PaneIInv, NEW query \in Queries \cup {Invalid}, ToggleMode(query)
  PROVE  /\ PaneIInv'
         /\ pane'.layout = pane.layout /\ pane'.viewport.follow = FALSE
         /\ ShownRows(pane') = ShownRows(pane)
<1> DEFINE asked == [pane EXCEPT !.query = query]
           cleared == [asked EXCEPT !.current = Absent]
<1>1. /\ pane' = DisableSnap(cleared) /\ UNCHANGED <<selected, arrived, drawn>>
      /\ found' = Absent
  BY DEF ToggleMode, ClearCurrentMatch
<1>2. PaneOK(pane) /\ LaidFor(pane, selected, arrived)
  BY AtEnd
<1>3. /\ PaneOK(asked) /\ asked.query = query /\ asked.viewport = pane.viewport
      /\ asked.layout = pane.layout /\ asked.width = pane.width
      /\ asked.layoutInitialized = pane.layoutInitialized
  <2>1. PaneOK(asked)
    BY <1>2, Changed
  <2>2. pane \in PaneType
    BY <1>2 DEF PaneOK
  <2> QED
    BY <2>1, <2>2 DEF PaneType
<1> HIDE DEF asked
<1>4. /\ PaneOK(cleared) /\ cleared.query = query /\ cleared.viewport = pane.viewport
      /\ cleared.layout = pane.layout /\ cleared.width = pane.width
      /\ cleared.layoutInitialized = pane.layoutInitialized
      /\ cleared.current = Absent
  <2>1. PaneOK(cleared)
    BY <1>3, Changed
  <2>2. asked \in PaneType
    BY <1>3 DEF PaneOK
  <2> QED
    BY <1>3, <2>1, <2>2 DEF PaneType
<1> HIDE DEF cleared
<1>5. /\ SameBut(cleared, pane')
      /\ pane'.viewport.page = cleared.viewport.page
      /\ pane'.viewport.len = cleared.viewport.len
      /\ pane'.viewport.scroll = cleared.viewport.scroll /\ pane'.viewport.follow = FALSE
      /\ TopRow(pane') = TopRow(cleared)
      /\ ShownRows(pane') = ShownRows(cleared)
  <2>1. LET s == DisableSnap(cleared)
        IN /\ SameBut(cleared, s)
           /\ s.viewport.page = cleared.viewport.page /\ s.viewport.len = cleared.viewport.len
           /\ s.viewport.scroll = cleared.viewport.scroll /\ s.viewport.follow = FALSE
           /\ TopRow(s) = TopRow(cleared)
           /\ TopPosition(s) = TopPosition(cleared)
           /\ ShownRows(s) = ShownRows(cleared)
    BY <1>4, Freed
  <2> QED
    BY <1>1, <2>1
<1>6. /\ PaneOK(pane') /\ pane'.query = query /\ pane'.current = Absent
      /\ pane'.layout = pane.layout /\ pane'.width = pane.width
      /\ pane'.layoutInitialized = pane.layoutInitialized
      /\ pane'.viewport.len = pane.viewport.len
  BY <1>4, <1>5 DEF SameBut
<1>7. TopRow(pane') = TopRow(pane) /\ ShownRows(pane') = ShownRows(pane)
  BY <1>4, <1>5 DEF TopRow, ShownRows
<1>8. DrawnInv'
  BY <1>1, <1>6, <1>7, DrawnStays
<1>9. LaidInv'
  BY <1>1, <1>2, <1>6 DEF LaidInv, LaidFor
<1>10. QueryInv' /\ FoundInv'
  BY <1>1, <1>6 DEF QueryInv, FoundInv
<1>11. selected' \in {"Live", "Other"} /\ arrived' \in Versions
  BY <1>1 DEF PaneIInv
<1>12. PaneIInv'
  BY <1>6, <1>8, <1>9, <1>10, <1>11 DEF PaneIInv
<1> QED
  BY <1>5, <1>6, <1>7, <1>12

LEMMA ToggleFilterKeeps ==
  ASSUME PaneIInv, ToggleFilter
  PROVE  PaneIInv'
<1> DEFINE p == [pane EXCEPT !.filter = ~pane.filter]
           z == ScrollToCurrent(p, SourceText)
<1>1. /\ pane' = DisableSnap(z) /\ drawn' = Absent /\ UNCHANGED <<selected, arrived, found>>
  BY DEF ToggleFilter
<1>2. /\ PaneOK(pane) /\ LaidFor(pane, selected, arrived) /\ arrived \in Versions
      /\ SourceText = TextOf(selected, arrived) /\ IsText(TextOf(selected, arrived))
  BY AtEnd
<1>3. /\ PaneOK(p) /\ p.query = pane.query /\ p.current = pane.current
      /\ LaidFor(p, selected, arrived)
  <2>1. pane \in PaneType /\ (~pane.filter) \in BOOLEAN
    BY <1>2 DEF PaneOK, PaneType
  <2>2. PaneOK(p)
    BY <1>2, <2>1, Changed
  <2>3. /\ p.query = pane.query /\ p.current = pane.current /\ p.layout = pane.layout
        /\ p.layoutInitialized = pane.layoutInitialized
    BY <2>1 DEF PaneType
  <2> HIDE DEF p
  <2> QED
    BY <1>2, <2>2, <2>3 DEF LaidFor
<1> HIDE DEF p
<1>4. KeepsSearch(p, z) /\ LaidFor(z, selected, arrived)
  <2>1. LET q == ScrollToCurrent(p, TextOf(selected, arrived))
        IN KeepsSearch(p, q) /\ LaidFor(q, selected, arrived)
    BY <1>2, <1>3, ScrolledTo
  <2> QED
    BY <1>2, <2>1
<1> HIDE DEF z
<1>5. PaneOK(z)
  BY <1>4 DEF KeepsSearch
<1>6. SameBut(z, pane')
  <2>1. LET s == DisableSnap(z)
        IN SameBut(z, s)
    BY <1>5, Freed
  <2> QED
    BY <1>1, <2>1
<1>7. KeepsSearch(pane, pane') /\ LaidFor(pane', selected, arrived)
  BY <1>3, <1>4, <1>6 DEF KeepsSearch, SameBut, LaidFor
<1> QED
  BY <1>1, <1>7, Kept

(* A step that finds a match, or finds that there is none.                 *)
LEMMA FoundKeeps ==
  ASSUME PaneIInv, UNCHANGED <<selected, arrived>>, drawn' = Absent,
         found' = Found(pane', SourceText), PaneOK(pane'), LaidFor(pane', selected, arrived),
         pane'.query \in Queries,
         pane'.current # Absent => IsMatch(SourceText, pane'.query, pane'.current)
  PROVE  PaneIInv'
<1>0. /\ PaneOK(pane) /\ SourceText = TextOf(selected, arrived)
      /\ selected \in {"Live", "Other"} /\ arrived \in Versions
  BY AtEnd DEF PaneIInv
<1>1. selected' \in {"Live", "Other"} /\ arrived' \in Versions
      /\ selected' = selected /\ arrived' = arrived
  BY <1>0
<1>2. LaidInv'
  BY <1>1 DEF LaidInv, LaidFor
<1>3. QueryInv'
  BY LinesAssumption DEF QueryInv
<1>4. DrawnInv'
  BY DEF DrawnInv
<1>5. FoundInv'
  <2>1. CASE pane'.current = Absent
    BY <2>1 DEF Found, FoundInv
  <2>2. CASE pane'.current # Absent
    <3> DEFINE text == TextOf(selected, arrived)
    <3>1. IsMatch(text, pane'.query, pane'.current)
      BY <1>0, <2>2
    <3>2. pane'.current.line + 1 \in DOMAIN text
      BY <3>1 DEF IsMatch
    <3>3. found' = [no |-> text[pane'.current.line + 1].no, offset |-> pane'.current.start]
      BY <1>0, <2>2 DEF Found
    <3>4. arrived \in Until(arrived)
      BY <1>0 DEF Until
    <3>5. \E m \in Until(arrived) :
            /\ pane'.current.line + 1 \in DOMAIN TextOf(selected, m)
            /\ found' = [no |-> TextOf(selected, m)[pane'.current.line + 1].no,
                         offset |-> pane'.current.start]
      BY <3>2, <3>3, <3>4
    <3> HIDE DEF text
    <3> QED
      BY <1>1, <2>2, <3>5 DEF FoundInv
  <2> QED
    BY <2>1, <2>2
<1> QED
  BY <1>1, <1>2, <1>3, <1>4, <1>5 DEF PaneIInv

LEMMA FindMatchKeeps ==
  ASSUME PaneIInv, NEW direction \in {"Next", "Previous"}, FindMatch(direction)
  PROVE  /\ PaneIInv'
         /\ pane'.query # Invalid /\ pane'.current # Absent => ShowsMatch(pane', pane'.current)
         /\ pane.query \in Queries =>
              LET matches == MatchOccurrences(SourceText, pane.query)
              IN /\ matches = {} => pane'.current = Absent
                 /\ matches # {} =>
                      /\ NextMatch(matches, pane.current, direction) \in matches
                      /\ pane'.current = NextMatch(matches, pane.current, direction)
                 /\ found' = Found(pane', SourceText)
<1> DEFINE matches == MatchOccurrences(SourceText, pane.query)
           free == DisableSnap(pane)
           m == NextMatch(matches, pane.current, direction)
<1>0. /\ pane' = IF pane.query \in {NoQuery, Invalid} THEN free
                 ELSE IF matches = {} THEN ClearCurrentMatch(free)
                 ELSE ScrollToCurrent(SetCurrentMatch(free, m), SourceText)
      /\ drawn' = Absent
      /\ found' = IF pane.query \in {NoQuery, Invalid} THEN found ELSE Found(pane', SourceText)
      /\ UNCHANGED <<selected, arrived>>
  BY DEF FindMatch
<1>1. /\ PaneOK(pane) /\ arrived \in Versions /\ SourceText = TextOf(selected, arrived)
      /\ IsText(TextOf(selected, arrived)) /\ pane.query \in Queries \cup {NoQuery, Invalid}
  <2>1. PaneOK(pane) => pane.query \in Queries \cup {NoQuery, Invalid}
    BY DEF PaneOK, PaneType
  <2> QED
    BY <2>1, AtEnd
<1>2. /\ SameBut(pane, free) /\ LaidFor(free, selected, arrived) /\ KeepsSearch(pane, free)
  <2>1. LET q == DisableSnap(pane)
        IN /\ SameBut(pane, q) /\ LaidFor(q, selected, arrived) /\ KeepsSearch(pane, q)
           /\ q.viewport.page = pane.viewport.page /\ q.viewport.len = pane.viewport.len
           /\ q.viewport.scroll = pane.viewport.scroll /\ q.viewport.follow = FALSE
           /\ TopRow(q) = TopRow(pane)
    BY FreedHere
  <2> QED
    BY <2>1
<1> HIDE DEF free
<1>3. PaneOK(free) /\ free.query = pane.query
  BY <1>2 DEF KeepsSearch
<1>4. CASE pane.query \in {NoQuery, Invalid}
  <2>1. pane' = free /\ found' = found
    BY <1>0, <1>4
  <2>2. PaneIInv'
    BY <1>0, <1>2, <2>1, Kept
  <2>3. pane'.query = pane.query /\ pane'.current = pane.current
    BY <1>2, <2>1 DEF KeepsSearch
  <2>4. QueryInv
    BY DEF PaneIInv
  <2>5. ~(pane'.query # Invalid /\ pane'.current # Absent)
    BY <1>4, <2>3, <2>4 DEF QueryInv
  <2>6. pane.query \notin Queries
    BY <1>4, LinesAssumption
  <2> QED
    BY <2>2, <2>5, <2>6
<1>5. CASE pane.query \notin {NoQuery, Invalid}
  <2>1. pane.query \in Queries
    BY <1>1, <1>5
  <2>2. found' = Found(pane', SourceText)
    BY <1>0, <1>5
  <2>3. CASE matches = {}
    <3>1. pane' = [free EXCEPT !.current = Absent]
      BY <1>0, <1>5, <2>3 DEF ClearCurrentMatch
    <3>2. PaneOK([free EXCEPT !.current = Absent]) /\ free \in PaneType
      BY <1>3, Changed DEF PaneOK
    <3>3. /\ PaneOK(pane') /\ pane'.current = Absent /\ pane'.query = free.query
          /\ pane'.layout = free.layout /\ pane'.layoutInitialized = free.layoutInitialized
      BY <3>1, <3>2 DEF PaneType
    <3>4. LaidFor(pane', selected, arrived)
      BY <1>2, <3>3 DEF LaidFor
    <3>5. PaneIInv'
      BY <1>0, <1>3, <2>1, <2>2, <3>3, <3>4, FoundKeeps
    <3> QED
      BY <2>2, <2>3, <3>3, <3>5
  <2>4. CASE matches # {}
    <3>1. m \in matches
      BY <1>1, <2>4, NextIsMatch
    <3>2. IsMatch(TextOf(selected, arrived), pane.query, m)
      BY <1>1, <3>1, MatchesAre
    <3>3. pane' = ScrollToCurrent(SetCurrentMatch(free, m), TextOf(selected, arrived))
      BY <1>0, <1>1, <1>5, <2>4
    <3> HIDE DEF m
    <3>4. Brought(free, pane', m, selected, arrived)
      <4>1. LET q == ScrollToCurrent(SetCurrentMatch(free, m), TextOf(selected, arrived))
            IN /\ Brought(free, q, m, selected, arrived)
               /\ Brought(free, DisableSnap(q), m, selected, arrived)
        BY <1>1, <1>3, <2>1, <3>2, FoundTo
      <4> QED
        BY <3>3, <4>1
    <3>5. /\ PaneOK(pane') /\ LaidFor(pane', selected, arrived)
          /\ pane'.query = pane.query /\ pane'.current = m /\ ShowsMatch(pane', m)
      BY <1>3, <3>4 DEF Brought
    <3>6. PaneIInv'
      BY <1>0, <1>1, <2>1, <2>2, <3>2, <3>5, FoundKeeps
    <3>7. ShowsMatch(pane', pane'.current)
      BY <3>5
    <3> QED
      BY <2>2, <2>4, <3>1, <3>5, <3>6, <3>7 DEF m
  <2> QED
    BY <2>3, <2>4
<1> QED
  BY <1>4, <1>5

LEMMA EmptiedKeeps ==
  ASSUME PaneIInv, UNCHANGED <<selected, arrived>>, found' = Absent,
         NEW p, EmptiedQuery(p, SourceText, pane'), drawn' \in {Absent, Place(pane')}
  PROVE  PaneIInv'
<1>0. /\ SourceText = TextOf(selected, arrived)
      /\ selected \in {"Live", "Other"} /\ arrived \in Versions
  BY AtEnd DEF PaneIInv
<1>1. selected' \in {"Live", "Other"} /\ arrived' \in Versions
      /\ selected' = selected /\ arrived' = arrived
  BY <1>0
<1>2. /\ PaneOK(pane') /\ pane'.current = Absent
      /\ Shows(pane'.layout.view, TextOf(selected, arrived))
      /\ pane'.layout.width = pane'.width /\ pane'.viewport.len = Len(pane'.layout.rows)
  BY <1>0 DEF EmptiedQuery
<1>3. LaidInv'
  <2>1. arrived \in Until(arrived)
    BY <1>0 DEF Until
  <2> QED
    BY <1>1, <1>2, <2>1 DEF LaidInv
<1>4. QueryInv' /\ FoundInv'
  BY <1>2 DEF QueryInv, FoundInv
<1>5. Place(pane)' = Place(pane')
  BY DEF Place, TopRow
<1>6. DrawnInv'
  <2> HIDE DEF Place
  <2> QED
    BY <1>2, <1>5 DEF DrawnInv
<1> QED
  BY <1>1, <1>2, <1>3, <1>4, <1>6 DEF PaneIInv

LEMMA KeptPlaceIs ==
  KeptPlace \in {Absent, Place(pane')}
BY DEF KeptPlace

LEMMA ClearSearchKeeps ==
  ASSUME PaneIInv, ClearSearch
  PROVE  PaneIInv'
<1> DEFINE z == SyncLayout(pane, SourceText)
<1>1. /\ pane' = EmptyQuery(z, SourceText)
      /\ drawn' = IF pane.viewport.follow THEN Absent ELSE KeptPlace
      /\ found' = Absent /\ UNCHANGED <<selected, arrived>>
  BY DEF ClearSearch
<1>2. PaneOK(z)
  <2>1. LET q == SyncLayout(pane, SourceText)
        IN KeepsSearch(pane, q)
    BY SyncHere
  <2> QED
    BY <2>1 DEF KeepsSearch
<1> HIDE DEF z
<1>3. IsText(SourceText)
  BY AtEnd
<1>4. EmptiedQuery(z, SourceText, pane')
  BY <1>1, <1>2, <1>3, EmptiedIs
<1>5. drawn' \in {Absent, Place(pane')}
  BY <1>1, KeptPlaceIs
<1> QED
  BY <1>1, <1>4, <1>5, EmptiedKeeps

(* The pane as a search finds it.                                          *)
LEMMA SyncFreed ==
  ASSUME PaneIInv
  PROVE  LET q == SyncLayout(DisableSnap(pane), SourceText)
         IN KeepsSearch(pane, q) /\ LaidFor(q, selected, arrived)
<1> DEFINE free == DisableSnap(pane)
           page == free.viewport.page
<1>1. KeepsSearch(pane, free) /\ LaidFor(free, selected, arrived)
  <2>1. LET q == DisableSnap(pane)
        IN /\ SameBut(pane, q) /\ LaidFor(q, selected, arrived) /\ KeepsSearch(pane, q)
           /\ q.viewport.page = pane.viewport.page /\ q.viewport.len = pane.viewport.len
           /\ q.viewport.scroll = pane.viewport.scroll /\ q.viewport.follow = FALSE
           /\ TopRow(q) = TopRow(pane)
    BY FreedHere
  <2> QED
    BY <2>1
<1> HIDE DEF free
<1>2. PaneOK(free) /\ free.query = pane.query /\ free.current = pane.current
  BY <1>1 DEF KeepsSearch
<1>3. page \in Nat \ {0} /\ SyncLayout(free, SourceText) = PrepareLayout(free, SourceText, page)
  BY <1>2 DEF PaneOK, Sound, Viewport, SyncLayout
<1> HIDE DEF page
<1>4. LET q == PrepareLayout(free, SourceText, page)
      IN /\ Prepared(free, SourceText, page, q)
         /\ KeepsSearch(pane, q)
         /\ LaidFor(q, selected, arrived)
  BY <1>2, <1>3, SyncedIs
<1>5. KeepsSearch(pane, SyncLayout(free, SourceText))
      /\ LaidFor(SyncLayout(free, SourceText), selected, arrived)
  BY <1>3, <1>4
<1> QED
  BY <1>5 DEF free

LEMMA FilterSet ==
  ASSUME NEW p, PaneOK(p), NEW filter \in BOOLEAN, NEW sel, NEW n, LaidFor(p, sel, n)
  PROVE  LET q == [p EXCEPT !.filter = filter]
         IN KeepsSearch(p, q) /\ LaidFor(q, sel, n) /\ TopRow(q) = TopRow(p)
<1> DEFINE q == [p EXCEPT !.filter = filter]
<1>1. PaneOK(q) /\ p \in PaneType
  BY Changed DEF PaneOK
<1>2. /\ q.query = p.query /\ q.current = p.current /\ q.layout = p.layout
      /\ q.layoutInitialized = p.layoutInitialized /\ q.viewport = p.viewport
  BY <1>1 DEF PaneType
<1> HIDE DEF q
<1>3. KeepsSearch(p, q) /\ LaidFor(q, sel, n) /\ TopRow(q) = TopRow(p)
  BY <1>1, <1>2 DEF KeepsSearch, LaidFor, TopRow
<1> QED
  BY <1>3 DEF q

LEMMA QuerySet ==
  ASSUME NEW p, PaneOK(p), NEW query \in Queries \cup {NoQuery, Invalid},
         NEW sel, NEW n, LaidFor(p, sel, n)
  PROVE  LET q == [p EXCEPT !.query = query]
         IN PaneOK(q) /\ LaidFor(q, sel, n) /\ q.query = query /\ q.current = p.current
<1> DEFINE q == [p EXCEPT !.query = query]
<1>1. PaneOK(q) /\ p \in PaneType
  BY Changed DEF PaneOK
<1>2. /\ q.query = query /\ q.current = p.current /\ q.layout = p.layout
      /\ q.layoutInitialized = p.layoutInitialized
  BY <1>1 DEF PaneType
<1> HIDE DEF q
<1>3. PaneOK(q) /\ LaidFor(q, sel, n) /\ q.query = query /\ q.current = p.current
  BY <1>1, <1>2 DEF LaidFor
<1> QED
  BY <1>3 DEF q

LEMMA ApplySearchKeeps ==
  ASSUME PaneIInv, NEW query \in Queries \cup {NoQuery, Invalid}, NEW filter \in BOOLEAN,
         ApplySearch(query, filter)
  PROVE  /\ PaneIInv'
         /\ query \in Queries /\ pane'.current # Absent => ShowsMatch(pane', pane'.current)
<1> DEFINE z == SyncLayout(DisableSnap(pane), SourceText)
           f == [z EXCEPT !.filter = filter]
           p == [z EXCEPT !.query = query, !.filter = filter]
           p2 == [f EXCEPT !.query = query]
           matches == MatchOccurrences(SourceText, query)
<1>0. /\ pane' = IF query = NoQuery THEN EmptyQuery(f, SourceText)
                 ELSE SelectMatchAfterApply(p, SourceText)
      /\ drawn' = IF query = NoQuery THEN KeptPlace ELSE Absent
      /\ found' = IF query = Invalid THEN Absent ELSE Found(pane', SourceText)
      /\ UNCHANGED <<selected, arrived>>
  BY DEF ApplySearch
<1>1. /\ arrived \in Versions /\ SourceText = TextOf(selected, arrived)
      /\ IsText(TextOf(selected, arrived)) /\ IsText(SourceText)
  BY AtEnd
<1>2. KeepsSearch(pane, z) /\ LaidFor(z, selected, arrived)
  <2>1. LET q == SyncLayout(DisableSnap(pane), SourceText)
        IN KeepsSearch(pane, q) /\ LaidFor(q, selected, arrived)
    BY SyncFreed
  <2> QED
    BY <2>1
<1> HIDE DEF z
<1>3. PaneOK(z) /\ z \in PaneType
  BY <1>2 DEF KeepsSearch, PaneOK
<1>4. KeepsSearch(z, f) /\ LaidFor(f, selected, arrived)
  <2>1. LET q == [z EXCEPT !.filter = filter]
        IN KeepsSearch(z, q) /\ LaidFor(q, selected, arrived) /\ TopRow(q) = TopRow(z)
    BY <1>2, <1>3, FilterSet
  <2> QED
    BY <2>1
<1>5. p = p2
  BY <1>3 DEF PaneType
<1> HIDE DEF f
<1>6. PaneOK(f) /\ f.current = z.current
  BY <1>4 DEF KeepsSearch
<1>7. PaneOK(p2) /\ LaidFor(p2, selected, arrived) /\ p2.query = query
  <2>1. LET q == [f EXCEPT !.query = query]
        IN PaneOK(q) /\ LaidFor(q, selected, arrived) /\ q.query = query /\ q.current = f.current
    BY <1>4, <1>6, QuerySet
  <2> QED
    BY <2>1
<1> HIDE DEF p2, p
<1>8. PaneOK(p) /\ LaidFor(p, selected, arrived) /\ p.query = query
  BY <1>5, <1>7
<1>9. NoQuery # Invalid /\ NoQuery \notin Queries /\ Invalid \notin Queries
  BY LinesAssumption
<1>10. CASE query = NoQuery
  <2>1. pane' = EmptyQuery(f, SourceText)
    BY <1>0, <1>10
  <2>2. EmptiedQuery(f, SourceText, pane')
    BY <1>1, <1>6, <2>1, EmptiedIs
  <2>3. found' = Absent
    <3>1. pane'.current = Absent
      BY <2>2 DEF EmptiedQuery
    <3> QED
      BY <1>0, <1>9, <1>10, <3>1 DEF Found
  <2>4. drawn' \in {Absent, Place(pane')}
    BY <1>0, <1>10, KeptPlaceIs
  <2>5. PaneIInv'
    BY <1>0, <2>2, <2>3, <2>4, EmptiedKeeps
  <2> QED
    BY <1>9, <1>10, <2>5
<1>11. CASE query = Invalid
  <2>1. pane' = p /\ found' = Absent /\ drawn' = Absent
    BY <1>0, <1>8, <1>9, <1>11 DEF SelectMatchAfterApply
  <2>2. selected' \in {"Live", "Other"} /\ arrived' \in Versions
        /\ selected' = selected /\ arrived' = arrived
    BY <1>0 DEF PaneIInv
  <2>3. LaidInv'
    BY <1>8, <2>1, <2>2 DEF LaidInv, LaidFor
  <2>4. QueryInv' /\ FoundInv' /\ DrawnInv'
    BY <1>8, <1>9, <1>11, <2>1 DEF QueryInv, FoundInv, DrawnInv
  <2>5. PaneIInv'
    BY <1>8, <2>1, <2>2, <2>3, <2>4 DEF PaneIInv
  <2> QED
    BY <1>9, <1>11, <2>5
<1>12. CASE query \in Queries
  <2>0. query # NoQuery /\ query # Invalid
    BY <1>9, <1>12
  <2>1. /\ pane' = SelectMatchAfterApply(p, SourceText) /\ drawn' = Absent
        /\ found' = Found(pane', SourceText)
    BY <1>0, <2>0
  <2> DEFINE m == IF p.current \in matches THEN p.current ELSE First(matches)
             moved == DisableSnap(ScrollToCurrent(SetCurrentMatch(p, m), SourceText))
  <2>2. pane' = IF matches = {} THEN ClearCurrentMatch(p) ELSE moved
    BY <1>8, <2>0, <2>1 DEF SelectMatchAfterApply
  <2>3. CASE matches = {}
    <3>1. pane' = [p EXCEPT !.current = Absent]
      BY <2>2, <2>3 DEF ClearCurrentMatch
    <3>2. PaneOK([p EXCEPT !.current = Absent]) /\ p \in PaneType
      BY <1>8, Changed DEF PaneOK
    <3>3. /\ PaneOK(pane') /\ pane'.current = Absent /\ pane'.query = p.query
          /\ pane'.layout = p.layout /\ pane'.layoutInitialized = p.layoutInitialized
      BY <3>1, <3>2 DEF PaneType
    <3>4. LaidFor(pane', selected, arrived)
      BY <1>8, <3>3 DEF LaidFor
    <3>5. PaneIInv'
      BY <1>0, <1>8, <1>12, <2>1, <3>3, <3>4, FoundKeeps
    <3> QED
      BY <3>3, <3>5
  <2>4. CASE matches # {}
    <3>1. m \in matches
      <4>1. matches \subseteq Positions
        BY <1>1, MatchesAre DEF IsMatch
      <4>2. First(matches) \in matches
        <5> HIDE DEF matches
        <5> QED
          BY <2>4, <4>1, FirstIs
      <4> QED
        BY <4>2
    <3>2. IsMatch(TextOf(selected, arrived), p.query, m)
      <4> HIDE DEF m
      <4> QED
        BY <1>1, <1>8, <3>1, MatchesAre
    <3>3. pane' = DisableSnap(ScrollToCurrent(SetCurrentMatch(p, m), TextOf(selected, arrived)))
      BY <1>1, <2>2, <2>4
    <3> HIDE DEF m
    <3>4. Brought(p, pane', m, selected, arrived)
      <4>1. LET q == ScrollToCurrent(SetCurrentMatch(p, m), TextOf(selected, arrived))
            IN /\ Brought(p, q, m, selected, arrived)
               /\ Brought(p, DisableSnap(q), m, selected, arrived)
        BY <1>1, <1>8, <1>12, <3>2, FoundTo
      <4> QED
        BY <3>3, <4>1
    <3>5. /\ PaneOK(pane') /\ LaidFor(pane', selected, arrived)
          /\ pane'.query = query /\ pane'.current = m /\ ShowsMatch(pane', m)
      BY <1>8, <3>4 DEF Brought
    <3>6. PaneIInv'
      BY <1>0, <1>1, <1>8, <1>12, <2>1, <3>2, <3>5, FoundKeeps
    <3> QED
      BY <3>5, <3>6
  <2> QED
    BY <2>3, <2>4
<1> QED
  BY <1>10, <1>11, <1>12
-----------------------------------------------------------------------------
LEMMA Widest ==
  Max(Widths) \in Widths
<1> DEFINE NoMax(S) == S # {} /\ \A x \in S : \E y \in S : y > x
           Bad == {k \in Nat : \E S \in SUBSET Widths : NoMax(S) /\ Cardinality(S) = k}
<1>0. Widths \subseteq Nat /\ Widths # {} /\ IsFiniteSet(Widths)
  BY LinesAssumption
<1>1. Bad = {}
  <2> SUFFICES ASSUME Bad # {}
               PROVE  FALSE
    OBVIOUS
  <2>1. PICK k \in Bad : \A l \in Bad : k <= l
    <3>1. Bad \subseteq Nat
      OBVIOUS
    <3> HIDE DEF Bad
    <3> QED
      BY <3>1, Least
  <2>2. PICK S \in SUBSET Widths : NoMax(S) /\ Cardinality(S) = k
    BY <2>1
  <2>3. PICK x \in S : TRUE
    BY <2>2
  <2> DEFINE T == S \ {x}
  <2>4. IsFiniteSet(S) /\ k \in Nat
    BY <1>0, <2>1, FS_Subset
  <2>5. IsFiniteSet(T) /\ Cardinality(T) = k - 1
    BY <2>2, <2>4, FS_RemoveElement
  <2>6. Cardinality(T) \in Nat
    BY <2>5, FS_CardinalityType
  <2>7. NoMax(T)
    <3>1. PICK y \in S : y > x
      BY <2>2
    <3>2. y \in T
      BY <1>0, <3>1
    <3>3. ASSUME NEW t \in T
          PROVE  \E u \in T : u > t
      <4>1. PICK u \in S : u > t
        BY <2>2
      <4>2. CASE u # x
        BY <4>1, <4>2
      <4>3. CASE u = x
        <5>1. y > t
          BY <1>0, <3>1, <4>1, <4>3
        <5> QED
          BY <3>2, <5>1
      <4> QED
        BY <4>2, <4>3
    <3> HIDE DEF T
    <3> QED
      BY <3>2, <3>3
  <2>8. k - 1 \in Bad
    <3>1. T \in SUBSET Widths /\ k - 1 \in Nat
      BY <2>5, <2>6
    <3> HIDE DEF T, NoMax
    <3> QED
      BY <2>5, <2>7, <3>1
  <2> HIDE DEF Bad
  <2> QED
    BY <2>1, <2>4, <2>8
<1>2. ~NoMax(Widths)
  <2>1. Cardinality(Widths) \in Nat
    BY <1>0, FS_CardinalityType
  <2> HIDE DEF NoMax
  <2> QED
    BY <1>1, <2>1
<1>3. PICK w \in Widths : \A y \in Widths : ~(y > w)
  BY <1>0, <1>2
<1>4. \A y \in Widths : w >= y
  BY <1>0, <1>3
<1> QED
  BY <1>4 DEF Max

LEMMA BareLayout ==
  LET layout == NewLayout([text |-> <<>>, source |-> <<>>], 1)
  IN LayoutOK(layout)
<1> DEFINE view == [text |-> <<>>, source |-> <<>>]
           row == [no |-> Empty.no, line |-> Absent, start |-> 0, end |-> 0]
           layout == NewLayout(view, 1)
<1>1. layout = [view |-> view, width |-> 1, rows |-> <<row>>]
  <2>1. view.text = <<>>
    OBVIOUS
  <2> QED
    BY <2>1 DEF NewLayout
<1>2. view \in Views
  BY DEF Views
<1>3. row \in Rows
  <2>1. Empty \in Lines
    BY DEF Lines
  <2>2. Empty.no \in Nat
    BY <2>1, LinesAre
  <2> QED
    BY <2>2 DEF Rows
<1> HIDE DEF view, row
<1>4. /\ layout.view = view /\ layout.width = 1 /\ layout.rows = <<row>>
  BY <1>1
<1>5. layout \in Layouts
  <2>1. <<row>> \in Seq(Rows)
    BY <1>3
  <2> QED
    BY <1>1, <1>2, <2>1 DEF Layouts
<1>6. Filled(<<row>>)
  <2>1. <<row>> \in Seq(Rows) /\ <<row>> # <<>> /\ DOMAIN <<row>> = {1}
    BY <1>3
  <2>2. <<row>>[1].start = 0 /\ <<row>>[1].end = 0
    BY DEF row
  <2> QED
    BY <2>1, <2>2 DEF Filled
<1>7. layout = NewLayout(layout.view, layout.width)
  BY <1>4
<1> HIDE DEF layout
<1>8. LayoutOK(layout)
  BY <1>4, <1>5, <1>6, <1>7 DEF LayoutOK
<1> QED
  BY <1>8 DEF layout, view

LEMMA PaneStarts ==
  ASSUME PaneInit
  PROVE  PaneIInv
<1>1. /\ selected = "Live" /\ arrived = NothingArrived /\ drawn = Absent /\ found = Absent
      /\ pane = [viewport |-> DefaultViewport, width |-> Max(Widths), layoutInitialized |-> FALSE,
                 layout |-> NewLayout([text |-> <<>>, source |-> <<>>], 1),
                 query |-> NoQuery, filter |-> FALSE, current |-> Absent]
  BY DEF PaneInit
<1> DEFINE layout == NewLayout([text |-> <<>>, source |-> <<>>], 1)
<1>2. LayoutOK(layout)
  <2>1. LET l == NewLayout([text |-> <<>>, source |-> <<>>], 1)
        IN LayoutOK(l)
    BY BareLayout
  <2> QED
    BY <2>1
<1>3. pane.layout = layout
  BY <1>1
<1> HIDE DEF layout
<1>4. Max(Widths) \in Widths /\ Max(Widths) \in Nat
  BY Widest, WidthsAre
<1>5. DefaultViewport \in Viewport /\ Sound(DefaultViewport)
  BY DEF DefaultViewport, Viewport, Sound, MaxScroll, Less, Larger
<1>6. /\ pane.viewport = DefaultViewport /\ pane.width = Max(Widths)
      /\ pane.layoutInitialized = FALSE /\ pane.query = NoQuery /\ pane.filter = FALSE
      /\ pane.current = Absent
  BY <1>1
<1>7. pane \in PaneType
  <2>1. layout \in Layouts
    BY <1>2 DEF LayoutOK
  <2> QED
    BY <1>1, <1>4, <1>5, <2>1 DEF PaneType, layout
<1>8. PaneOK(pane)
  BY <1>2, <1>3, <1>4, <1>5, <1>6, <1>7 DEF PaneOK
<1>9. LaidInv /\ QueryInv /\ FoundInv /\ DrawnInv
  BY <1>1, <1>6 DEF LaidInv, QueryInv, FoundInv, DrawnInv
<1>10. Len(Live) \in Nat
  BY LinesAssumption
<1>11. arrived \in Versions /\ selected \in {"Live", "Other"}
  BY <1>1, <1>10 DEF NothingArrived, Versions
<1> QED
  BY <1>8, <1>9, <1>11 DEF PaneIInv

LEMMA PaneSteps ==
  ASSUME PaneIInv, [PaneNext]_paneVars
  PROVE  PaneIInv'
<1>1. CASE TestPrints \/ TestFails \/ RunEnds
  BY <1>1, Arrivals, ArrivesKeeps
<1>2. CASE Select \/ CommandFails \/ BeginRun
  BY <1>2, ResetsKeep
<1>3. CASE \E page \in Pages, width \in Widths : Frame(page, width)
  BY <1>3, FrameKeeps
<1>4. CASE \E action \in ScrollActions : ScrollBy(action)
  BY <1>4, ScrollByKeeps
<1>5. CASE ToggleSnap
  BY <1>5, ToggleSnapKeeps
<1>6. CASE StartSearch
  BY <1>6, StartSearchKeeps
<1>7. CASE \E query \in Queries \cup {NoQuery, Invalid}, filter \in BOOLEAN :
             ApplySearch(query, filter)
  BY <1>7, ApplySearchKeeps
<1>8. CASE ClearSearch
  BY <1>8, ClearSearchKeeps
<1>9. CASE ToggleFilter
  BY <1>9, ToggleFilterKeeps
<1>10. CASE \E query \in Queries \cup {Invalid} : ToggleMode(query)
  BY <1>10, ToggleModeKeeps
<1>11. CASE \E direction \in {"Next", "Previous"} : FindMatch(direction)
  BY <1>11, FindMatchKeeps
<1>12. CASE UNCHANGED paneVars
  <2>1. /\ selected' = selected /\ arrived' = arrived /\ pane' = pane /\ drawn' = drawn
        /\ found' = found
    BY <1>12 DEF paneVars
  <2>2. LaidInv' /\ QueryInv' /\ FoundInv' /\ DrawnInv'
    BY <2>1 DEF PaneIInv, LaidInv, QueryInv, FoundInv, DrawnInv, Place, TopRow
  <2> QED
    BY <2>1, <2>2 DEF PaneIInv
<1> QED
  BY <1>1, <1>2, <1>3, <1>4, <1>5, <1>6, <1>7, <1>8, <1>9, <1>10, <1>11, <1>12 DEF PaneNext
-----------------------------------------------------------------------------
(* What the steps show.                                                    *)
LEMMA TypesOK ==
  ASSUME PaneIInv
  PROVE  PaneTypeOK
<1>1. /\ selected \in {"Live", "Other"} /\ arrived \in Versions
      /\ pane \in PaneType /\ pane.width \in Widths
  BY DEF PaneIInv, PaneOK
<1>2. /\ pane.viewport \in Viewport
      /\ pane.filter \in BOOLEAN /\ pane.layoutInitialized \in BOOLEAN
      /\ pane.query \in Queries \cup {NoQuery, Invalid}
      /\ pane.current \in Positions \cup {Absent}
  BY <1>1 DEF PaneType
<1> QED
  BY <1>1, <1>2 DEF PaneTypeOK, Versions

LEMMA SearchShows ==
  ASSUME PaneIInv, pane'.current # Absent, pane'.query # Invalid, drawn' = Absent, Searches
  PROVE  ShowsMatch(pane', pane'.current)
<1>1. CASE \E query \in Queries \cap {pane'.query}, filter \in BOOLEAN \cap {pane'.filter} :
             ApplySearch(query, filter)
  BY <1>1, ApplySearchKeeps
<1>2. CASE \E direction \in {"Next", "Previous"} : FindMatch(direction)
  BY <1>2, FindMatchKeeps
<1> QED
  BY <1>1, <1>2 DEF Searches

FoundShown ==
  pane'.current # Absent /\ pane'.query # Invalid /\ drawn' = Absent /\ Searches =>
    LET match == pane'.current
        holding == {row \in ToSet(pane'.layout.rows) :
                      /\ row.line = match.line
                      /\ row.start < match.end /\ match.start < row.end}
        begins == {row \in holding : row.start <= match.start}
    IN /\ begins # {} /\ begins \subseteq ShownRows(pane')
       /\ Cardinality(holding) < pane'.viewport.page => holding \subseteq ShownRows(pane')

LEMMA FoundIsShown ==
  ASSUME PaneIInv
  PROVE  FoundShown
<1> SUFFICES ASSUME pane'.current # Absent, pane'.query # Invalid, drawn' = Absent, Searches
             PROVE  LET match == pane'.current
                        holding == {row \in ToSet(pane'.layout.rows) :
                                      /\ row.line = match.line
                                      /\ row.start < match.end /\ match.start < row.end}
                        begins == {row \in holding : row.start <= match.start}
                    IN /\ begins # {} /\ begins \subseteq ShownRows(pane')
                       /\ Cardinality(holding) < pane'.viewport.page =>
                            holding \subseteq ShownRows(pane')
  BY DEF FoundShown
<1>1. ShowsMatch(pane', pane'.current)
  BY SearchShows
<1> QED
  BY <1>1 DEF ShowsMatch

EndShown ==
  drawn' # Absent /\ pane'.viewport.follow /\ UNCHANGED <<selected, arrived>> =>
    /\ pane'.layout.view = OutputView(pane, SourceText)
    /\ Last(pane'.layout.rows) \in ShownRows(pane')

LEMMA FollowedIsShown ==
  ASSUME PaneIInv, PaneNext
  PROVE  EndShown
<1> SUFFICES ASSUME drawn' # Absent, pane'.viewport.follow, UNCHANGED <<selected, arrived>>
             PROVE  /\ pane'.layout.view = OutputView(pane, SourceText)
                    /\ Last(pane'.layout.rows) \in ShownRows(pane')
  BY DEF EndShown
<1>0. PaneOK(pane) /\ arrived \in Versions /\ IsText(SourceText)
  BY AtEnd
<1>1. CASE TestPrints \/ TestFails \/ RunEnds
  <2>1. arrived' = arrived
    OBVIOUS
  <2>2. /\ arrived = [lines |-> arrived.lines, failed |-> arrived.failed,
                      summary |-> arrived.summary]
        /\ arrived.lines \in Nat /\ Len(Live) \in Nat
    BY LinesAssumption DEF PaneIInv, Versions
  <2>3. ~TestPrints
    <3> SUFFICES ASSUME TestPrints
                 PROVE  FALSE
      OBVIOUS
    <3>1. PICK lines \in arrived.lines + 1..Len(Live) :
            arrived' = [arrived EXCEPT !.lines = lines]
      BY DEF TestPrints
    <3>2. arrived'.lines = lines
      BY <2>2, <3>1
    <3> QED
      BY <2>1, <2>2, <3>2
  <2>4. ~TestFails
    BY <2>1, <2>2 DEF TestFails
  <2>5. ~RunEnds
    BY <2>1, <2>2 DEF RunEnds
  <2> QED
    BY <1>1, <2>3, <2>4, <2>5
<1>2. CASE \E page \in Pages, width \in Widths : Frame(page, width)
  <2>1. PICK page \in Pages, width \in Widths : Frame(page, width)
    BY <1>2
  <2> DEFINE p == [pane EXCEPT !.width = width]
  <2>2. Prepared(p, SourceText, page, pane')
    BY <2>1, FrameKeeps
  <2>3. p.filter = pane.filter /\ p.query = pane.query /\ p.viewport = pane.viewport
    BY <1>0 DEF PaneOK, PaneType
  <2> HIDE DEF p
  <2>4. pane'.layout.view = OutputView(pane, SourceText)
    <3>1. OutputView(p, SourceText) = OutputView(pane, SourceText)
      BY <2>3, SameView
    <3> QED
      BY <2>2, <3>1 DEF Prepared
  <2>5. /\ PaneOK(pane') /\ pane'.viewport.page = page /\ page \in Nat \ {0}
        /\ pane'.viewport.len = Len(pane'.layout.rows)
        /\ pane'.viewport.scroll = MaxScroll(pane'.viewport.len, page)
    <3>1. p.viewport.follow
      BY <2>2 DEF Prepared
    <3> QED
      BY <2>2, <3>1, PagesAre DEF Prepared
  <2> DEFINE n == Len(pane'.layout.rows)
             s == pane'.viewport.scroll
  <2>6. n \in Nat \ {0} /\ pane'.layout.rows # <<>>
    BY <2>5 DEF PaneOK, LayoutOK, Filled
  <2>7. s + 1 <= n /\ n <= s + page /\ s \in Nat
    <3> HIDE DEF n, s
    <3>1. s = MaxScroll(n, page)
      BY <2>5 DEF n, s
    <3> QED
      BY <2>5, <2>6, <3>1 DEF MaxScroll, Larger, Less
  <2>8. pane'.layout.rows[n] \in ShownRows(pane')
    <3>1. n \in 1..Len(pane'.layout.rows)
      BY <2>6
    <3>2. pane'.viewport.scroll + 1 <= n /\ n <= pane'.viewport.scroll + pane'.viewport.page
      BY <2>5, <2>7
    <3> HIDE DEF n
    <3> QED
      BY <2>5, <3>1, <3>2, ShownAre
  <2> QED
    BY <2>4, <2>8 DEF Last
<1>3. CASE StartSearch
  <2>1. LET q == DisableSnap(pane)
        IN /\ SameBut(pane, q) /\ LaidFor(q, selected, arrived) /\ KeepsSearch(pane, q)
           /\ q.viewport.page = pane.viewport.page /\ q.viewport.len = pane.viewport.len
           /\ q.viewport.scroll = pane.viewport.scroll /\ q.viewport.follow = FALSE
           /\ TopRow(q) = TopRow(pane)
    BY FreedHere
  <2>2. pane'.viewport.follow = FALSE
    BY <1>3, <2>1 DEF StartSearch
  <2> QED
    BY <2>2
<1>4. CASE \E query \in Queries \cup {Invalid} : ToggleMode(query)
  BY <1>4, ToggleModeKeeps
<1>5. CASE \E query \in Queries \cup {NoQuery, Invalid}, filter \in BOOLEAN :
             ApplySearch(query, filter)
  <2>1. PICK query \in Queries \cup {NoQuery, Invalid}, filter \in BOOLEAN :
               ApplySearch(query, filter)
    BY <1>5
  <2>2. query = NoQuery
    BY <2>1 DEF ApplySearch
  <2> DEFINE z == SyncLayout(DisableSnap(pane), SourceText)
             f == [z EXCEPT !.filter = filter]
  <2>3. PaneOK(f)
    <3>1. LET q == SyncLayout(DisableSnap(pane), SourceText)
          IN KeepsSearch(pane, q) /\ LaidFor(q, selected, arrived)
      BY SyncFreed
    <3>2. PaneOK(z)
      BY <3>1 DEF KeepsSearch
    <3> HIDE DEF z
    <3> QED
      BY <3>2, Changed
  <2>4. pane' = EmptyQuery(f, SourceText)
    BY <2>1, <2>2 DEF ApplySearch
  <2> HIDE DEF f
  <2>5. EmptiedQuery(f, SourceText, pane')
    BY <1>0, <2>3, <2>4, EmptiedIs
  <2> QED
    BY <2>5 DEF EmptiedQuery
<1>6. CASE ClearSearch
  <2> DEFINE z == SyncLayout(pane, SourceText)
  <2>1. PaneOK(z)
    <3>1. LET q == SyncLayout(pane, SourceText)
          IN KeepsSearch(pane, q)
      BY SyncHere
    <3> QED
      BY <3>1 DEF KeepsSearch
  <2>2. pane' = EmptyQuery(z, SourceText)
    BY <1>6 DEF ClearSearch
  <2> HIDE DEF z
  <2>3. EmptiedQuery(z, SourceText, pane')
    BY <1>0, <2>1, <2>2, EmptiedIs
  <2> QED
    BY <2>3 DEF EmptiedQuery
<1>7. CASE \/ Select \/ CommandFails \/ BeginRun
           \/ (\E action \in ScrollActions : ScrollBy(action)) \/ ToggleSnap
           \/ ToggleFilter \/ (\E direction \in {"Next", "Previous"} : FindMatch(direction))
  BY <1>7 DEF Select, CommandFails, BeginRun, ScrollBy, ToggleSnap, ToggleFilter, FindMatch
<1> QED
  BY <1>1, <1>2, <1>3, <1>4, <1>5, <1>6, <1>7 DEF PaneNext

(* What the pane is scrolled to is in it: the newest row, when it follows  *)
(* the end, and the match it was searched for.                             *)
THEOREM PaneIsInOrder == PaneSpec => PaneShows
<1>1. PaneInit => PaneIInv
  BY PaneStarts
<1>2. PaneIInv /\ [PaneNext]_paneVars => PaneIInv'
  BY PaneSteps
<1>3. PaneIInv => PaneTypeOK
  BY TypesOK
<1>4. PaneIInv /\ [PaneNext]_paneVars => [EndShown]_paneVars
  BY FollowedIsShown
<1>5. PaneIInv /\ [PaneNext]_paneVars => [FoundShown]_paneVars
  BY FoundIsShown
<1>6. PaneSpec => []PaneTypeOK /\ [][EndShown]_paneVars /\ [][FoundShown]_paneVars
  BY <1>1, <1>2, <1>3, <1>4, <1>5, PTL DEF PaneSpec
<1>7. FollowShowsEnd <=> [][EndShown]_paneVars
  BY DEF EndShown, FollowShowsEnd
<1>8. FoundIsVisible <=> [][FoundShown]_paneVars
  BY DEF FoundShown, FoundIsVisible
<1>9. PaneSpec => []PaneTypeOK /\ FollowShowsEnd /\ FoundIsVisible
  BY <1>6, <1>7, <1>8, PTL
<1> QED
  BY <1>9 DEF PaneShows
-----------------------------------------------------------------------------
(* What the lines of a text are while none are dropped.                    *)
Whole(sel, v) == sel = "Live" => Len(Captured(v)) <= Limit

IsReport(sel, v, i) ==
  v.summary # "None" /\ i = Len(TextOf(sel, v)) /\ TextOf(sel, v)[i] = Report
IsOther(sel, v, i) == sel = "Other" /\ i \in DOMAIN Other /\ TextOf(sel, v)[i] = Other[i]
IsEmpty(sel, v, i) ==
  sel = "Live" /\ v.lines = 0 /\ ~v.failed /\ i = 1 /\ TextOf(sel, v)[i] = Empty
IsPrinted(sel, v, i) == sel = "Live" /\ i \in 1..v.lines /\ TextOf(sel, v)[i] = Live[i]
IsFailure(sel, v, i) ==
  sel = "Live" /\ v.failed /\ i = v.lines + 1 /\ TextOf(sel, v)[i] = Failure

LineIs(sel, v, i) ==
  \/ IsReport(sel, v, i) \/ IsOther(sel, v, i) \/ IsEmpty(sel, v, i)
  \/ IsPrinted(sel, v, i) \/ IsFailure(sel, v, i)

LEMMA LinesOf ==
  ASSUME NEW sel \in {"Live", "Other"}, NEW v \in Versions, Whole(sel, v),
         NEW i \in DOMAIN TextOf(sel, v)
  PROVE  LineIs(sel, v, i)
<1> DEFINE own == IF sel = "Live" THEN Retained(Captured(v)) ELSE Other
           T == TextOf(sel, v)
<1>1. T = WithSummary(own, v.summary) /\ v.summary \in {"None", "Run", "Command"}
  BY DEF TextOf, Versions
<1>2. Other \in Seq(Lines) /\ IsText(Retained(Captured(v)))
  BY CapturedIs, RetainedIs, LinesAssumption
<1>3. own \in Seq(Lines) /\ Report \in Lines
  BY <1>2 DEF IsText, Lines
<1>4. ASSUME NEW j \in DOMAIN own
      PROVE  \/ sel = "Other" /\ j \in DOMAIN Other /\ own[j] = Other[j]
             \/ sel = "Live" /\ v.lines = 0 /\ ~v.failed /\ j = 1 /\ own[j] = Empty
             \/ sel = "Live" /\ j \in 1..v.lines /\ own[j] = Live[j]
             \/ sel = "Live" /\ v.failed /\ j = v.lines + 1 /\ own[j] = Failure
  <2>1. CASE sel = "Other"
    BY <1>4, <2>1
  <2>2. CASE sel = "Live"
    <3> DEFINE c == Captured(v)
    <3>1. own = Retained(c)
      BY <2>2
    <3>2. /\ c \in Seq(Lines) /\ Len(c) = v.lines + (IF v.failed THEN 1 ELSE 0)
          /\ \A k \in 1..v.lines : c[k] = Live[k]
          /\ v.failed => c[v.lines + 1] = Failure
      BY CapturedIs
    <3>3. Len(c) <= Limit /\ Limit \in Nat /\ v.lines \in Nat /\ v.failed \in BOOLEAN
      BY <2>2, LinesAssumption DEF Whole, Versions
    <3> HIDE DEF c
    <3>4. CASE c = <<>>
      <4>1. own = <<Empty>>
        BY <3>1, <3>2, <3>4, RetainedIs
      <4>2. j = 1 /\ own[j] = Empty
        BY <1>4, <4>1
      <4>3. v.lines = 0 /\ ~v.failed
        BY <3>2, <3>3, <3>4
      <4> QED
        BY <2>2, <4>2, <4>3
    <3>5. CASE c # <<>>
      <4>1. Len(c) \in 1..Limit
        BY <3>2, <3>3, <3>5
      <4>2. own = c
        BY <3>1, <3>2, <4>1, RetainedIs
      <4>3. j \in 1..Len(c)
        BY <1>4, <3>2, <4>2
      <4> HIDE DEF own
      <4>4. j \in 1..v.lines \/ (v.failed /\ j = v.lines + 1)
        BY <3>2, <3>3, <4>3
      <4> QED
        BY <2>2, <3>2, <4>2, <4>4
    <3> QED
      BY <3>4, <3>5
  <2> QED
    BY <2>1, <2>2
<1> HIDE DEF own
<1>5. CASE v.summary = "None"
  <2>1. T = own
    BY <1>1, <1>5 DEF WithSummary
  <2> QED
    BY <1>4, <2>1 DEF LineIs, IsOther, IsEmpty, IsPrinted, IsFailure
<1>6. CASE v.summary = "Run"
  <2>1. T = Append(own, Report)
    BY <1>1, <1>6 DEF WithSummary
  <2>2. /\ Len(T) = Len(own) + 1 /\ T[Len(T)] = Report
        /\ i = Len(T) \/ (i \in DOMAIN own /\ T[i] = own[i])
    BY <1>3, <2>1
  <2>3. CASE i = Len(T)
    BY <1>6, <2>2, <2>3 DEF LineIs, IsReport
  <2>4. CASE i \in DOMAIN own /\ T[i] = own[i]
    BY <1>4, <2>4 DEF LineIs, IsOther, IsEmpty, IsPrinted, IsFailure
  <2> QED
    BY <2>2, <2>3, <2>4
<1>7. CASE v.summary = "Command"
  <2>1. T = <<Report>>
    BY <1>1, <1>7 DEF WithSummary
  <2>2. i = Len(T) /\ T[i] = Report
    BY <2>1
  <2> QED
    BY <1>7, <2>2 DEF LineIs, IsReport
<1> QED
  BY <1>1, <1>5, <1>6, <1>7

(* The numbers of the lines, in the order in which they are shown.         *)
LEMMA Numbers ==
  /\ \A i, j \in DOMAIN Live : i < j => Live[i].no < Live[j].no
  /\ \A i \in DOMAIN Live : Live[i].no < Failure.no /\ Live[i].no < Report.no
  /\ Failure.no < Report.no
  /\ \A i, j \in DOMAIN Other : i < j => Other[i].no < Other[j].no
  /\ \A i \in DOMAIN Other : Other[i].no < Report.no
  /\ Empty.no < Report.no
<1>0. /\ Live \in Seq(Lines) /\ Other \in Seq(Lines) /\ Len(Live) \in Nat /\ Len(Other) \in Nat
      /\ DOMAIN Live = 1..Len(Live) /\ DOMAIN Other = 1..Len(Other)
      /\ Failure \in Lines /\ Report \in Lines
  BY LinesAssumption DEF Lines
<1> DEFINE n == Len(Live)
           a == Live \o <<Failure, Report>>
           b == Append(Other, Report)
           m == Len(Other)
<1>1. Increasing(a) /\ Increasing(b) /\ Increasing(<<Empty, Report>>)
  BY LinesAssumption
<1>2. /\ DOMAIN a = 1..n + 2 /\ \A i \in 1..n : a[i] = Live[i]
      /\ a[n + 1] = Failure /\ a[n + 2] = Report
  BY <1>0
<1>3. DOMAIN b = 1..m + 1 /\ (\A i \in 1..m : b[i] = Other[i]) /\ b[m + 1] = Report
  BY <1>0
<1> HIDE DEF a, b
<1>4. \A i, j \in 1..n + 2 : i < j => a[i].no < a[j].no
  BY <1>1, <1>2 DEF Increasing
<1>5. \A i, j \in 1..m + 1 : i < j => b[i].no < b[j].no
  BY <1>1, <1>3 DEF Increasing
<1> HIDE DEF n, m
<1>6. n \in Nat /\ m \in Nat
  BY <1>0 DEF n, m
<1>7. \A i, j \in 1..n : i < j => Live[i].no < Live[j].no
  BY <1>2, <1>4, <1>6
<1>8. \A i \in 1..n : Live[i].no < Failure.no /\ Live[i].no < Report.no
  BY <1>2, <1>4, <1>6
<1>9. Failure.no < Report.no
  <2>1. n + 1 \in 1..n + 2 /\ n + 2 \in 1..n + 2 /\ n + 1 < n + 2
    BY <1>6
  <2> QED
    BY <1>2, <1>4, <2>1
<1>10. \A i, j \in 1..m : i < j => Other[i].no < Other[j].no
  BY <1>3, <1>5, <1>6
<1>11. \A i \in 1..m : Other[i].no < Report.no
  BY <1>3, <1>5, <1>6
<1>12. Empty.no < Report.no
  BY <1>1 DEF Increasing
<1> QED
  BY <1>0, <1>7, <1>8, <1>9, <1>10, <1>11, <1>12 DEF n, m

LEMMA TextOrder ==
  ASSUME NEW sel \in {"Live", "Other"}, NEW v \in Versions, Whole(sel, v)
  PROVE  \A i, j \in DOMAIN TextOf(sel, v) : i < j => TextOf(sel, v)[i].no < TextOf(sel, v)[j].no
<1> DEFINE T == TextOf(sel, v)
<1> SUFFICES ASSUME NEW i \in DOMAIN T, NEW j \in DOMAIN T, i < j
             PROVE  T[i].no < T[j].no
  OBVIOUS
<1>1. LineIs(sel, v, i) /\ LineIs(sel, v, j)
  BY LinesOf
<1>2. /\ DOMAIN T = 1..Len(T) /\ Len(T) \in Nat /\ i \in Nat /\ j \in Nat
      /\ v.lines \in Nat /\ v.lines <= Len(Live) /\ DOMAIN Live = 1..Len(Live)
  <2>1. T \in Seq(Lines)
    BY TextsAre DEF IsText
  <2>2. Live \in Seq(Lines) /\ v.lines \in 0..Len(Live)
    BY LinesAssumption DEF Versions
  <2> HIDE DEF T
  <2>3. DOMAIN T = 1..Len(T) /\ Len(T) \in Nat /\ i \in Nat /\ j \in Nat
    BY <2>1
  <2> QED
    BY <2>2, <2>3
<1>3. ~IsReport(sel, v, i)
  <2>1. i # Len(T)
    <3>1. i < j /\ j \in 1..Len(T)
      BY <1>2
    <3> HIDE DEF T
    <3> QED
      BY <1>2, <3>1
  <2> QED
    BY <2>1 DEF IsReport
<1>4. CASE IsReport(sel, v, j)
  <2>1. T[j] = Report
    BY <1>4 DEF IsReport
  <2>2. CASE IsOther(sel, v, i)
    BY <2>1, <2>2, Numbers DEF IsOther
  <2>3. CASE IsEmpty(sel, v, i)
    BY <2>1, <2>3, Numbers DEF IsEmpty
  <2>4. CASE IsPrinted(sel, v, i)
    <3>1. i \in DOMAIN Live /\ T[i] = Live[i]
      BY <1>2, <2>4 DEF IsPrinted
    <3> QED
      BY <2>1, <3>1, Numbers
  <2>5. CASE IsFailure(sel, v, i)
    BY <2>1, <2>5, Numbers DEF IsFailure
  <2> QED
    BY <1>1, <1>3, <2>2, <2>3, <2>4, <2>5 DEF LineIs
<1>5. CASE IsOther(sel, v, j)
  <2>1. IsOther(sel, v, i)
    BY <1>1, <1>3, <1>5 DEF LineIs, IsOther, IsEmpty, IsPrinted, IsFailure
  <2> QED
    BY <1>5, <2>1, Numbers DEF IsOther
<1>6. CASE IsEmpty(sel, v, j)
  BY <1>2, <1>6 DEF IsEmpty
<1>7. CASE IsPrinted(sel, v, j)
  <2>1. j \in 1..v.lines /\ i \in 1..v.lines /\ sel = "Live"
    BY <1>2, <1>7 DEF IsPrinted
  <2>2. ~IsOther(sel, v, i) /\ ~IsEmpty(sel, v, i) /\ ~IsFailure(sel, v, i)
    BY <1>2, <2>1 DEF IsOther, IsEmpty, IsFailure
  <2>3. IsPrinted(sel, v, i)
    BY <1>1, <1>3, <2>2 DEF LineIs
  <2>4. i \in DOMAIN Live /\ j \in DOMAIN Live /\ T[i] = Live[i] /\ T[j] = Live[j]
    BY <1>2, <1>7, <2>1, <2>3 DEF IsPrinted
  <2> QED
    BY <2>4, Numbers
<1>8. CASE IsFailure(sel, v, j)
  <2>1. v.failed /\ j = v.lines + 1 /\ sel = "Live" /\ T[j] = Failure
    BY <1>8 DEF IsFailure
  <2>2. i \in 1..v.lines
    BY <1>2, <2>1
  <2>3. ~IsOther(sel, v, i) /\ ~IsEmpty(sel, v, i) /\ ~IsFailure(sel, v, i)
    BY <1>2, <2>1 DEF IsOther, IsEmpty, IsFailure
  <2>4. IsPrinted(sel, v, i)
    BY <1>1, <1>3, <2>3 DEF LineIs
  <2>5. i \in DOMAIN Live /\ T[i] = Live[i]
    BY <1>2, <2>4 DEF IsPrinted
  <2> QED
    BY <2>1, <2>5, Numbers
<1> QED
  BY <1>1, <1>4, <1>5, <1>6, <1>7, <1>8 DEF LineIs

(* A line stays where it is, unless it is the summary of the failure.      *)
LEMMA SameLine ==
  ASSUME NEW sel \in {"Live", "Other"}, NEW n \in Versions, Whole(sel, n),
         NEW m \in Until(n), NEW i \in DOMAIN TextOf(sel, m), NEW j \in DOMAIN TextOf(sel, n),
         TextOf(sel, m)[i].no = TextOf(sel, n)[j].no, TextOf(sel, m)[i].no # Failure.no
  PROVE  i = j /\ TextOf(sel, m)[i] = TextOf(sel, n)[j]
<1>0. m \in Versions
  BY DEF Until
<1>1. IsText(TextOf(sel, m)) /\ IsText(TextOf(sel, n))
  BY <1>0, TextsAre
<1>2. i \in Nat /\ j \in Nat /\ TextOf(sel, m)[i] \in Lines /\ TextOf(sel, n)[j] \in Lines
  BY <1>1 DEF IsText
<1>3. TextOf(sel, m)[i] = TextOf(sel, n)[j]
  BY <1>2, LinesAssumption
<1>n. \A line \in Lines : line.no \in Nat
  BY LinesAre
<1>4. i = j
  <2>1. CASE m = n
    <3> DEFINE T == TextOf(sel, n)
    <3>1. i \in DOMAIN T /\ j \in DOMAIN T /\ T[i].no = T[j].no
      BY <2>1
    <3>2. \A a, b \in DOMAIN T : a < b => T[a].no < T[b].no
      BY TextOrder
    <3>3. T[j].no \in Nat
      BY <1>2, <1>n
    <3> HIDE DEF T
    <3> QED
      BY <1>2, <3>1, <3>2, <3>3
  <2>2. CASE m # n
    <3>1. m.summary = "None" /\ m.lines <= n.lines /\ (m.failed => n.failed)
      BY <2>2 DEF Until
    <3>2. /\ m.lines \in Nat /\ n.lines \in Nat /\ n.lines <= Len(Live) /\ m.failed \in BOOLEAN
          /\ Limit \in Nat /\ DOMAIN Live = 1..Len(Live) /\ DOMAIN Other = 1..Len(Other)
          /\ Live \in Seq(Lines) /\ Other \in Seq(Lines)
      BY <1>0, LinesAssumption DEF Versions
    <3>3. Whole(sel, m)
      <4>1. /\ Len(Captured(m)) = m.lines + (IF m.failed THEN 1 ELSE 0)
            /\ Len(Captured(n)) = n.lines + (IF n.failed THEN 1 ELSE 0)
        BY <1>0, CapturedIs
      <4>2. n.failed \in BOOLEAN
        BY DEF Versions
      <4> QED
        BY <3>1, <3>2, <4>1, <4>2 DEF Whole
    <3>4. LineIs(sel, m, i) /\ LineIs(sel, n, j)
      BY <1>0, <3>3, LinesOf
    <3>5. ~IsReport(sel, m, i)
      BY <3>1 DEF IsReport
    <3>6. ~IsFailure(sel, m, i)
      BY DEF IsFailure
    <3>7. CASE IsOther(sel, m, i)
      <4>1. sel = "Other" /\ i \in DOMAIN Other /\ TextOf(sel, n)[j].no = Other[i].no
        BY <1>3, <3>7 DEF IsOther
      <4>2. Other[i].no \in Nat /\ Other[i].no < Report.no
        BY <1>n, <3>2, <4>1, Numbers
      <4>3. ~IsReport(sel, n, j)
        BY <4>1, <4>2 DEF IsReport
      <4>4. IsOther(sel, n, j)
        BY <3>4, <4>1, <4>3 DEF LineIs, IsEmpty, IsPrinted, IsFailure
      <4>5. j \in DOMAIN Other /\ Other[j].no = Other[i].no
        BY <4>1, <4>4 DEF IsOther
      <4> QED
        BY <1>2, <4>1, <4>2, <4>5, Numbers
    <3>8. CASE IsEmpty(sel, m, i)
      <4>1. sel = "Live" /\ i = 1 /\ TextOf(sel, n)[j] = Empty
        BY <1>3, <3>8 DEF IsEmpty
      <4>2. /\ Empty # Failure /\ Empty # Report
            /\ \A k \in DOMAIN Live : Live[k] # Empty
        <5>1. Empty \notin ToSet(Live) /\ Empty # Failure /\ Empty # Report
          BY LinesAssumption
        <5> QED
          BY <5>1 DEF ToSet
      <4>3. ~IsReport(sel, n, j) /\ ~IsFailure(sel, n, j) /\ ~IsOther(sel, n, j)
        BY <4>1, <4>2 DEF IsReport, IsFailure, IsOther
      <4>4. ~IsPrinted(sel, n, j)
        <5>1. j \in 1..n.lines => j \in DOMAIN Live
          BY <3>2
        <5> QED
          BY <4>1, <4>2, <5>1 DEF IsPrinted
      <4>5. IsEmpty(sel, n, j)
        BY <3>4, <4>3, <4>4 DEF LineIs
      <4> QED
        BY <4>1, <4>5 DEF IsEmpty
    <3>9. CASE IsPrinted(sel, m, i)
      <4>1. sel = "Live" /\ i \in DOMAIN Live /\ TextOf(sel, n)[j] = Live[i]
        <5>1. i \in 1..m.lines => i \in DOMAIN Live
          BY <3>1, <3>2
        <5> QED
          BY <1>3, <3>9, <5>1 DEF IsPrinted
      <4>2. Live[i].no \in Nat /\ Live[i].no < Failure.no /\ Live[i].no < Report.no
            /\ Live[i] # Empty
        <5>1. Live[i] # Empty
          <6>1. Empty \notin ToSet(Live)
            BY LinesAssumption
          <6> QED
            BY <4>1, <6>1 DEF ToSet
        <5> QED
          BY <1>n, <3>2, <4>1, <5>1, Numbers
      <4>3. ~IsReport(sel, n, j) /\ ~IsFailure(sel, n, j) /\ ~IsOther(sel, n, j)
            /\ ~IsEmpty(sel, n, j)
        BY <4>1, <4>2 DEF IsReport, IsFailure, IsOther, IsEmpty
      <4>4. IsPrinted(sel, n, j)
        BY <3>4, <4>3 DEF LineIs
      <4>5. j \in DOMAIN Live /\ Live[j].no = Live[i].no
        <5>1. j \in 1..n.lines => j \in DOMAIN Live
          BY <3>2
        <5> QED
          BY <4>1, <4>4, <5>1 DEF IsPrinted
      <4> QED
        BY <1>2, <4>1, <4>2, <4>5, Numbers
    <3> QED
      BY <3>4, <3>5, <3>6, <3>7, <3>8, <3>9 DEF LineIs
  <2> QED
    BY <2>1, <2>2
<1> QED
  BY <1>3, <1>4

(* A match by the number of its line.                                      *)
Numbered(text, m) == [no |-> text[m.line + 1].no, offset |-> m.start]
IsLater(a, b) == a.no > b.no \/ (a.no = b.no /\ a.offset > b.offset)

LEMMA NumbersOrder ==
  ASSUME NEW text, IsText(text),
         \A i, j \in DOMAIN text : i < j => text[i].no < text[j].no,
         NEW a \in Positions, NEW b \in Positions,
         a.line + 1 \in DOMAIN text, b.line + 1 \in DOMAIN text
  PROVE  Before(a, b) <=> IsLater(Numbered(text, b), Numbered(text, a))
<1> DEFINE i == a.line + 1
           j == b.line + 1
           x == text[i].no
           y == text[j].no
<1>1. a.line \in Nat /\ b.line \in Nat /\ a.start \in Nat /\ b.start \in Nat
  BY DEF Positions
<1>2. text[i] \in Lines /\ text[j] \in Lines
  BY DEF IsText
<1>3. x \in Nat /\ y \in Nat
  BY <1>2, LinesAre
<1>4. i < j => x < y
  OBVIOUS
<1>5. j < i => y < x
  OBVIOUS
<1>6. i = j => x = y
  OBVIOUS
<1>7. IsLater(Numbered(text, b), Numbered(text, a)) <=> y > x \/ (y = x /\ b.start > a.start)
  BY DEF IsLater, Numbered
<1>8. /\ a.line < b.line <=> i < j
      /\ a.line = b.line <=> i = j
      /\ i \in Nat /\ j \in Nat
  BY <1>1
<1> HIDE DEF i, j, x, y
<1>9. (i < j \/ (i = j /\ a.start < b.start)) <=> (y > x \/ (y = x /\ b.start > a.start))
  BY <1>1, <1>3, <1>4, <1>5, <1>6, <1>8
<1>10. Before(a, b) <=> i < j \/ (i = j /\ a.start < b.start)
  BY <1>8 DEF Before
<1> QED
  BY <1>7, <1>9, <1>10

NoneMissed ==
  Untrimmed /\ FoundIsThere /\ found' # Absent /\ drawn' = Absent /\ FindMatch("Next") =>
    LET Later(a, b) == \/ a.no > b.no
                       \/ a.no = b.no /\ a.offset > b.offset
        matches == {[no |-> SourceText[m.line + 1].no, offset |-> m.start]
                    : m \in MatchOccurrences(SourceText, pane.query)}
        after == {m \in matches : Later(m, found)}
    IN found' \in (IF after = {} THEN matches ELSE after)
       /\ ~\E m \in (IF after = {} THEN matches ELSE after) : Later(found', m)

LEMMA NextIsNext ==
  ASSUME PaneIInv, Untrimmed, FoundIsThere, found' # Absent, FindMatch("Next")
  PROVE  LET matches == {Numbered(SourceText, m) : m \in MatchOccurrences(SourceText, pane.query)}
             after == {m \in matches : IsLater(m, found)}
             rest == IF after = {} THEN matches ELSE after
         IN found' \in rest /\ \A m \in rest : ~IsLater(found', m)
<1> DEFINE text == SourceText
           M == MatchOccurrences(text, pane.query)
           cur == pane.current
           next == NextMatch(M, cur, "Next")
<1>0. /\ IsText(text) /\ text = TextOf(selected, arrived) /\ PaneOK(pane)
      /\ selected \in {"Live", "Other"} /\ arrived \in Versions
      /\ Whole(selected, arrived)
  BY AtEnd DEF PaneIInv, Untrimmed, Whole
<1>1. PICK m0 \in Until(arrived) :
        /\ cur.line + 1 \in DOMAIN TextOf(selected, m0)
        /\ found = [no |-> TextOf(selected, m0)[cur.line + 1].no, offset |-> cur.start]
  BY DEF PaneIInv, FoundInv, FoundIsThere
<1>2. pane.query \in Queries /\ cur # Absent
  BY DEF PaneIInv, FoundInv, FoundIsThere
<1>3. cur \in Positions
  BY <1>0, <1>2 DEF PaneOK, PaneType
<1>4. /\ M # {} /\ next \in M /\ pane'.current = next
      /\ found' = Found(pane', text)
  <2>1. LET ms == MatchOccurrences(SourceText, pane.query)
        IN /\ ms = {} => pane'.current = Absent
           /\ ms # {} =>
                /\ NextMatch(ms, pane.current, "Next") \in ms
                /\ pane'.current = NextMatch(ms, pane.current, "Next")
           /\ found' = Found(pane', SourceText)
    BY <1>2, FindMatchKeeps
  <2>2. pane'.current # Absent
    BY <2>1 DEF Found
  <2> QED
    BY <2>1, <2>2
<1> HIDE DEF text
<1>5. \A m \in M : m \in Positions /\ m.line + 1 \in DOMAIN text
  BY <1>0, MatchesAre DEF IsMatch
<1>6. next # Absent
  BY <1>4, <1>5, LinesAssumption DEF Positions
<1>7. found' = Numbered(text, next)
  <2> HIDE DEF next
  <2> QED
    BY <1>4, <1>6 DEF Found, Numbered
<1>8. cur.line + 1 \in DOMAIN text /\ found = Numbered(text, cur)
  <2>1. PICK j \in DOMAIN text : text[j].no = found.no
    BY DEF FoundIsThere, ToSet, text
  <2>2. /\ TextOf(selected, m0)[cur.line + 1].no = TextOf(selected, arrived)[j].no
        /\ TextOf(selected, m0)[cur.line + 1].no # Failure.no
    BY <1>0, <1>1, <2>1 DEF FoundIsThere
  <2> DEFINE i == cur.line + 1
  <2>3. i = j
    <3>1. i \in DOMAIN TextOf(selected, m0) /\ j \in DOMAIN TextOf(selected, arrived)
          /\ TextOf(selected, m0)[i].no = TextOf(selected, arrived)[j].no
          /\ TextOf(selected, m0)[i].no # Failure.no
      BY <1>0, <1>1, <2>2
    <3> HIDE DEF i
    <3> QED
      BY <1>0, <3>1, SameLine
  <2> QED
    BY <1>1, <2>1, <2>3 DEF Numbered
<1>9. \A i, j \in DOMAIN text : i < j => text[i].no < text[j].no
  BY <1>0, TextOrder
<1>10. \A m \in M : Before(cur, m) <=> IsLater(Numbered(text, m), found)
  BY <1>0, <1>3, <1>5, <1>8, <1>9, NumbersOrder
<1>11. \A m, n \in M : Before(m, n) <=> IsLater(Numbered(text, n), Numbered(text, m))
  BY <1>0, <1>5, <1>9, NumbersOrder
<1> DEFINE afterM == {m \in M : Before(cur, m)}
           matches == {Numbered(text, m) : m \in M}
           after == {m \in matches : IsLater(m, found)}
           rest == IF after = {} THEN matches ELSE after
           R == IF afterM = {} THEN M ELSE afterM
<1> HIDE DEF M
<1>12. after = {Numbered(text, m) : m \in afterM}
  BY <1>10
<1>13. rest = {Numbered(text, m) : m \in R}
  <2>1. after = {} <=> afterM = {}
    BY <1>12
  <2>2. CASE after = {}
    BY <2>1, <2>2
  <2>3. CASE after # {}
    BY <1>12, <2>1, <2>3
  <2> QED
    BY <2>2, <2>3
<1>14. next = First(R)
  <2>1. CASE afterM = {}
    <3>1. NextMatch(M, cur, "Next") = First(M)
      BY <2>1 DEF NextMatch
    <3> QED
      BY <2>1, <3>1
  <2>2. CASE afterM # {}
    <3>1. NextMatch(M, cur, "Next") = First(afterM)
      BY <1>2, <2>2 DEF NextMatch
    <3> QED
      BY <2>2, <3>1
  <2> QED
    BY <2>1, <2>2
<1>15. R \subseteq M /\ R # {}
  BY <1>4
<1> HIDE DEF R, next, rest
<1>16. next \in R /\ \A m \in R : ~Before(m, next)
  BY <1>5, <1>14, <1>15, FirstIs
<1>17. found' \in rest
  BY <1>7, <1>13, <1>16
<1>18. \A m \in rest : ~IsLater(found', m)
  BY <1>7, <1>11, <1>13, <1>15, <1>16
<1>19. rest = LET ms == {Numbered(SourceText, m) : m \in MatchOccurrences(SourceText, pane.query)}
                  aft == {m \in ms : IsLater(m, found)}
              IN IF aft = {} THEN ms ELSE aft
  BY DEF rest, M, text
<1> QED
  BY <1>17, <1>18, <1>19

LEMMA NoneIsMissed ==
  ASSUME PaneIInv
  PROVE  NoneMissed
<1> SUFFICES ASSUME Untrimmed, FoundIsThere, found' # Absent, drawn' = Absent, FindMatch("Next")
             PROVE  NoneMissed
  BY DEF NoneMissed
<1> DEFINE matches == {Numbered(SourceText, m) : m \in MatchOccurrences(SourceText, pane.query)}
           after == {m \in matches : IsLater(m, found)}
           rest == IF after = {} THEN matches ELSE after
<1>1. found' \in rest /\ \A m \in rest : ~IsLater(found', m)
  BY NextIsNext
<1>2. matches = {[no |-> SourceText[m.line + 1].no, offset |-> m.start]
                 : m \in MatchOccurrences(SourceText, pane.query)}
  BY DEF Numbered
<1>3. after = {m \in matches : \/ m.no > found.no
                               \/ m.no = found.no /\ m.offset > found.offset}
  BY DEF IsLater
<1>4. \A m \in rest : ~(\/ found'.no > m.no
                        \/ found'.no = m.no /\ found'.offset > m.offset)
  BY <1>1 DEF IsLater
<1> HIDE DEF matches
<1> QED
  BY <1>1, <1>2, <1>3, <1>4 DEF NoneMissed

(* Going on from a match to the next leaves out none.                      *)
THEOREM NextFinds == PaneSpec => NextMissesNone
<1>1. PaneInit => PaneIInv
  BY PaneStarts
<1>2. PaneIInv /\ [PaneNext]_paneVars => PaneIInv'
  BY PaneSteps
<1>3. PaneIInv /\ [PaneNext]_paneVars => [NoneMissed]_paneVars
  BY NoneIsMissed
<1>4. PaneSpec => [][NoneMissed]_paneVars
  BY <1>1, <1>2, <1>3, PTL DEF PaneSpec
<1>5. NextMissesNone <=> [][NoneMissed]_paneVars
  BY DEF NoneMissed, NextMissesNone
<1> QED
  BY <1>4, <1>5, PTL
-----------------------------------------------------------------------------
(* Where the reader was.                                                   *)
PlaceKept(p, place) ==
  LET holding == {row \in ToSet(p.layout.rows) : Holds(row, place)}
  IN holding = {} \/ holding \cap ShownRows(p) # {}

LEMMA ClampShows ==
  ASSUME NEW x \in Nat \ {0}, NEW len \in Nat, x <= len, NEW page \in Nat \ {0},
         NEW scroll, scroll = Clamp(x - 1, len, page)
  PROVE  scroll \in Nat /\ scroll + 1 <= x /\ x <= scroll + page
BY DEF Clamp, MaxScroll, Smaller, Larger, Less

(* The first row that holds it is in view.                                 *)
LEMMA HeldShown ==
  ASSUME NEW q, PaneOK(q), q.viewport.len = Len(q.layout.rows),
         NEW l, NEW o, NEW x \in DOMAIN q.layout.rows, x \in Held(q, l, o),
         q.viewport.scroll = Clamp(Min(Held(q, l, o)) - 1, q.viewport.len, q.viewport.page)
  PROVE  \E y \in Held(q, l, o) : q.layout.rows[y] \in ShownRows(q)
<1> DEFINE held == Held(q, l, o)
           y == Min(held)
           len == Len(q.layout.rows)
<1>1. q.layout.rows \in Seq(Rows) /\ DOMAIN q.layout.rows = 1..len /\ len \in Nat
  BY DEF PaneOK, LayoutOK, Filled
<1>2. held \subseteq 1..len /\ held # {}
  BY <1>1 DEF Held, HoldingRows
<1>3. y \in held
  <2>1. held \subseteq Nat
    BY <1>1, <1>2
  <2> HIDE DEF held
  <2> QED
    BY <1>2, <2>1, MinIsLeast
<1>4. y \in 1..len /\ y \in Nat \ {0} /\ y <= len
  BY <1>1, <1>2, <1>3
<1>5. q.viewport.page \in Nat \ {0}
  BY DEF PaneOK, Sound, Viewport
<1>6. q.viewport.scroll = Clamp(y - 1, len, q.viewport.page)
  OBVIOUS
<1> HIDE DEF y
<1>7. q.viewport.scroll + 1 <= y /\ y <= q.viewport.scroll + q.viewport.page
  <2> HIDE DEF len
  <2> QED
    BY <1>1, <1>4, <1>5, <1>6, ClampShows
<1>8. q.layout.rows[y] \in ShownRows(q)
  BY <1>4, <1>7, ShownAre
<1> QED
  BY <1>3, <1>8

(* The line that says that there is none is in no text.                    *)
LEMMA NotNoMatch ==
  ASSUME NEW sel \in {"Live", "Other"}, NEW v \in Versions, Whole(sel, v)
  PROVE  \A i \in DOMAIN TextOf(sel, v) : TextOf(sel, v)[i] # NoMatch
<1> SUFFICES ASSUME NEW i \in DOMAIN TextOf(sel, v)
             PROVE  TextOf(sel, v)[i] # NoMatch
  OBVIOUS
<1>1. LineIs(sel, v, i)
  BY LinesOf
<1>2. v.lines \in Nat /\ v.lines <= Len(Live) /\ DOMAIN Live = 1..Len(Live) /\ Len(Live) \in Nat
  BY LinesAssumption DEF Versions
<1>3. /\ NoMatch # Report /\ NoMatch # Failure /\ NoMatch # Empty
      /\ \A k \in DOMAIN Live : Live[k] # NoMatch
      /\ \A k \in DOMAIN Other : Other[k] # NoMatch
  <2>1. /\ NoMatch # Report /\ NoMatch # Failure /\ NoMatch # Empty
        /\ NoMatch \notin ToSet(Live) /\ NoMatch \notin ToSet(Other)
    BY LinesAssumption
  <2> QED
    BY <2>1 DEF ToSet
<1>4. CASE IsReport(sel, v, i)
  BY <1>3, <1>4 DEF IsReport
<1>5. CASE IsOther(sel, v, i)
  BY <1>3, <1>5 DEF IsOther
<1>6. CASE IsEmpty(sel, v, i)
  BY <1>3, <1>6 DEF IsEmpty
<1>7. CASE IsPrinted(sel, v, i)
  <2>1. i \in DOMAIN Live /\ TextOf(sel, v)[i] = Live[i]
    BY <1>2, <1>7 DEF IsPrinted
  <2> QED
    BY <1>3, <2>1
<1>8. CASE IsFailure(sel, v, i)
  BY <1>3, <1>8 DEF IsFailure
<1> QED
  BY <1>1, <1>4, <1>5, <1>6, <1>7, <1>8 DEF LineIs

(* Rows at the place drawn are rows of the line that was at the top.       *)
LEMMA DrawnRows ==
  ASSUME PaneIInv, Untrimmed, pane.layoutInitialized, drawn # Absent,
         drawn.no # Failure.no,
         NEW q, PaneOK(q), Shows(q.layout.view, SourceText), q.layout.view.source # <<>>,
         NEW x \in DOMAIN q.layout.rows, Holds(q.layout.rows[x], drawn)
  PROVE  LET top == TopRow(pane)
         IN /\ top.line \in Nat /\ top.start \in Nat
            /\ x \in Held(q, top.line, top.start)
            /\ pane.layout.view.source # <<>>
            /\ \E m \in Until(arrived) :
                 LET text == TextOf(selected, m)
                 IN /\ IsText(text) /\ Shows(pane.layout.view, text)
                    /\ top.line + 1 \in DOMAIN text /\ top.line + 1 \in DOMAIN SourceText
                    /\ text[top.line + 1] = SourceText[top.line + 1]
<1> DEFINE top == TopRow(pane)
           T == SourceText
           rows == q.layout.rows
<1>0. /\ arrived \in Versions /\ T = TextOf(selected, arrived) /\ IsText(T) /\ PaneOK(pane)
      /\ selected \in {"Live", "Other"} /\ arrived \in Versions
      /\ Whole(selected, arrived)
  BY AtEnd DEF PaneIInv, Untrimmed, Whole
<1>1. PICK m \in Until(arrived) : Shows(pane.layout.view, TextOf(selected, m))
  BY DEF PaneIInv, LaidInv
<1> DEFINE T0 == TextOf(selected, m)
<1>2. IsText(T0)
  <2>1. m \in Versions
    BY DEF Until
  <2> QED
    BY <1>0, <2>1, TextsAre
<1>3. drawn = Place(pane)
  BY DEF PaneIInv, DrawnInv
<1>4. top \in Rows /\ \E t \in DOMAIN pane.layout.rows : top = pane.layout.rows[t]
  <2>1. LET t == Smaller(pane.viewport.scroll + 1, Len(pane.layout.rows))
        IN /\ t \in 1..Len(pane.layout.rows)
           /\ TopRow(pane) = pane.layout.rows[t]
           /\ TopRow(pane) \in Rows
           /\ pane.viewport.len = Len(pane.layout.rows) => t = pane.viewport.scroll + 1
    BY <1>0, TopIs
  <2>2. DOMAIN pane.layout.rows = 1..Len(pane.layout.rows)
    BY <1>0 DEF PaneOK, LayoutOK, Filled
  <2> QED
    BY <2>1, <2>2
<1>5. rows[x].no = top.no /\ rows[x].start <= top.start
      /\ (top.start < rows[x].end \/ rows[x].start = rows[x].end)
  BY <1>3 DEF Holds, Place
<1>6. TextRows(T, rows)
  <2>1. q.layout = NewLayout(q.layout.view, q.layout.width) /\ q.layout.width \in Nat \ {0}
    BY DEF PaneOK, LayoutOK, Layouts
  <2>2. LET rs == NewLayout(q.layout.view, q.layout.width).rows
        IN /\ Filled(rs)
           /\ q.layout.view.source # <<>> =>
                TextRows(SourceText, rs) /\ RowsHold(q.layout.view, SourceText, rs)
    BY <1>0, <2>1, ViewRows
  <2> QED
    BY <2>1, <2>2
<1>7. /\ rows[x].line \in Nat /\ rows[x].line + 1 \in DOMAIN T
      /\ rows[x].no = T[rows[x].line + 1].no
  BY <1>6 DEF TextRows
<1>8. /\ Filled(pane.layout.rows)
      /\ pane.layout.view.source # <<>> => TextRows(T0, pane.layout.rows)
      /\ pane.layout.view.source = <<>> => top.no = NoMatch.no
  <2>1. pane.layout = NewLayout(pane.layout.view, pane.layout.width)
        /\ pane.layout.width \in Nat \ {0}
    BY <1>0 DEF PaneOK, LayoutOK, Layouts
  <2> HIDE DEF T0
  <2>2. LET rs == NewLayout(pane.layout.view, pane.layout.width).rows
        IN /\ Filled(rs)
           /\ pane.layout.view.source # <<>> =>
                TextRows(T0, rs) /\ RowsHold(pane.layout.view, T0, rs)
           /\ pane.layout.view.source = <<>> =>
                \A y \in DOMAIN rs : rs[y].line = Absent /\ rs[y].no = NoMatch.no
    BY <1>1, <1>2, <2>1, ViewRows DEF T0
  <2>3. pane.layout.rows = NewLayout(pane.layout.view, pane.layout.width).rows
    BY <2>1
  <2> QED
    BY <1>4, <2>2, <2>3
<1>9. pane.layout.view.source # <<>>
  <2> SUFFICES ASSUME pane.layout.view.source = <<>>
               PROVE  FALSE
    OBVIOUS
  <2>1. T[rows[x].line + 1].no = NoMatch.no
    BY <1>5, <1>7, <1>8
  <2>2. T[rows[x].line + 1] \in Lines /\ NoMatch \in Lines
    BY <1>0, <1>7 DEF IsText, Lines
  <2>3. T[rows[x].line + 1] = NoMatch
    BY <2>1, <2>2, LinesAssumption
  <2> QED
    BY <1>0, <1>7, <2>3, NotNoMatch
<1>10. /\ top.line \in Nat /\ top.line + 1 \in DOMAIN T0 /\ top.no = T0[top.line + 1].no
       /\ top.start \in Nat
  BY <1>4, <1>8, <1>9 DEF TextRows, Rows
<1>11. top.line + 1 = rows[x].line + 1 /\ T0[top.line + 1] = T[rows[x].line + 1]
  <2> DEFINE i == top.line + 1
             j == rows[x].line + 1
  <2>1. i \in DOMAIN TextOf(selected, m) /\ j \in DOMAIN TextOf(selected, arrived)
        /\ TextOf(selected, m)[i].no = TextOf(selected, arrived)[j].no
        /\ TextOf(selected, m)[i].no # Failure.no
    BY <1>0, <1>3, <1>5, <1>7, <1>10 DEF Place
  <2> HIDE DEF i, j
  <2>2. i = j /\ TextOf(selected, m)[i] = TextOf(selected, arrived)[j]
    BY <1>0, <2>1, SameLine
  <2> QED
    BY <1>0, <2>2 DEF i, j
<1>12. rows[x].line = top.line
  BY <1>7, <1>10, <1>11
<1>13. x \in Held(q, top.line, top.start)
  <2>1. rows[x].line # Absent
    BY <1>7, LinesAssumption
  <2> QED
    BY <1>5, <1>12, <2>1 DEF Held, HoldingRows
<1>14. top.line + 1 \in DOMAIN T /\ T0[top.line + 1] = T[top.line + 1]
  BY <1>7, <1>11
<1> QED
  BY <1>1, <1>2, <1>9, <1>10, <1>13, <1>14

(* The place drawn stays in a pane that is laid out again at it.           *)
LEMMA PlaceRestored ==
  ASSUME PaneIInv, Untrimmed, pane.layoutInitialized, drawn # Absent,
         drawn.no # Failure.no,
         NEW q, PaneOK(q), Shows(q.layout.view, SourceText), q.layout.view.source # <<>>,
         q.viewport.len = Len(q.layout.rows),
         LET top == TopRow(pane)
         IN top.line # Absent /\ Held(q, top.line, top.start) # {} =>
              q.viewport.scroll = Clamp(Min(Held(q, top.line, top.start)) - 1,
                                        q.viewport.len, q.viewport.page)
  PROVE  PlaceKept(q, drawn)
<1> DEFINE rows == q.layout.rows
           top == TopRow(pane)
           holding == {row \in ToSet(rows) : Holds(row, drawn)}
<1>0. /\ arrived \in Versions /\ SourceText = TextOf(selected, arrived) /\ IsText(SourceText)
      /\ rows \in Seq(Rows)
  BY AtEnd DEF PaneOK, LayoutOK, Filled
<1>1. CASE holding = {}
  BY <1>1 DEF PlaceKept
<1>2. CASE holding # {}
  <2>1. PICK x \in DOMAIN rows : Holds(rows[x], drawn)
    BY <1>0, <1>2 DEF ToSet
  <2>2. /\ top.line \in Nat /\ top.start \in Nat
        /\ x \in Held(q, top.line, top.start)
    <3>1. LET t == TopRow(pane)
          IN /\ t.line \in Nat /\ t.start \in Nat
             /\ x \in Held(q, t.line, t.start)
             /\ pane.layout.view.source # <<>>
             /\ \E m \in Until(arrived) :
                  LET text == TextOf(selected, m)
                  IN /\ IsText(text) /\ Shows(pane.layout.view, text)
                     /\ t.line + 1 \in DOMAIN text /\ t.line + 1 \in DOMAIN SourceText
                     /\ text[t.line + 1] = SourceText[t.line + 1]
      BY <2>1, DrawnRows
    <3> QED
      BY <3>1
  <2>3. top.line # Absent
    BY <2>2, LinesAssumption
  <2>4. q.viewport.scroll = Clamp(Min(Held(q, top.line, top.start)) - 1,
                                  q.viewport.len, q.viewport.page)
    BY <2>2, <2>3
  <2> HIDE DEF top
  <2>5. PICK y \in Held(q, top.line, top.start) : rows[y] \in ShownRows(q)
    BY <2>2, <2>4, HeldShown
  <2>6. /\ y \in DOMAIN rows /\ rows[y].line = top.line /\ rows[y].start <= top.start
        /\ top.start < rows[y].end \/ rows[y].start = rows[y].end
    BY <2>5 DEF Held, HoldingRows
  <2>7. x \in DOMAIN rows /\ rows[x].line = top.line
    BY <2>2 DEF Held, HoldingRows
  <2>8. rows[y].no = rows[x].no
    <3>1. TextRows(SourceText, rows)
      <4>1. q.layout = NewLayout(q.layout.view, q.layout.width) /\ q.layout.width \in Nat \ {0}
        BY DEF PaneOK, LayoutOK, Layouts
      <4>2. LET rs == NewLayout(q.layout.view, q.layout.width).rows
            IN /\ Filled(rs)
               /\ q.layout.view.source # <<>> =>
                    TextRows(SourceText, rs) /\ RowsHold(q.layout.view, SourceText, rs)
        BY <1>0, <4>1, ViewRows
      <4> QED
        BY <4>1, <4>2
    <3>2. /\ rows[y].no = SourceText[rows[y].line + 1].no
          /\ rows[x].no = SourceText[rows[x].line + 1].no
      BY <2>6, <2>7, <3>1 DEF TextRows
    <3> QED
      BY <2>6, <2>7, <3>2
  <2>9. drawn = [no |-> top.no, offset |-> top.start]
    BY DEF PaneIInv, DrawnInv, Place, top
  <2>10. rows[x].no = top.no
    BY <2>1, <2>9 DEF Holds
  <2>11. Holds(rows[y], drawn)
    BY <2>6, <2>8, <2>9, <2>10 DEF Holds
  <2>12. rows[y] \in holding
    BY <1>0, <2>6, <2>11 DEF ToSet
  <2> HIDE DEF holding
  <2>13. holding \cap ShownRows(q) # {}
    BY <2>5, <2>12
  <2> QED
    BY <2>13 DEF PlaceKept, holding
<1> QED
  BY <1>1, <1>2

LEMMA PlaceStands ==
  ASSUME PaneIInv, drawn # Absent, NEW q, q.layout = pane.layout, ShownRows(q) = ShownRows(pane)
  PROVE  PlaceKept(q, drawn)
<1> DEFINE top == TopRow(pane)
           rows == pane.layout.rows
           t == pane.viewport.scroll + 1
<1>0. PaneOK(pane) /\ drawn = Place(pane) /\ pane.viewport.len = Len(rows)
  BY DEF PaneIInv, DrawnInv
<1>1. t \in 1..Len(rows) /\ top = rows[t] /\ top \in Rows
  <2>1. LET u == Smaller(pane.viewport.scroll + 1, Len(pane.layout.rows))
        IN /\ u \in 1..Len(pane.layout.rows)
           /\ TopRow(pane) = pane.layout.rows[u]
           /\ TopRow(pane) \in Rows
           /\ pane.viewport.len = Len(pane.layout.rows) => u = pane.viewport.scroll + 1
    BY <1>0, TopIs
  <2> QED
    BY <1>0, <2>1
<1>2. Filled(rows) /\ rows \in Seq(Rows) /\ DOMAIN rows = 1..Len(rows)
  BY <1>0 DEF PaneOK, LayoutOK, Filled
<1>3. pane.viewport.scroll \in Nat /\ pane.viewport.page \in Nat \ {0}
  BY <1>0 DEF PaneOK, Sound, Viewport
<1>4. top \in ShownRows(pane)
  <2>1. pane.viewport.scroll + 1 <= t /\ t <= pane.viewport.scroll + pane.viewport.page
    BY <1>3
  <2> HIDE DEF t
  <2> QED
    BY <1>0, <1>1, <2>1, ShownAre
<1>5. Holds(top, drawn)
  <2>1. drawn = [no |-> top.no, offset |-> top.start]
    BY <1>0 DEF Place
  <2>2. top.start < top.end \/ (top.start = 0 /\ top.end = 0)
    BY <1>1, <1>2 DEF Filled
  <2>3. top.start \in Nat /\ top.end \in Nat
    BY <1>1 DEF Rows
  <2> HIDE DEF top
  <2> QED
    BY <2>1, <2>2, <2>3 DEF Holds
<1>6. top \in ToSet(q.layout.rows)
  BY <1>1, <1>2 DEF ToSet
<1> HIDE DEF top
<1> QED
  BY <1>4, <1>5, <1>6 DEF PlaceKept

-----------------------------------------------------------------------------
(* Laid out again at its width, the pane begins with the same row if the   *)
(* rows up to that one are the same and there are no fewer.                *)
Stands(p, text) ==
  LET rows == NewLayout(OutputView(p, text), p.width).rows
  IN /\ Len(p.layout.rows) <= Len(rows)
     /\ \A i \in 1..p.viewport.scroll + 1 : rows[i] = p.layout.rows[i]

LEMMA TopStays ==
  ASSUME NEW p, PaneOK(p), p.layoutInitialized, ~p.viewport.follow,
         p.viewport.len = Len(p.layout.rows),
         NEW text, IsText(text), OutputView(p, text).source # <<>>, Stands(p, text)
  PROVE  TopRow(SyncLayout(p, text)) = TopRow(p)
<1> DEFINE s == SyncLayout(p, text)
           v1 == OutputView(p, text)
           r0 == p.layout.rows
           r1 == s.layout.rows
           t == p.viewport.scroll + 1
           top == TopRow(p)
<1>1. Prepared(p, text, p.viewport.page, s) /\ Anchored(p, p.viewport.page, s)
  <2>1. LET q == SyncLayout(p, text)
        IN Prepared(p, text, p.viewport.page, q) /\ Anchored(p, p.viewport.page, q)
    BY SyncIs
  <2> QED
    BY <2>1
<1> HIDE DEF s
<1>2. /\ PaneOK(s) /\ s.layout = NewLayout(v1, p.width)
      /\ s.viewport.page = p.viewport.page /\ s.viewport.len = Len(r1)
  BY <1>1 DEF Prepared
<1>3. Shows(v1, text)
  <2>1. LET view == OutputView(p, text)
        IN Shows(view, text)
    BY ViewIs
  <2> QED
    BY <2>1
<1>4. /\ p.width \in Nat \ {0}
      /\ Filled(r0) /\ Len(r0) \in Nat /\ DOMAIN r0 = 1..Len(r0)
  BY WidthsAre DEF PaneOK, LayoutOK, Filled
<1>7. v1.source # <<>>
  OBVIOUS
<1>9. Len(r0) <= Len(r1) /\ \A x \in 1..t : r1[x] = r0[x]
  BY <1>2 DEF Stands
<1> HIDE DEF v1
<1>10. t \in 1..Len(r0) /\ top = r0[t] /\ top \in Rows
  <2>1. LET u == Smaller(p.viewport.scroll + 1, Len(p.layout.rows))
        IN /\ u \in 1..Len(p.layout.rows)
           /\ TopRow(p) = p.layout.rows[u]
           /\ TopRow(p) \in Rows
           /\ p.viewport.len = Len(p.layout.rows) => u = p.viewport.scroll + 1
    BY TopIs
  <2> QED
    BY <2>1
<1>11. /\ Filled(r1) /\ TextRows(text, r1) /\ Len(r1) \in Nat /\ DOMAIN r1 = 1..Len(r1)
  <2>1. LET rows == NewLayout(v1, p.width).rows
        IN /\ Filled(rows)
           /\ v1.source # <<>> => TextRows(text, rows) /\ RowsHold(v1, text, rows)
    BY <1>3, <1>4, ViewRows
  <2>2. Filled(r1) /\ TextRows(text, r1)
    BY <1>2, <1>7, <2>1
  <2> QED
    BY <2>2 DEF Filled
<1>12. t \in 1..Len(r1) /\ r1[t] = top /\ t \in Nat
  <2>1. t \in 1..t
    BY <1>4, <1>10
  <2>2. r1[t] = r0[t]
    BY <1>9, <2>1
  <2> HIDE DEF t
  <2> QED
    BY <1>4, <1>9, <1>10, <1>11, <2>2
<1> DEFINE held == Held(s, top.line, top.start)
<1>13. top.line \in Nat /\ top.line # Absent /\ top.start \in Nat /\ top.end \in Nat
       /\ (top.start < top.end \/ top.start = top.end)
  <2>1. r1[t].line \in Nat
    BY <1>11, <1>12 DEF TextRows
  <2>2. r1[t].start < r1[t].end \/ (r1[t].start = 0 /\ r1[t].end = 0)
    BY <1>11, <1>12 DEF Filled
  <2>3. top.start \in Nat /\ top.end \in Nat
    BY <1>10 DEF Rows
  <2> HIDE DEF top, r1
  <2> QED
    BY <1>12, <2>1, <2>2, <2>3, LinesAssumption
<1>14. t \in held
  <2>1. t \in DOMAIN r1 /\ r1[t] = top
    BY <1>11, <1>12
  <2>2. top.start <= top.start /\ top.line # Absent
        /\ (top.start < top.end \/ top.start = top.end)
    BY <1>13
  <2> HIDE DEF t, top
  <2> QED
    BY <2>1, <2>2 DEF Held, HoldingRows
<1>15. ASSUME NEW x \in held
       PROVE  t <= x
  <2> SUFFICES ASSUME x < t
               PROVE  FALSE
    <3>1. x \in DOMAIN r1
      BY DEF Held, HoldingRows
    <3> QED
      BY <1>11, <1>12, <3>1
  <2>1. /\ x \in DOMAIN r1 /\ r1[x].line = top.line /\ r1[x].start <= top.start
        /\ (top.start < r1[x].end \/ r1[x].start = r1[x].end)
    BY DEF Held, HoldingRows
  <2>2. r1[x].end <= r1[t].start /\ r1[x].start < r1[x].end
    BY <1>11, <1>12, <2>1 DEF TextRows
  <2>3. r1[x].start \in Nat /\ r1[x].end \in Nat
    <3>1. r1[x] \in Rows
      BY <1>11, <2>1 DEF Filled
    <3> QED
      BY <3>1 DEF Rows
  <2> HIDE DEF top, r1
  <2> QED
    BY <1>12, <1>13, <2>1, <2>2, <2>3
<1>16. Min(held) = t
  <2>1. held \subseteq Nat /\ held # {}
    BY <1>11, <1>14 DEF Held, HoldingRows
  <2> HIDE DEF held, t
  <2>2. Min(held) \in held /\ \A x \in held : Min(held) <= x
    BY <2>1, MinIsLeast
  <2>3. Min(held) \in Nat /\ t \in Nat
    BY <1>12, <2>1, <2>2
  <2>4. t <= Min(held)
    BY <1>15, <2>2
  <2>5. Min(held) <= t
    BY <1>14, <2>2
  <2> QED
    BY <2>3, <2>4, <2>5
<1>17. s.viewport.scroll = Clamp(t - 1, Len(r1), p.viewport.page)
  <2>1. held # {}
    BY <1>14
  <2> QED
    BY <1>1, <1>2, <1>13, <1>16, <2>1 DEF Anchored
<1>18. s.viewport.scroll = p.viewport.scroll
  <2> DEFINE scroll == p.viewport.scroll
             page == p.viewport.page
             n0 == Len(r0)
             n1 == Len(r1)
  <2>1. scroll \in Nat /\ page \in Nat \ {0} /\ scroll <= MaxScroll(n0, page)
    BY DEF PaneOK, Sound, Viewport
  <2>2. t - 1 = scroll
    BY <2>1
  <2>3. n0 \in Nat /\ n1 \in Nat /\ n0 <= n1
    BY <1>4, <1>9, <1>11
  <2> HIDE DEF scroll, page, n0, n1, r0, r1
  <2>4. Clamp(scroll, n1, page) = scroll
    BY <2>1, <2>3 DEF Clamp, MaxScroll, Smaller, Larger, Less
  <2> QED
    BY <1>17, <2>2, <2>4 DEF scroll, page, n1
<1>19. TopRow(s) = r1[t]
  <2>1. LET u == Smaller(s.viewport.scroll + 1, Len(s.layout.rows))
        IN /\ u \in 1..Len(s.layout.rows)
           /\ TopRow(s) = s.layout.rows[u]
           /\ TopRow(s) \in Rows
           /\ s.viewport.len = Len(s.layout.rows) => u = s.viewport.scroll + 1
    BY <1>2, TopIs
  <2> QED
    BY <1>2, <1>18, <2>1
<1> QED
  BY <1>12, <1>19 DEF s

LEMMA EmptyKeepsPlace ==
  ASSUME PaneIInv, Untrimmed, pane.layoutInitialized, drawn # Absent,
         drawn.no # Failure.no,
         NEW p, SameBut(pane, p), ~p.viewport.follow,
         p.viewport.len = pane.viewport.len, p.viewport.scroll = pane.viewport.scroll,
         TopRow(p) = TopRow(pane),
         OutputView(pane, SourceText).source # <<>>, Stands(pane, SourceText),
         NEW s, TopRow(s) = TopRow(SyncLayout(p, SourceText)),
         NEW q, EmptiedQuery(s, SourceText, q)
  PROVE  PlaceKept(q, drawn)
<1> DEFINE T == SourceText
<1>0. /\ arrived \in Versions /\ T = TextOf(selected, arrived) /\ IsText(T) /\ PaneOK(pane)
      /\ selected \in {"Live", "Other"} /\ arrived \in Versions
      /\ Whole(selected, arrived)
  BY AtEnd DEF PaneIInv, Untrimmed, Whole
<1>1. /\ PaneOK(q) /\ Shows(q.layout.view, T) /\ q.layout.view.source # <<>>
      /\ q.viewport.len = Len(q.layout.rows)
  BY DEF EmptiedQuery
<1>2. /\ PaneOK(p) /\ p.layoutInitialized /\ p.layout = pane.layout /\ p.width = pane.width
      /\ p.viewport.len = Len(p.layout.rows)
  BY DEF SameBut, PaneIInv, DrawnInv
<1>3. OutputView(p, T) = OutputView(pane, T)
  BY SameView DEF SameBut
<1>4. OutputView(p, T).source # <<>> /\ Stands(p, T)
  BY <1>2, <1>3 DEF Stands
<1>5. TopRow(s) = TopRow(pane)
  <2> HIDE DEF T
  <2>1. TopRow(SyncLayout(p, T)) = TopRow(p)
    BY <1>0, <1>2, <1>4, TopStays
  <2> QED
    BY <2>1 DEF T
<1>6. LET top == TopRow(pane)
      IN top.line # Absent /\ Held(q, top.line, top.start) # {} =>
           q.viewport.scroll = Clamp(Min(Held(q, top.line, top.start)) - 1,
                                     q.viewport.len, q.viewport.page)
  BY <1>5 DEF EmptiedQuery
<1> QED
  BY <1>1, <1>6, PlaceRestored DEF T

ReaderKept == pane.layoutInitialized /\ Untrimmed' => KeepsPlace

LEMMA ReaderIsKept ==
  ASSUME PaneIInv, [PaneNext]_paneVars
  PROVE  ReaderKept
<1> SUFFICES ASSUME pane.layoutInitialized, Untrimmed', drawn # Absent, drawn' # Absent,
                    ~pane.viewport.follow, OutputView(pane, SourceText).source # <<>>,
                    drawn.no # Failure.no
             PROVE  PlaceKept(pane', drawn)
  BY DEF ReaderKept, KeepsPlace, PlaceKept
<1>0. PaneOK(pane) /\ IsText(SourceText) /\ LaidFor(pane, selected, arrived)
  BY AtEnd
<1>1. UNCHANGED <<selected, arrived>> => Untrimmed
  BY DEF Untrimmed
<1>2. CASE TestPrints \/ TestFails \/ RunEnds
  <2>1. pane' = pane
    BY <1>2 DEF TestPrints, TestFails, RunEnds
  <2>2. ShownRows(pane') = ShownRows(pane)
    BY <2>1 DEF ShownRows
  <2> QED
    BY <2>1, <2>2, PlaceStands
<1>3. CASE \E page \in Pages, width \in Widths : Frame(page, width)
  <2>1. PICK page \in Pages, width \in Widths : Frame(page, width)
    BY <1>3
  <2> DEFINE p == [pane EXCEPT !.width = width]
  <2>2. pane' = PrepareLayout(p, SourceText, page) /\ Untrimmed
    BY <1>1, <2>1 DEF Frame
  <2>3. /\ p.layoutInitialized /\ ~p.viewport.follow /\ TopRow(p) = TopRow(pane)
        /\ p.query = pane.query /\ p.filter = pane.filter /\ PaneOK(p)
    <3>1. PaneOK(p)
      BY <1>0, Changed
    <3>2. p.query = pane.query /\ p.filter = pane.filter /\ p.layout = pane.layout
          /\ p.viewport = pane.viewport /\ p.layoutInitialized = pane.layoutInitialized
      BY <1>0 DEF PaneOK, PaneType
    <3> HIDE DEF p
    <3> QED
      BY <3>1, <3>2 DEF TopRow
  <2> HIDE DEF p
  <2>4. Prepared(p, SourceText, page, pane') /\ Anchored(p, page, pane')
    <3>1. page \in Nat \ {0}
      BY PagesAre
    <3> QED
      BY <1>0, <2>2, <2>3, <3>1, PrepareIs
  <2>5. OutputView(p, SourceText) = OutputView(pane, SourceText)
    BY <2>3, SameView
  <2>6. /\ PaneOK(pane') /\ pane'.layout.view = OutputView(pane, SourceText)
        /\ pane'.viewport.len = Len(pane'.layout.rows) /\ pane'.viewport.page = page
    BY <2>4, <2>5 DEF Prepared
  <2>7. Shows(pane'.layout.view, SourceText)
    <3>1. LET view == OutputView(pane, SourceText)
          IN Shows(view, SourceText)
      BY <1>0, ViewIs
    <3> QED
      BY <2>6, <3>1
  <2>8. LET top == TopRow(pane)
        IN top.line # Absent /\ Held(pane', top.line, top.start) # {} =>
             pane'.viewport.scroll = Clamp(Min(Held(pane', top.line, top.start)) - 1,
                                           pane'.viewport.len, pane'.viewport.page)
    BY <2>3, <2>4, <2>6 DEF Anchored
  <2> DEFINE q == pane'
  <2>9. /\ PaneOK(q) /\ Shows(q.layout.view, SourceText) /\ q.layout.view.source # <<>>
        /\ q.viewport.len = Len(q.layout.rows)
        /\ LET top == TopRow(pane)
           IN top.line # Absent /\ Held(q, top.line, top.start) # {} =>
                q.viewport.scroll = Clamp(Min(Held(q, top.line, top.start)) - 1,
                                          q.viewport.len, q.viewport.page)
    BY <2>6, <2>7, <2>8
  <2> HIDE DEF q
  <2>10. PlaceKept(q, drawn)
    BY <2>2, <2>9, PlaceRestored
  <2> QED
    BY <2>10 DEF q
<1>4. CASE StartSearch
  <2>1. pane' = DisableSnap(pane)
    BY <1>4 DEF StartSearch
  <2>2. LET s == DisableSnap(pane)
        IN /\ SameBut(pane, s)
           /\ s.viewport.page = pane.viewport.page /\ s.viewport.len = pane.viewport.len
           /\ s.viewport.scroll = pane.viewport.scroll /\ s.viewport.follow = FALSE
           /\ TopRow(s) = TopRow(pane)
           /\ TopPosition(s) = TopPosition(pane)
           /\ ShownRows(s) = ShownRows(pane)
    BY <1>0, Freed
  <2>3. pane'.layout = pane.layout /\ ShownRows(pane') = ShownRows(pane)
    BY <2>1, <2>2 DEF SameBut
  <2> QED
    BY <2>3, PlaceStands
<1>5. CASE \E query \in Queries \cup {Invalid} : ToggleMode(query)
  <2>1. pane'.layout = pane.layout /\ ShownRows(pane') = ShownRows(pane)
    BY <1>5, ToggleModeKeeps
  <2> QED
    BY <2>1, PlaceStands
<1> DEFINE free == DisableSnap(pane)
<1>6. /\ SameBut(pane, free) /\ ~free.viewport.follow
      /\ free.viewport.len = pane.viewport.len /\ TopRow(free) = TopRow(pane)
      /\ free.viewport.scroll = pane.viewport.scroll
  <2>1. LET s == DisableSnap(pane)
        IN /\ SameBut(pane, s)
           /\ s.viewport.page = pane.viewport.page /\ s.viewport.len = pane.viewport.len
           /\ s.viewport.scroll = pane.viewport.scroll /\ s.viewport.follow = FALSE
           /\ TopRow(s) = TopRow(pane)
           /\ TopPosition(s) = TopPosition(pane)
           /\ ShownRows(s) = ShownRows(pane)
    BY <1>0, Freed
  <2> QED
    BY <2>1
<1>7. KeptPlace # Absent => Stands(pane, SourceText)
  BY DEF KeptPlace, Stands
<1>8. CASE \E query \in Queries \cup {NoQuery, Invalid}, filter \in BOOLEAN :
             ApplySearch(query, filter)
  <2>1. PICK query \in Queries \cup {NoQuery, Invalid}, filter \in BOOLEAN :
               ApplySearch(query, filter)
    BY <1>8
  <2> DEFINE z == SyncLayout(free, SourceText)
             f == [z EXCEPT !.filter = filter]
  <2>2. query = NoQuery /\ KeptPlace # Absent /\ Untrimmed
    BY <1>1, <2>1 DEF ApplySearch
  <2>3. pane' = EmptyQuery(f, SourceText)
    BY <2>1, <2>2 DEF ApplySearch
  <2>4. PaneOK(z) /\ LaidFor(z, selected, arrived)
    <3>1. LET q == SyncLayout(DisableSnap(pane), SourceText)
          IN KeepsSearch(pane, q) /\ LaidFor(q, selected, arrived)
      BY SyncFreed
    <3> QED
      BY <3>1 DEF KeepsSearch
  <2> HIDE DEF z
  <2>5. PaneOK(f) /\ TopRow(f) = TopRow(z)
    <3>1. LET q == [z EXCEPT !.filter = filter]
          IN KeepsSearch(z, q) /\ LaidFor(q, selected, arrived) /\ TopRow(q) = TopRow(z)
      BY <2>4, FilterSet
    <3> QED
      BY <3>1 DEF KeepsSearch
  <2> HIDE DEF f
  <2>6. EmptiedQuery(f, SourceText, pane')
    BY <1>0, <2>3, <2>5, EmptiedIs
  <2> HIDE DEF free
  <2>7. TopRow(f) = TopRow(SyncLayout(free, SourceText))
    BY <2>5 DEF z
  <2> DEFINE q == pane'
  <2>8. EmptiedQuery(f, SourceText, q)
    BY <2>6
  <2> HIDE DEF q
  <2>9. PlaceKept(q, drawn)
    BY <1>6, <1>7, <2>2, <2>7, <2>8, EmptyKeepsPlace
  <2> QED
    BY <2>9 DEF q
<1>9. CASE ClearSearch
  <2> DEFINE z == SyncLayout(pane, SourceText)
  <2>1. pane' = EmptyQuery(z, SourceText) /\ KeptPlace # Absent /\ Untrimmed
    BY <1>1, <1>9 DEF ClearSearch
  <2>2. PaneOK(z)
    <3>1. LET q == SyncLayout(pane, SourceText)
          IN KeepsSearch(pane, q)
      BY SyncHere
    <3> QED
      BY <3>1 DEF KeepsSearch
  <2> HIDE DEF z
  <2>3. EmptiedQuery(z, SourceText, pane')
    BY <1>0, <2>1, <2>2, EmptiedIs
  <2> DEFINE q == pane'
  <2>4. EmptiedQuery(z, SourceText, q) /\ TopRow(z) = TopRow(SyncLayout(pane, SourceText))
    BY <2>3 DEF z
  <2> HIDE DEF q
  <2>5. SameBut(pane, pane)
    BY <1>0 DEF SameBut
  <2>6. PlaceKept(q, drawn)
    BY <1>7, <2>1, <2>4, <2>5, EmptyKeepsPlace
  <2> QED
    BY <2>6 DEF q
<1>10. CASE \/ Select \/ CommandFails \/ BeginRun \/ (\E action \in ScrollActions : ScrollBy(action)) \/ ToggleSnap
            \/ ToggleFilter \/ (\E direction \in {"Next", "Previous"} : FindMatch(direction))
  BY <1>10 DEF Select, CommandFails, BeginRun, ScrollBy, ToggleSnap, ToggleFilter, FindMatch
<1>11. CASE UNCHANGED paneVars
  <2>1. pane' = pane
    BY <1>11 DEF paneVars
  <2>2. ShownRows(pane') = ShownRows(pane)
    BY <2>1 DEF ShownRows
  <2> QED
    BY <2>1, <2>2, PlaceStands
<1> QED
  BY <1>2, <1>3, <1>4, <1>5, <1>8, <1>9, <1>10, <1>11 DEF PaneNext

(* Who reads keeps the place, whatever is printed meanwhile.               *)
THEOREM ReaderKeepsPlace == PaneSpec => ReaderStays
<1>1. PaneInit => PaneIInv
  BY PaneStarts
<1>2. PaneIInv /\ [PaneNext]_paneVars => PaneIInv'
  BY PaneSteps
<1>3. PaneIInv /\ [PaneNext]_paneVars => [ReaderKept]_paneVars
  BY ReaderIsKept
<1>4. PaneSpec => [][ReaderKept]_paneVars
  BY <1>1, <1>2, <1>3, PTL DEF PaneSpec
<1>5. ReaderStays <=> [][ReaderKept]_paneVars
  BY DEF ReaderStays, ReaderKept
<1> QED
  BY <1>4, <1>5, PTL
=============================================================================
