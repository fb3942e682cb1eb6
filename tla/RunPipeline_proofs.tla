------------------------- MODULE RunPipeline_proofs --------------------------
(***************************************************************************)
(* Proofs about RunPipeline for every capacity, batch size, number of      *)
(* groups, lines and keys. The first part speaks of the end of a run, and  *)
(* rests on one inductive invariant: where the terminal event may be, and  *)
(* what is over by then. The second shows that RunPipeline implements      *)
(* RunLifecycle.                                                           *)
(***************************************************************************)
EXTENDS RunPipeline, SequenceTheorems, TLAPS

NoRunEvents(s) == \A i \in 1..Len(s) : ~IsRunEvent(s[i])

NoTerminals(s) == \A i \in 1..Len(s) : ~IsTerminal(s[i])

EndsWithTerminal(s) ==
  \A i, j \in 1..Len(s) : IsTerminal(s[i]) /\ i < j => ~IsRunEvent(s[j])

Supervising == pc \in {"wait", "note", "grace", "force", "killed"}

(* The tasks of a run: what each of them is doing tells what the others    *)
(* may still do.                                                           *)
TaskInv ==
  /\ pc = "idle" <=> forwarder = "off"
  /\ pc = "idle" => out = "off" /\ err = "off" /\ child = "none"
  /\ child = "alive" => Supervising
  /\ out = "reading" \/ err = "reading" => forwarder # "off"

(* The channels: a forwarder that returned left nothing behind, and a      *)
(* producer that is done has left a terminal event for it.                 *)
ChannelInv ==
  /\ forwarder # "on" => runChan = <<>> /\ hand = <<>> /\ held = <<>>
  /\ \A i \in 1..Len(held) : IsTerminal(held[i])
  /\ NoTerminals(hand)
  /\ pc # "done" => NoTerminals(runChan) /\ held = <<>>
  /\ pc = "done" /\ forwarder = "on" /\ held = <<>> => ~NoTerminals(runChan)

(* The user's side, as long as the loop runs.                              *)
EndInv ==
  loop = "run" =>
    /\ forwarder = "off" => ~running
    /\ forwarder = "on" => running /\ NoTerminals(batch) /\ NoTerminals(queue)
    /\ forwarder = "done" => SendersGone
    /\ ~running => NoRunEvents(batch) /\ NoRunEvents(queue)
    /\ running /\ forwarder = "done" => ~NoTerminals(batch) \/ ~NoTerminals(queue)
    /\ EndsWithTerminal(batch)
    /\ EndsWithTerminal(queue)
    /\ ~NoTerminals(batch) => NoRunEvents(queue)

IInv == TypeOK /\ TaskInv /\ ChannelInv /\ EndInv

-----------------------------------------------------------------------------
(* Facts about the sequences of events.                                    *)

(* What an element of a tail or of a part of a sequence is.                *)
LEMMA TailFacts ==
  ASSUME NEW s \in Seq(Event), s # <<>>
  PROVE  /\ Tail(s) \in Seq(Event)
         /\ Head(s) \in Event
         /\ Head(s) = s[1]
         /\ Len(Tail(s)) = Len(s) - 1
         /\ Len(s) \in Nat \ {0}
         /\ \A i \in 1..Len(Tail(s)) : Tail(s)[i] = s[i + 1]
  OBVIOUS

LEMMA PartFacts ==
  ASSUME NEW s \in Seq(Event), NEW n \in 1..Len(s)
  PROVE  /\ SubSeq(s, 1, n) \in Seq(Event)
         /\ Len(SubSeq(s, 1, n)) = n
         /\ \A i \in 1..n : SubSeq(s, 1, n)[i] = s[i]
         /\ SubSeq(s, n + 1, Len(s)) \in Seq(Event)
         /\ Len(SubSeq(s, n + 1, Len(s))) = Len(s) - n
         /\ \A i \in 1..(Len(s) - n) : SubSeq(s, n + 1, Len(s))[i] = s[i + n]
  OBVIOUS

LEMMA ConcatFacts ==
  ASSUME NEW s \in Seq(Event), NEW t \in Seq(Event)
  PROVE  /\ s \o t \in Seq(Event)
         /\ Len(s \o t) = Len(s) + Len(t)
         /\ \A i \in 1..Len(s) : (s \o t)[i] = s[i]
         /\ \A i \in 1..Len(t) : (s \o t)[i + Len(s)] = t[i]
  OBVIOUS

LEMMA AppendFacts ==
  ASSUME NEW s \in Seq(Event), NEW e \in Event
  PROVE  /\ Append(s, e) \in Seq(Event)
         /\ Len(Append(s, e)) = Len(s) + 1
         /\ \A i \in 1..Len(s) : Append(s, e)[i] = s[i]
         /\ Append(s, e)[Len(s) + 1] = e
  OBVIOUS

LEMMA SingletonFacts ==
  ASSUME NEW e \in Event
  PROVE  /\ <<e>> \in Seq(Event)
         /\ Len(<<e>>) = 1
         /\ <<e>>[1] = e
  OBVIOUS

LEMMA EmptyFacts == <<>> \in Seq(Event) /\ Len(<<>>) = 0
  OBVIOUS

(* What the tail of a batch keeps of the batch.                            *)
LEMMA TailKeeps ==
  ASSUME NEW s \in Seq(Event), s # <<>>
  PROVE  /\ NoRunEvents(s) => NoRunEvents(Tail(s)) /\ ~IsRunEvent(Head(s))
         /\ NoTerminals(s) => NoTerminals(Tail(s)) /\ ~IsTerminal(Head(s))
         /\ EndsWithTerminal(s) => EndsWithTerminal(Tail(s))
         /\ EndsWithTerminal(s) /\ IsTerminal(Head(s)) => NoRunEvents(Tail(s))
         /\ ~NoTerminals(s) /\ ~IsTerminal(Head(s)) => ~NoTerminals(Tail(s))
<1> DEFINE t == Tail(s)
<1>1. /\ Len(t) = Len(s) - 1
      /\ Len(s) \in Nat \ {0}
      /\ Head(s) = s[1]
      /\ \A i \in 1..Len(t) : t[i] = s[i + 1]
  BY TailFacts
<1>2. \A i \in 1..Len(t) : i + 1 \in 1..Len(s)
  BY <1>1
<1> HIDE DEF t
<1>3. NoRunEvents(s) => NoRunEvents(t) /\ ~IsRunEvent(Head(s))
  BY <1>1, <1>2 DEF NoRunEvents
<1>4. NoTerminals(s) => NoTerminals(t) /\ ~IsTerminal(Head(s))
  BY <1>1, <1>2 DEF NoTerminals
<1>5. EndsWithTerminal(s) => EndsWithTerminal(t)
  BY <1>1, <1>2 DEF EndsWithTerminal
<1>6. EndsWithTerminal(s) /\ IsTerminal(Head(s)) => NoRunEvents(t)
  BY <1>1, <1>2 DEF EndsWithTerminal, NoRunEvents
<1>7. ~NoTerminals(s) /\ ~IsTerminal(Head(s)) => ~NoTerminals(t)
  <2> SUFFICES ASSUME NEW i \in 1..Len(s), IsTerminal(s[i]), ~IsTerminal(s[1])
               PROVE  \E j \in 1..Len(t) : IsTerminal(t[j])
    BY <1>1 DEF NoTerminals
  <2>1. i # 1
    OBVIOUS
  <2>2. i - 1 \in 1..Len(t) /\ t[i - 1] = s[i]
    BY <1>1, <2>1
  <2> QED
    BY <2>2
<1> QED
  BY <1>3, <1>4, <1>5, <1>6, <1>7 DEF t

(* Draining moves a part of the queue into the batch and leaves the rest.  *)
LEMMA PartKeeps ==
  ASSUME NEW s \in Seq(Event), NEW n \in 1..Len(s)
  PROVE  LET a == SubSeq(s, 1, n)
             b == SubSeq(s, n + 1, Len(s))
         IN /\ NoRunEvents(s) => NoRunEvents(a) /\ NoRunEvents(b)
            /\ NoTerminals(s) => NoTerminals(a) /\ NoTerminals(b)
            /\ EndsWithTerminal(s) => EndsWithTerminal(a) /\ EndsWithTerminal(b)
            /\ EndsWithTerminal(s) /\ ~NoTerminals(a) => NoRunEvents(b)
            /\ ~NoTerminals(s) => ~NoTerminals(a) \/ ~NoTerminals(b)
<1> DEFINE a == SubSeq(s, 1, n)
           b == SubSeq(s, n + 1, Len(s))
<1>1. /\ Len(a) = n
      /\ \A i \in 1..n : a[i] = s[i]
      /\ Len(b) = Len(s) - n
      /\ \A i \in 1..(Len(s) - n) : b[i] = s[i + n]
      /\ Len(s) \in Nat
  BY PartFacts
<1>2. /\ \A i \in 1..Len(a) : i \in 1..Len(s)
      /\ \A i \in 1..Len(b) : i + n \in 1..Len(s)
  BY <1>1
<1> HIDE DEF a, b
<1>3. NoRunEvents(s) => NoRunEvents(a) /\ NoRunEvents(b)
  BY <1>1, <1>2 DEF NoRunEvents
<1>4. NoTerminals(s) => NoTerminals(a) /\ NoTerminals(b)
  BY <1>1, <1>2 DEF NoTerminals
<1>5. EndsWithTerminal(s) => EndsWithTerminal(a) /\ EndsWithTerminal(b)
  BY <1>1, <1>2 DEF EndsWithTerminal
<1>6. EndsWithTerminal(s) /\ ~NoTerminals(a) => NoRunEvents(b)
  BY <1>1, <1>2 DEF EndsWithTerminal, NoTerminals, NoRunEvents
<1>7. ~NoTerminals(s) => ~NoTerminals(a) \/ ~NoTerminals(b)
  <2> SUFFICES ASSUME NEW i \in 1..Len(s), IsTerminal(s[i])
               PROVE  \/ \E j \in 1..Len(a) : IsTerminal(a[j])
                      \/ \E j \in 1..Len(b) : IsTerminal(b[j])
    BY DEF NoTerminals
  <2>1. CASE i <= n
    BY <1>1, <2>1
  <2>2. CASE i > n
    <3>1. i - n \in 1..Len(b) /\ b[i - n] = s[i]
      BY <1>1, <2>2
    <3> QED
      BY <3>1
  <2> QED
    BY <2>1, <2>2
<1> QED
  BY <1>3, <1>4, <1>5, <1>6, <1>7 DEF a, b

(* Queueing: keys and progress leave the end of the run open; a terminal   *)
(* event may only follow a queue without one.                              *)
LEMMA ConcatKeeps ==
  ASSUME NEW s \in Seq(Event), NEW t \in Seq(Event)
  PROVE  /\ NoRunEvents(s) /\ NoRunEvents(t) => NoRunEvents(s \o t)
         /\ NoTerminals(s) /\ NoTerminals(t) => NoTerminals(s \o t)
         /\ NoTerminals(s) /\ EndsWithTerminal(t) => EndsWithTerminal(s \o t)
         /\ EndsWithTerminal(s) /\ NoRunEvents(t) => EndsWithTerminal(s \o t)
         /\ ~NoTerminals(s) => ~NoTerminals(s \o t)
         /\ ~NoTerminals(t) => ~NoTerminals(s \o t)
<1> DEFINE u == s \o t
<1>1. /\ Len(u) = Len(s) + Len(t)
      /\ \A i \in 1..Len(s) : u[i] = s[i]
      /\ \A i \in 1..Len(t) : u[i + Len(s)] = t[i]
      /\ Len(s) \in Nat /\ Len(t) \in Nat
      /\ \A i \in 1..Len(t) : t[i] \in Event
  BY ConcatFacts
<1>2. \A i \in 1..Len(u) :
        \/ i \in 1..Len(s) /\ u[i] = s[i]
        \/ i - Len(s) \in 1..Len(t) /\ u[i] = t[i - Len(s)] /\ i > Len(s)
  BY <1>1
<1>3. \A e : IsTerminal(e) => IsRunEvent(e)
  BY DEF IsTerminal, IsRunEvent, Terminal, Keys
<1> HIDE DEF u
<1>4. NoRunEvents(s) /\ NoRunEvents(t) => NoRunEvents(u)
  BY <1>2 DEF NoRunEvents
<1>5. NoTerminals(s) /\ NoTerminals(t) => NoTerminals(u)
  BY <1>2 DEF NoTerminals
<1>6. NoTerminals(s) /\ EndsWithTerminal(t) => EndsWithTerminal(u)
  <2> SUFFICES ASSUME NoTerminals(s), EndsWithTerminal(t),
                      NEW i \in 1..Len(u), NEW j \in 1..Len(u),
                      IsTerminal(u[i]), i < j
               PROVE  ~IsRunEvent(u[j])
    BY DEF EndsWithTerminal
  <2>1. i - Len(s) \in 1..Len(t) /\ u[i] = t[i - Len(s)] /\ i > Len(s)
    BY <1>2 DEF NoTerminals
  <2>2. j - Len(s) \in 1..Len(t) /\ u[j] = t[j - Len(s)]
    BY <1>1, <1>2, <2>1
  <2>3. i - Len(s) < j - Len(s)
    BY <1>1
  <2> QED
    BY <2>1, <2>2, <2>3 DEF EndsWithTerminal
<1>7. EndsWithTerminal(s) /\ NoRunEvents(t) => EndsWithTerminal(u)
  BY <1>1, <1>2, <1>3 DEF NoRunEvents, EndsWithTerminal
<1>8. ~NoTerminals(s) => ~NoTerminals(u)
  BY <1>1 DEF NoTerminals
<1>9. ~NoTerminals(t) => ~NoTerminals(u)
  BY <1>1 DEF NoTerminals
<1> QED
  BY <1>4, <1>5, <1>6, <1>7, <1>8, <1>9 DEF u

LEMMA EmptyKeeps == NoRunEvents(<<>>) /\ NoTerminals(<<>>) /\ EndsWithTerminal(<<>>)
  BY DEF NoRunEvents, NoTerminals, EndsWithTerminal

LEMMA AppendedEvent ==
  ASSUME NEW s \in Seq(Event), NEW e \in Event
  PROVE  /\ Append(s, e) = s \o <<e>>
         /\ <<e>> \in Seq(Event)
         /\ IsTerminal(e) => ~NoTerminals(<<e>>)
         /\ ~IsTerminal(e) => NoTerminals(<<e>>)
         /\ ~IsRunEvent(e) => NoRunEvents(<<e>>)
         /\ EndsWithTerminal(<<e>>)
  BY DEF NoRunEvents, NoTerminals, EndsWithTerminal

-----------------------------------------------------------------------------
(* Type correctness.                                                       *)

LEMMA SendType ==
  ASSUME TypeOK, NEW kind \in Progress, Send(kind)
  PROVE  /\ runChan' \in Seq(Event) /\ Len(runChan') <= RunCap
         /\ sent' \in Nat
<1>1. sent' = sent + 1 /\ sent \in Nat /\ runChan \in Seq(Event)
      /\ Len(runChan) <= RunCap
  BY DEF Send, TypeOK, PipeTypes, HistTypes
<1>2. [kind |-> kind, run |-> run, seq |-> sent + 1] \in Event
  BY DEF TypeOK, HistTypes, Event, Kinds
<1>3. CASE forwarder = "on"
  <2>1. /\ Len(runChan) < RunCap
        /\ runChan' = Append(runChan, [kind |-> kind, run |-> run, seq |-> sent + 1])
    BY <1>3 DEF Send
  <2> QED
    BY <1>1, <1>2, <2>1, AppendFacts, CapacityAssumption
<1>4. CASE forwarder # "on"
  BY <1>1, <1>4 DEF Send
<1> QED
  BY <1>3, <1>4

LEMMA SendTerminalType ==
  ASSUME TypeOK, NEW kind \in Terminal, SendTerminal(kind)
  PROVE  /\ runChan' \in Seq(Event) /\ Len(runChan') <= RunCap
         /\ verdict' \in Terminal \union {"none"} /\ sent' \in Nat
<1>1. sent' = sent /\ sent \in Nat /\ runChan \in Seq(Event)
      /\ Len(runChan) <= RunCap /\ verdict' = kind
  BY DEF SendTerminal, TypeOK, PipeTypes, HistTypes
<1>2. [kind |-> kind, run |-> run, seq |-> 0] \in Event
  BY DEF TypeOK, HistTypes, Event, Kinds
<1>3. CASE forwarder = "on"
  <2>1. /\ Len(runChan) < RunCap
        /\ runChan' = Append(runChan, [kind |-> kind, run |-> run, seq |-> 0])
    BY <1>3 DEF SendTerminal
  <2> QED
    BY <1>1, <1>2, <2>1, AppendFacts, CapacityAssumption
<1>4. CASE forwarder # "on"
  BY <1>1, <1>4 DEF SendTerminal
<1> QED
  BY <1>3, <1>4

LEMMA TypeInit == Init => TypeOK
<1> SUFFICES ASSUME Init
             PROVE  TypeOK
  OBVIOUS
<1>1. <<>> \in Seq(Event) /\ Len(<<>>) = 0 /\ 0 <= RunCap /\ 0 <= QueueCap
  BY EmptyFacts, CapacityAssumption
<1>2. UiTypes
  BY <1>1 DEF Init, UiTypes
<1>3. ProcTypes
  BY DEF Init, ProcTypes
<1>4. ReadTypes
  BY DEF Init, ReadTypes
<1>5. PipeTypes
  BY <1>1 DEF Init, PipeTypes
<1>6. HistTypes
  BY DEF Init, HistTypes
<1> QED
  BY <1>2, <1>3, <1>4, <1>5, <1>6 DEF TypeOK

(* A group of variables that a step leaves alone keeps its types.          *)
LEMMA FrameTypes ==
  ASSUME TypeOK
  PROVE  /\ UNCHANGED uiVars => UiTypes'
         /\ UNCHANGED procVars => ProcTypes'
         /\ UNCHANGED readVars => ReadTypes'
         /\ UNCHANGED pipeVars => PipeTypes'
         /\ UNCHANGED histVars => HistTypes'
<1>1. UNCHANGED uiVars => UiTypes'
  BY DEF TypeOK, uiVars, UiTypes
<1>2. UNCHANGED procVars => ProcTypes'
  BY DEF TypeOK, procVars, ProcTypes
<1>3. UNCHANGED readVars => ReadTypes'
  BY DEF TypeOK, readVars, ReadTypes
<1>4. UNCHANGED pipeVars => PipeTypes'
  BY DEF TypeOK, pipeVars, PipeTypes
<1>5. UNCHANGED histVars => HistTypes'
  BY DEF TypeOK, histVars, HistTypes
<1> QED
  BY <1>1, <1>2, <1>3, <1>4, <1>5

LEMMA TypeNext == TypeOK /\ [Next]_vars => TypeOK'
<1> SUFFICES ASSUME TypeOK, [Next]_vars
             PROVE  TypeOK'
  OBVIOUS
<1>e. <<>> \in Seq(Event) /\ Len(<<>>) = 0 /\ 0 <= RunCap /\ 0 <= QueueCap
  BY EmptyFacts, CapacityAssumption
<1>t. batch # <<>> => Tail(batch) \in Seq(Event) /\ Head(batch) \in Event
  BY TailFacts DEF TypeOK, UiTypes
<1>1. CASE Announce
  <2>s. runChan' \in Seq(Event) /\ Len(runChan') <= RunCap /\ sent' \in Nat
    <3>1. CASE groups > 1
      BY <1>1, <3>1, SendType DEF Announce, Progress
    <3>2. CASE ~(groups > 1)
      BY <1>1, <3>2 DEF Announce, TypeOK, PipeTypes, HistTypes
    <3> QED
      BY <3>1, <3>2
  <2>proc. ProcTypes'
    BY <1>1 DEF Announce, producerOnly, uiVars, readVars, TypeOK, ProcTypes
  <2>pipe. PipeTypes'
    BY <1>1, <2>s DEF Announce, producerOnly, uiVars, readVars, TypeOK, PipeTypes
  <2>hist. HistTypes'
    BY <1>1, <2>s DEF Announce, producerOnly, uiVars, readVars, TypeOK, HistTypes
  <2>rest. UiTypes' /\ ReadTypes'
    BY <1>1, FrameTypes DEF Announce, producerOnly, uiVars, readVars, uiVars, readVars
  <2> QED
    BY <2>proc, <2>pipe, <2>hist, <2>rest DEF TypeOK
<1>2. CASE Terminate
  <2>s. runChan' \in Seq(Event) /\ Len(runChan') <= RunCap /\ sent' \in Nat
    BY <1>2, SendType DEF Terminate, Progress
  <2>proc. ProcTypes'
    BY <1>2 DEF Terminate, producerOnly, uiVars, readVars, TypeOK, ProcTypes
  <2>pipe. PipeTypes'
    BY <1>2, <2>s DEF Terminate, producerOnly, uiVars, readVars, TypeOK, PipeTypes
  <2>hist. HistTypes'
    BY <1>2, <2>s DEF Terminate, producerOnly, uiVars, readVars, TypeOK, HistTypes
  <2>rest. UiTypes' /\ ReadTypes'
    BY <1>2, FrameTypes DEF Terminate, producerOnly, uiVars, readVars, uiVars, readVars
  <2> QED
    BY <2>proc, <2>pipe, <2>hist, <2>rest DEF TypeOK
<1>3. CASE ForceKill
  <2>s. runChan' \in Seq(Event) /\ Len(runChan') <= RunCap /\ sent' \in Nat
    BY <1>3, SendType DEF ForceKill, Progress
  <2>proc. ProcTypes'
    BY <1>3 DEF ForceKill, producerOnly, uiVars, readVars, TypeOK, ProcTypes
  <2>pipe. PipeTypes'
    BY <1>3, <2>s DEF ForceKill, producerOnly, uiVars, readVars, TypeOK, PipeTypes
  <2>hist. HistTypes'
    BY <1>3, <2>s DEF ForceKill, producerOnly, uiVars, readVars, TypeOK, HistTypes
  <2>rest. UiTypes' /\ ReadTypes'
    BY <1>3, FrameTypes DEF ForceKill, producerOnly, uiVars, readVars, uiVars, readVars
  <2> QED
    BY <2>proc, <2>pipe, <2>hist, <2>rest DEF TypeOK
<1>4. CASE ReportError
  <2>s. runChan' \in Seq(Event) /\ Len(runChan') <= RunCap /\ sent' \in Nat
    BY <1>4, SendType DEF ReportError, Progress
  <2>proc. ProcTypes'
    BY <1>4 DEF ReportError, producerOnly, uiVars, readVars, TypeOK, ProcTypes
  <2>pipe. PipeTypes'
    BY <1>4, <2>s DEF ReportError, producerOnly, uiVars, readVars, TypeOK, PipeTypes
  <2>hist. HistTypes'
    BY <1>4, <2>s DEF ReportError, producerOnly, uiVars, readVars, TypeOK, HistTypes
  <2>rest. UiTypes' /\ ReadTypes'
    BY <1>4, FrameTypes DEF ReportError, producerOnly, uiVars, readVars, uiVars, readVars
  <2> QED
    BY <2>proc, <2>pipe, <2>hist, <2>rest DEF TypeOK
<1>5. CASE ChildWaited
  <2>proc. ProcTypes'
    BY <1>5 DEF ChildWaited, producerOnly, uiVars, readVars, TypeOK, ProcTypes
  <2>pipe. PipeTypes'
    BY <1>5 DEF ChildWaited, producerOnly, uiVars, readVars, TypeOK, PipeTypes
  <2>hist. HistTypes'
    BY <1>5 DEF ChildWaited, producerOnly, uiVars, readVars, TypeOK, HistTypes
  <2>rest. UiTypes' /\ ReadTypes'
    BY <1>5, FrameTypes DEF ChildWaited, producerOnly, uiVars, readVars, uiVars, readVars
  <2> QED
    BY <2>proc, <2>pipe, <2>hist, <2>rest DEF TypeOK
<1>6. CASE ReceiveStop
  <2>proc. ProcTypes'
    BY <1>6 DEF ReceiveStop, producerOnly, uiVars, readVars, TypeOK, ProcTypes
  <2>pipe. PipeTypes'
    BY <1>6 DEF ReceiveStop, producerOnly, uiVars, readVars, TypeOK, PipeTypes
  <2>hist. HistTypes'
    BY <1>6 DEF ReceiveStop, producerOnly, uiVars, readVars, TypeOK, HistTypes
  <2>rest. UiTypes' /\ ReadTypes'
    BY <1>6, FrameTypes DEF ReceiveStop, producerOnly, uiVars, readVars, uiVars, readVars
  <2> QED
    BY <2>proc, <2>pipe, <2>hist, <2>rest DEF TypeOK
<1>7. CASE GraceExpires
  <2>proc. ProcTypes'
    BY <1>7 DEF GraceExpires, producerOnly, uiVars, readVars, TypeOK, ProcTypes
  <2>pipe. PipeTypes'
    BY <1>7 DEF GraceExpires, producerOnly, uiVars, readVars, TypeOK, PipeTypes
  <2>hist. HistTypes'
    BY <1>7 DEF GraceExpires, producerOnly, uiVars, readVars, TypeOK, HistTypes
  <2>rest. UiTypes' /\ ReadTypes'
    BY <1>7, FrameTypes DEF GraceExpires, producerOnly, uiVars, readVars, uiVars, readVars
  <2> QED
    BY <2>proc, <2>pipe, <2>hist, <2>rest DEF TypeOK
<1>8. CASE JoinStdout
  <2>proc. ProcTypes'
    BY <1>8 DEF JoinStdout, producerOnly, uiVars, readVars, TypeOK, ProcTypes
  <2>pipe. PipeTypes'
    BY <1>8 DEF JoinStdout, producerOnly, uiVars, readVars, TypeOK, PipeTypes
  <2>hist. HistTypes'
    BY <1>8 DEF JoinStdout, producerOnly, uiVars, readVars, TypeOK, HistTypes
  <2>rest. UiTypes' /\ ReadTypes'
    BY <1>8, FrameTypes DEF JoinStdout, producerOnly, uiVars, readVars, uiVars, readVars
  <2> QED
    BY <2>proc, <2>pipe, <2>hist, <2>rest DEF TypeOK
<1>9. CASE WaitError
  <2>proc. ProcTypes'
    BY <1>9 DEF WaitError, producerOnly, uiVars, readVars, TypeOK, ProcTypes
  <2>pipe. PipeTypes'
    BY <1>9 DEF WaitError, producerOnly, uiVars, readVars, TypeOK, PipeTypes
  <2>hist. HistTypes'
    BY <1>9 DEF WaitError, producerOnly, uiVars, readVars, TypeOK, HistTypes
  <2>rest. UiTypes' /\ ReadTypes'
    BY <1>9, FrameTypes DEF WaitError, producerOnly, uiVars, readVars, uiVars, readVars
  <2> QED
    BY <2>proc, <2>pipe, <2>hist, <2>rest DEF TypeOK
<1>10. CASE JoinStderr
  <2>proc. ProcTypes'
    BY <1>10 DEF JoinStderr, FirstFailure, producerOnly, uiVars, readVars, TypeOK, ProcTypes
  <2>pipe. PipeTypes'
    BY <1>10 DEF JoinStderr, FirstFailure, producerOnly, uiVars, readVars, TypeOK, PipeTypes
  <2>hist. HistTypes'
    BY <1>10 DEF JoinStderr, FirstFailure, producerOnly, uiVars, readVars, TypeOK, HistTypes
  <2>rest. UiTypes' /\ ReadTypes'
    BY <1>10, FrameTypes DEF JoinStderr, FirstFailure, producerOnly, uiVars, readVars, uiVars, readVars
  <2> QED
    BY <2>proc, <2>pipe, <2>hist, <2>rest DEF TypeOK
<1>11. CASE Finish
  <2>s. /\ runChan' \in Seq(Event) /\ Len(runChan') <= RunCap /\ sent' \in Nat
        /\ verdict' \in Terminal \union {"none"}
    BY <1>11, SendTerminalType DEF Finish, Terminal, TypeOK, ProcTypes
  <2>proc. ProcTypes'
    BY <1>11 DEF Finish, producerOnly, uiVars, readVars, TypeOK, ProcTypes
  <2>pipe. PipeTypes'
    BY <1>11, <2>s DEF Finish, producerOnly, uiVars, readVars, TypeOK, PipeTypes
  <2>hist. HistTypes'
    BY <1>11, <2>s DEF Finish, producerOnly, uiVars, readVars, TypeOK, HistTypes
  <2>rest. UiTypes' /\ ReadTypes'
    BY <1>11, FrameTypes DEF Finish, producerOnly, uiVars, readVars, uiVars, readVars
  <2> QED
    BY <2>proc, <2>pipe, <2>hist, <2>rest DEF TypeOK
<1>12. CASE GiveUp
  <2>s. /\ runChan' \in Seq(Event) /\ Len(runChan') <= RunCap /\ sent' \in Nat
        /\ verdict' \in Terminal \union {"none"}
    BY <1>12, SendTerminalType DEF GiveUp, Terminal, TypeOK, ProcTypes
  <2>proc. ProcTypes'
    BY <1>12 DEF GiveUp, producerOnly, uiVars, readVars, TypeOK, ProcTypes
  <2>pipe. PipeTypes'
    BY <1>12, <2>s DEF GiveUp, producerOnly, uiVars, readVars, TypeOK, PipeTypes
  <2>hist. HistTypes'
    BY <1>12, <2>s DEF GiveUp, producerOnly, uiVars, readVars, TypeOK, HistTypes
  <2>rest. UiTypes' /\ ReadTypes'
    BY <1>12, FrameTypes DEF GiveUp, producerOnly, uiVars, readVars, uiVars, readVars
  <2> QED
    BY <2>proc, <2>pipe, <2>hist, <2>rest DEF TypeOK
<1>13. CASE Spawn
  <2>proc. ProcTypes'
    BY <1>13 DEF Spawn, readVars, TypeOK, ProcTypes
  <2>read. ReadTypes'
    BY <1>13 DEF Spawn, readVars, TypeOK, ReadTypes
  <2>rest. UiTypes' /\ PipeTypes' /\ HistTypes'
    BY <1>13, FrameTypes DEF Spawn, readVars, uiVars, pipeVars, histVars
  <2> QED
    BY <2>proc, <2>read, <2>rest DEF TypeOK
<1>14. CASE ChildExits
  <2>proc. ProcTypes'
    BY <1>14 DEF ChildExits, TypeOK, ProcTypes
  <2>read. ReadTypes'
    BY <1>14 DEF ChildExits, TypeOK, ReadTypes
  <2>rest. UiTypes' /\ PipeTypes' /\ HistTypes'
    BY <1>14, FrameTypes DEF ChildExits, uiVars, pipeVars, histVars
  <2> QED
    BY <2>proc, <2>read, <2>rest DEF TypeOK
<1>15. CASE ChildKilled
  <2>proc. ProcTypes'
    BY <1>15 DEF ChildKilled, TypeOK, ProcTypes
  <2>read. ReadTypes'
    BY <1>15 DEF ChildKilled, TypeOK, ReadTypes
  <2>rest. UiTypes' /\ PipeTypes' /\ HistTypes'
    BY <1>15, FrameTypes DEF ChildKilled, uiVars, pipeVars, histVars
  <2> QED
    BY <2>proc, <2>read, <2>rest DEF TypeOK
<1>16. ASSUME NEW kind \in Progress, ReadStdout(kind)
      PROVE  TypeOK'
  <2>s. runChan' \in Seq(Event) /\ Len(runChan') <= RunCap /\ sent' \in Nat
    BY <1>16, SendType DEF ReadStdout
  <2>read. ReadTypes'
    BY <1>16 DEF ReadStdout, readerOnly, TypeOK, ReadTypes
  <2>pipe. PipeTypes'
    BY <1>16, <2>s DEF ReadStdout, readerOnly, TypeOK, PipeTypes
  <2>hist. HistTypes'
    BY <1>16, <2>s DEF ReadStdout, readerOnly, TypeOK, HistTypes
  <2>rest. UiTypes' /\ ProcTypes'
    BY <1>16, FrameTypes DEF ReadStdout, readerOnly, uiVars, procVars
  <2> QED
    BY <2>read, <2>pipe, <2>hist, <2>rest DEF TypeOK
<1>17. CASE ReadStderr
  <2>s. runChan' \in Seq(Event) /\ Len(runChan') <= RunCap /\ sent' \in Nat
    BY <1>17, SendType DEF ReadStderr, Progress
  <2>read. ReadTypes'
    BY <1>17 DEF ReadStderr, readerOnly, TypeOK, ReadTypes
  <2>pipe. PipeTypes'
    BY <1>17, <2>s DEF ReadStderr, readerOnly, TypeOK, PipeTypes
  <2>hist. HistTypes'
    BY <1>17, <2>s DEF ReadStderr, readerOnly, TypeOK, HistTypes
  <2>rest. UiTypes' /\ ProcTypes'
    BY <1>17, FrameTypes DEF ReadStderr, readerOnly, uiVars, procVars
  <2> QED
    BY <2>read, <2>pipe, <2>hist, <2>rest DEF TypeOK
<1>18. CASE EndStdout
  <2>read. ReadTypes'
    BY <1>18 DEF EndStdout, readerOnly, TypeOK, ReadTypes
  <2>pipe. PipeTypes'
    BY <1>18 DEF EndStdout, readerOnly, TypeOK, PipeTypes
  <2>hist. HistTypes'
    BY <1>18 DEF EndStdout, readerOnly, TypeOK, HistTypes
  <2>rest. UiTypes' /\ ProcTypes'
    BY <1>18, FrameTypes DEF EndStdout, readerOnly, uiVars, procVars
  <2> QED
    BY <2>read, <2>pipe, <2>hist, <2>rest DEF TypeOK
<1>19. CASE EndStderr
  <2>read. ReadTypes'
    BY <1>19 DEF EndStderr, readerOnly, TypeOK, ReadTypes
  <2>pipe. PipeTypes'
    BY <1>19 DEF EndStderr, readerOnly, TypeOK, PipeTypes
  <2>hist. HistTypes'
    BY <1>19 DEF EndStderr, readerOnly, TypeOK, HistTypes
  <2>rest. UiTypes' /\ ProcTypes'
    BY <1>19, FrameTypes DEF EndStderr, readerOnly, uiVars, procVars
  <2> QED
    BY <2>read, <2>pipe, <2>hist, <2>rest DEF TypeOK
<1>20. CASE ReaderFails
  <2>read. ReadTypes'
    BY <1>20 DEF ReaderFails, readerOnly, TypeOK, ReadTypes
  <2>pipe. PipeTypes'
    BY <1>20 DEF ReaderFails, readerOnly, TypeOK, PipeTypes
  <2>hist. HistTypes'
    BY <1>20 DEF ReaderFails, readerOnly, TypeOK, HistTypes
  <2>rest. UiTypes' /\ ProcTypes'
    BY <1>20, FrameTypes DEF ReaderFails, readerOnly, uiVars, procVars
  <2> QED
    BY <2>read, <2>pipe, <2>hist, <2>rest DEF TypeOK
<1>21. CASE ForwardRecv
  <2>1. Tail(runChan) \in Seq(Event) /\ Len(Tail(runChan)) <= RunCap
    BY <1>21, TailFacts, CapacityAssumption DEF ForwardRecv, TypeOK, PipeTypes
  <2>2. <<Head(runChan)>> \in Seq(Event) /\ Len(<<Head(runChan)>>) <= 1
    BY <1>21, TailFacts, SingletonFacts DEF ForwardRecv, TypeOK, PipeTypes
  <2>pipe. PipeTypes'
    BY <1>21, <2>1, <2>2 DEF ForwardRecv, forwarderOnly, TypeOK, PipeTypes
  <2>rest. UiTypes' /\ ProcTypes' /\ ReadTypes' /\ HistTypes'
    BY <1>21, FrameTypes DEF ForwardRecv, forwarderOnly, uiVars, procVars, readVars, histVars
  <2> QED
    BY <2>pipe, <2>rest DEF TypeOK
<1>22. CASE ForwardSend
  <2>1. /\ queue \o hand \in Seq(Event)
        /\ Len(queue \o hand) = Len(queue) + Len(hand)
        /\ Len(queue) \in Nat /\ Len(hand) \in Nat
    BY ConcatFacts DEF TypeOK, PipeTypes
  <2>2. queue' \in Seq(Event) /\ Len(queue') <= QueueCap
    BY <1>22, <2>1, CapacityAssumption DEF ForwardSend, QueueHasRoom, TypeOK, PipeTypes
  <2>pipe. PipeTypes'
    BY <1>22, <1>e, <2>2 DEF ForwardSend, forwarderOnly, TypeOK, PipeTypes
  <2>rest. UiTypes' /\ ProcTypes' /\ ReadTypes' /\ HistTypes'
    BY <1>22, FrameTypes DEF ForwardSend, forwarderOnly, uiVars, procVars, readVars, histVars
  <2> QED
    BY <2>pipe, <2>rest DEF TypeOK
<1>23. CASE ForwardFails
  <2>pipe. PipeTypes'
    BY <1>23, <1>e DEF ForwardFails, forwarderOnly, TypeOK, PipeTypes
  <2>rest. UiTypes' /\ ProcTypes' /\ ReadTypes' /\ HistTypes'
    BY <1>23, FrameTypes DEF ForwardFails, forwarderOnly, uiVars, procVars, readVars, histVars
  <2> QED
    BY <2>pipe, <2>rest DEF TypeOK
<1>24. CASE ForwardEnd
  <2>1. /\ queue \o held \in Seq(Event)
        /\ Len(queue \o held) = Len(queue) + Len(held)
        /\ Len(queue) \in Nat /\ Len(held) \in Nat
    BY ConcatFacts DEF TypeOK, PipeTypes
  <2>cap. QueueCap \in Nat /\ Len(held) <= 1
         /\ queue \in Seq(Event) /\ Len(queue) <= QueueCap
    BY CapacityAssumption DEF TypeOK, PipeTypes
  <2>room. ASSUME queue' = queue \o held, Len(queue) < QueueCap
           PROVE  queue' \in Seq(Event) /\ Len(queue') <= QueueCap
    BY <2>room, <2>1, <2>cap
  <2>same. ASSUME queue' = queue
           PROVE  queue' \in Seq(Event) /\ Len(queue') <= QueueCap
    BY <2>same, <2>cap
  <2>2. queue' \in Seq(Event) /\ Len(queue') <= QueueCap
    BY <1>24, <2>room, <2>same DEF ForwardEnd, QueueHasRoom
  <2>pipe. PipeTypes'
    BY <1>24, <1>e, <2>2 DEF ForwardEnd, forwarderOnly, TypeOK, PipeTypes
  <2>rest. UiTypes' /\ ProcTypes' /\ ReadTypes' /\ HistTypes'
    BY <1>24, FrameTypes DEF ForwardEnd, forwarderOnly, uiVars, procVars, readVars, histVars
  <2> QED
    BY <2>pipe, <2>rest DEF TypeOK
<1>25. ASSUME NEW key \in Keys, PressKey(key)
      PROVE  TypeOK'
  <2>1. [kind |-> key, run |-> 0, seq |-> 0] \in Event
    BY DEF Event, Kinds
  <2>2. queue' \in Seq(Event) /\ Len(queue') <= QueueCap
    BY <1>25, <2>1, AppendFacts, CapacityAssumption
       DEF PressKey, QueueHasRoom, TypeOK, PipeTypes
  <2>ui. UiTypes'
    BY <1>25 DEF PressKey, TypeOK, UiTypes
  <2>pipe. PipeTypes'
    BY <1>25, <2>2 DEF PressKey, TypeOK, PipeTypes
  <2>rest. ProcTypes' /\ ReadTypes' /\ HistTypes'
    BY <1>25, FrameTypes DEF PressKey, procVars, readVars, histVars
  <2> QED
    BY <2>ui, <2>pipe, <2>rest DEF TypeOK
<1>26. CASE Drain
  <2> DEFINE k == IF Len(queue) < BatchCap THEN Len(queue) ELSE BatchCap
  <2>1. queue \in Seq(Event) /\ Len(queue) \in Nat /\ k \in 1..Len(queue)
    BY <1>26, CapacityAssumption DEF Drain, TypeOK, PipeTypes
  <2>2. batch' = SubSeq(queue, 1, k) /\ queue' = SubSeq(queue, k + 1, Len(queue))
    BY <1>26 DEF Drain
  <2> HIDE DEF k
  <2>3. batch' \in Seq(Event) /\ queue' \in Seq(Event) /\ Len(queue') <= QueueCap
    BY <2>1, <2>2, PartFacts, CapacityAssumption DEF TypeOK, PipeTypes
  <2>ui. UiTypes'
    BY <1>26, <2>3 DEF Drain, TypeOK, UiTypes
  <2>pipe. PipeTypes'
    BY <1>26, <2>3 DEF Drain, TypeOK, PipeTypes
  <2>rest. ProcTypes' /\ ReadTypes' /\ HistTypes'
    BY <1>26, FrameTypes DEF Drain, procVars, readVars, histVars
  <2> QED
    BY <2>ui, <2>pipe, <2>rest DEF TypeOK
<1>27. ASSUME NEW g \in 1..MaxGroups, BeginRun(g)
      PROVE  TypeOK'
  <2>1. g \in Nat
    BY CapacityAssumption
  <2>2. run' = run + 1 /\ sent' = 0 /\ seen' = 0 /\ verdict' = "none"
        /\ asked' = FALSE
    BY <1>27 DEF BeginRun
  <2>ui. UiTypes'
    BY <1>27, <1>t DEF BeginRun, Handling, TypeOK, UiTypes
  <2>proc. ProcTypes'
    BY <1>27, <2>1 DEF BeginRun, ProcTypes
  <2>read. ReadTypes'
    BY <1>27 DEF BeginRun, Handling, TypeOK, ReadTypes
  <2>pipe. PipeTypes'
    BY <1>27, <1>e DEF BeginRun, Handling, TypeOK, PipeTypes
  <2>3. run' \in Nat /\ sent' \in Nat /\ seen' \in Nat
    BY <2>2 DEF TypeOK, HistTypes
  <2>4. verdict' \in Terminal \union {"none"}
    BY <2>2
  <2>hist. HistTypes'
    BY <2>2, <2>3, <2>4 DEF HistTypes
  <2> QED
    BY <2>ui, <2>proc, <2>read, <2>pipe, <2>hist DEF TypeOK
<1>28. CASE IgnoreRunRequest
  <2>ui. UiTypes'
    BY <1>28, <1>t DEF IgnoreRunRequest, Handling, RequestStop, TypeOK, UiTypes
  <2>proc. ProcTypes'
    BY <1>28 DEF IgnoreRunRequest, Handling, RequestStop, TypeOK, ProcTypes
  <2>hist. HistTypes'
    BY <1>28 DEF IgnoreRunRequest, Handling, RequestStop, TypeOK, HistTypes
  <2>rest. ReadTypes' /\ PipeTypes'
    BY <1>28, FrameTypes DEF IgnoreRunRequest, Handling, RequestStop, readVars, pipeVars
  <2> QED
    BY <2>ui, <2>proc, <2>hist, <2>rest DEF TypeOK
<1>29. CASE StopRun
  <2>ui. UiTypes'
    BY <1>29, <1>t DEF StopRun, Handling, RequestStop, TypeOK, UiTypes
  <2>proc. ProcTypes'
    BY <1>29 DEF StopRun, Handling, RequestStop, TypeOK, ProcTypes
  <2>hist. HistTypes'
    BY <1>29 DEF StopRun, Handling, RequestStop, TypeOK, HistTypes
  <2>rest. ReadTypes' /\ PipeTypes'
    BY <1>29, FrameTypes DEF StopRun, Handling, RequestStop, readVars, pipeVars
  <2> QED
    BY <2>ui, <2>proc, <2>hist, <2>rest DEF TypeOK
<1>30. ASSUME NEW kind \in Progress, ApplyProgress(kind)
      PROVE  TypeOK'
  <2>ui. UiTypes'
    BY <1>30, <1>t DEF ApplyProgress, Handling, Event, TypeOK, UiTypes
  <2>hist. HistTypes'
    BY <1>30, <1>t DEF ApplyProgress, Handling, Event, TypeOK, HistTypes
  <2>rest. ProcTypes' /\ ReadTypes' /\ PipeTypes'
    BY <1>30, FrameTypes DEF ApplyProgress, Handling, Event, procVars, readVars, pipeVars
  <2> QED
    BY <2>ui, <2>hist, <2>rest DEF TypeOK
<1>31. ASSUME NEW kind \in Terminal, ApplyTerminal(kind)
      PROVE  TypeOK'
  <2>ui. UiTypes'
    BY <1>31, <1>t DEF ApplyTerminal, Handling, RunOutcome, TypeOK, UiTypes
  <2>rest. ProcTypes' /\ ReadTypes' /\ PipeTypes' /\ HistTypes'
    BY <1>31, FrameTypes DEF ApplyTerminal, Handling, RunOutcome, procVars, readVars, pipeVars, histVars
  <2> QED
    BY <2>ui, <2>rest DEF TypeOK
<1>32. CASE Quit
  <2>ui. UiTypes'
    BY <1>32, <1>e DEF Quit, leaveLoop, RequestStop, TypeOK, UiTypes
  <2>proc. ProcTypes'
    BY <1>32 DEF Quit, leaveLoop, RequestStop, TypeOK, ProcTypes
  <2>pipe. PipeTypes'
    BY <1>32, <1>e DEF Quit, leaveLoop, RequestStop, TypeOK, PipeTypes
  <2>hist. HistTypes'
    BY <1>32 DEF Quit, leaveLoop, RequestStop, TypeOK, HistTypes
  <2>rest. ReadTypes'
    BY <1>32, FrameTypes DEF Quit, leaveLoop, RequestStop, readVars
  <2> QED
    BY <2>ui, <2>proc, <2>pipe, <2>hist, <2>rest DEF TypeOK
<1>33. CASE DrawFails
  <2>ui. UiTypes'
    BY <1>33, <1>e DEF DrawFails, leaveLoop, RequestStop, TypeOK, UiTypes
  <2>proc. ProcTypes'
    BY <1>33 DEF DrawFails, leaveLoop, RequestStop, TypeOK, ProcTypes
  <2>pipe. PipeTypes'
    BY <1>33, <1>e DEF DrawFails, leaveLoop, RequestStop, TypeOK, PipeTypes
  <2>hist. HistTypes'
    BY <1>33 DEF DrawFails, leaveLoop, RequestStop, TypeOK, HistTypes
  <2>rest. ReadTypes'
    BY <1>33, FrameTypes DEF DrawFails, leaveLoop, RequestStop, readVars
  <2> QED
    BY <2>ui, <2>proc, <2>pipe, <2>hist, <2>rest DEF TypeOK
<1>34. CASE Exit
  <2>ui. UiTypes'
    BY <1>34 DEF Exit, TypeOK, UiTypes
  <2>rest. ProcTypes' /\ ReadTypes' /\ PipeTypes' /\ HistTypes'
    BY <1>34, FrameTypes DEF Exit, procVars, readVars, pipeVars, histVars
  <2> QED
    BY <2>ui, <2>rest DEF TypeOK
<1>35. CASE UNCHANGED vars
  BY <1>35, FrameTypes DEF vars, TypeOK
<1>36. CASE Resting
  BY <1>36, FrameTypes DEF Resting, vars, TypeOK
<1>37. CASE TestsExit
  <2>read. ReadTypes'
    BY <1>37 DEF TestsExit, TypeOK, ReadTypes
  <2>rest. UiTypes' /\ ProcTypes' /\ PipeTypes' /\ HistTypes'
    BY <1>37, FrameTypes DEF TestsExit, uiVars, procVars, pipeVars, histVars
  <2> QED
    BY <2>read, <2>rest DEF TypeOK
<1> QED
  BY <1>1, <1>2, <1>3, <1>4, <1>5, <1>6, <1>7, <1>8, <1>9, <1>10,
     <1>11, <1>12, <1>13, <1>14, <1>15, <1>16, <1>17, <1>18, <1>19,
     <1>20, <1>21, <1>22, <1>23, <1>24, <1>25, <1>26, <1>27, <1>28,
     <1>29, <1>30, <1>31, <1>32, <1>33, <1>34, <1>35, <1>36, <1>37
     DEF Next, Producer, Forward, Handle

(* Every variable keeps its type and both channels keep to their           *)
(* capacities, for every capacity.                                         *)
THEOREM TypeCorrect == Spec => []TypeOK
<1>1. Init => TypeOK
  BY TypeInit
<1>2. TypeOK /\ [Next]_vars => TypeOK'
  BY TypeNext
<1> QED
  BY <1>1, <1>2, PTL DEF Spec

-----------------------------------------------------------------------------
(* Tasks.                                                                  *)

LEMMA TerminalIsRunEvent ==
  ASSUME NEW s
  PROVE  /\ \A e : IsTerminal(e) => IsRunEvent(e)
         /\ NoRunEvents(s) => NoTerminals(s)
  BY DEF IsTerminal, IsRunEvent, Terminal, Keys, NoRunEvents, NoTerminals

LEMMA TaskNext == IInv /\ [Next]_vars => TaskInv'
<1> SUFFICES ASSUME IInv, [Next]_vars
             PROVE  TaskInv'
  OBVIOUS
<1>f. UNCHANGED <<pc, forwarder, out, err, child>> => TaskInv'
  BY DEF IInv, TaskInv, Supervising
<1> USE DEF uiVars, procVars, readVars, pipeVars, producerOnly, readerOnly,
            forwarderOnly
<1>1. CASE Announce
  BY <1>1 DEF Announce, IInv, TaskInv, Supervising
<1>2. CASE Spawn
  BY <1>2 DEF Spawn, IInv, TaskInv, Supervising
<1>3. CASE ChildWaited
  BY <1>3 DEF ChildWaited, IInv, TaskInv, Supervising
<1>4. CASE ReceiveStop
  BY <1>4 DEF ReceiveStop, IInv, TaskInv, Supervising
<1>5. CASE Terminate
  BY <1>5 DEF Terminate, IInv, TaskInv, Supervising
<1>6. CASE GraceExpires
  BY <1>6 DEF GraceExpires, IInv, TaskInv, Supervising
<1>7. CASE ForceKill
  BY <1>7 DEF ForceKill, IInv, TaskInv, Supervising
<1>8. CASE JoinStdout
  BY <1>8 DEF JoinStdout, IInv, TaskInv, Supervising
<1>9. CASE JoinStderr
  BY <1>9 DEF JoinStderr, IInv, TaskInv, Supervising
<1>10. CASE Finish
  BY <1>10 DEF Finish, IInv, TaskInv, Supervising
<1>11. CASE ReportError
  BY <1>11 DEF ReportError, IInv, TaskInv, Supervising
<1>12. CASE GiveUp
  BY <1>12 DEF GiveUp, IInv, TaskInv, Supervising
<1>13. CASE WaitError
  BY <1>13 DEF WaitError, IInv, TaskInv, Supervising
<1>14. CASE ChildExits
  BY <1>14 DEF ChildExits, IInv, TaskInv, Supervising
<1>15. CASE ChildKilled
  BY <1>15 DEF ChildKilled, IInv, TaskInv, Supervising
<1>16. ASSUME NEW kind \in Progress, ReadStdout(kind)
      PROVE  TaskInv'
  BY <1>16 DEF ReadStdout, IInv, TaskInv, Supervising
<1>17. CASE ReadStderr
  BY <1>17 DEF ReadStderr, IInv, TaskInv, Supervising
<1>18. CASE EndStdout
  BY <1>18 DEF EndStdout, IInv, TaskInv, Supervising
<1>19. CASE EndStderr
  BY <1>19 DEF EndStderr, IInv, TaskInv, Supervising
<1>20. CASE ReaderFails
  BY <1>20 DEF ReaderFails, IInv, TaskInv, Supervising
<1>21. CASE ForwardRecv
  BY <1>21 DEF ForwardRecv, IInv, TaskInv, Supervising
<1>22. CASE ForwardSend
  BY <1>22 DEF ForwardSend, IInv, TaskInv, Supervising
<1>23. CASE ForwardFails
  BY <1>23 DEF ForwardFails, IInv, TaskInv, Supervising
<1>24. CASE ForwardEnd
  BY <1>24 DEF ForwardEnd, IInv, TaskInv, Supervising
<1>25. ASSUME NEW key \in Keys, PressKey(key)
      PROVE  TaskInv'
  BY <1>25, <1>f DEF PressKey
<1>26. CASE Drain
  BY <1>26, <1>f DEF Drain
<1>27. ASSUME NEW g \in 1..MaxGroups, BeginRun(g)
      PROVE  TaskInv'
  BY <1>27 DEF BeginRun, TaskInv, Supervising
<1>28. CASE IgnoreRunRequest
  BY <1>28, <1>f DEF IgnoreRunRequest
<1>29. CASE StopRun
  BY <1>29, <1>f DEF StopRun
<1>30. CASE Quit
  BY <1>30, <1>f DEF Quit, leaveLoop
<1>31. ASSUME NEW kind \in Progress, ApplyProgress(kind)
      PROVE  TaskInv'
  BY <1>31, <1>f DEF ApplyProgress
<1>32. ASSUME NEW kind \in Terminal, ApplyTerminal(kind)
      PROVE  TaskInv'
  BY <1>32, <1>f DEF ApplyTerminal
<1>33. CASE DrawFails
  BY <1>33, <1>f DEF DrawFails, leaveLoop
<1>34. CASE Exit
  BY <1>34, <1>f DEF Exit
<1>35. CASE UNCHANGED vars
  BY <1>35, <1>f DEF vars
<1>36. CASE Resting
  BY <1>36, <1>f DEF Resting, vars
<1>37. CASE TestsExit
  BY <1>37, <1>f DEF TestsExit
<1> QED
  BY <1>1, <1>2, <1>3, <1>4, <1>5, <1>6, <1>7, <1>8, <1>9, <1>10,
     <1>11, <1>12, <1>13, <1>14, <1>15, <1>16, <1>17, <1>18, <1>19,
     <1>20, <1>21, <1>22, <1>23, <1>24, <1>25, <1>26, <1>27, <1>28,
     <1>29, <1>30, <1>31, <1>32, <1>33, <1>34, <1>35, <1>36, <1>37
     DEF Next, Producer, Forward, Handle

-----------------------------------------------------------------------------
(* Channels.                                                               *)

(* An event of the run joins its channel.                                  *)
LEMMA SendChannel ==
  ASSUME TypeOK, ChannelInv, NEW kind \in Progress, Send(kind),
         UNCHANGED <<forwarder, hand, held>>, (pc = "done") <=> (pc' = "done")
  PROVE  ChannelInv'
<1>1. CASE forwarder = "on"
  <2> DEFINE e == [kind |-> kind, run |-> run, seq |-> sent + 1]
  <2>1. e \in Event /\ ~IsTerminal(e)
    BY DEF TypeOK, HistTypes, Event, Kinds, IsTerminal, Terminal, Progress
  <2>2. runChan' = Append(runChan, e) /\ runChan \in Seq(Event)
    BY <1>1 DEF Send, TypeOK, PipeTypes
  <2> HIDE DEF e
  <2>3. /\ runChan' = runChan \o <<e>>
        /\ <<e>> \in Seq(Event) /\ NoTerminals(<<e>>)
    BY <2>1, <2>2, AppendedEvent
  <2>4. /\ NoTerminals(runChan) => NoTerminals(runChan')
        /\ ~NoTerminals(runChan) => ~NoTerminals(runChan')
    BY <2>2, <2>3, ConcatKeeps
  <2> QED
    BY <1>1, <2>4 DEF ChannelInv, NoTerminals
<1>2. CASE forwarder # "on"
  <2>1. UNCHANGED runChan
    BY <1>2 DEF Send
  <2> QED
    BY <2>1 DEF ChannelInv, NoTerminals
<1> QED
  BY <1>1, <1>2

(* The terminal event joins it, and the producer is done.                  *)
LEMMA SendTerminalChannel ==
  ASSUME TypeOK, ChannelInv, NEW kind \in Terminal, SendTerminal(kind),
         UNCHANGED <<forwarder, hand, held>>, pc' = "done"
  PROVE  ChannelInv'
<1>1. CASE forwarder = "on"
  <2> DEFINE e == [kind |-> kind, run |-> run, seq |-> 0]
  <2>1. e \in Event /\ IsTerminal(e)
    BY DEF TypeOK, HistTypes, Event, Kinds, IsTerminal
  <2>2. runChan' = Append(runChan, e) /\ runChan \in Seq(Event)
    BY <1>1 DEF SendTerminal, TypeOK, PipeTypes
  <2> HIDE DEF e
  <2>3. /\ runChan' = runChan \o <<e>>
        /\ <<e>> \in Seq(Event) /\ ~NoTerminals(<<e>>)
    BY <2>1, <2>2, AppendedEvent
  <2>4. ~NoTerminals(runChan')
    BY <2>2, <2>3, ConcatKeeps
  <2> QED
    BY <1>1, <2>4 DEF ChannelInv, NoTerminals
<1>2. CASE forwarder # "on"
  <2>1. UNCHANGED runChan
    BY <1>2 DEF SendTerminal
  <2> QED
    BY <1>2, <2>1 DEF ChannelInv, NoTerminals
<1> QED
  BY <1>1, <1>2

LEMMA ChannelNext == IInv /\ [Next]_vars => ChannelInv'
<1> SUFFICES ASSUME IInv, [Next]_vars
             PROVE  ChannelInv'
  OBVIOUS
<1>i. TypeOK /\ ChannelInv /\ TaskInv
  BY DEF IInv
<1>f. UNCHANGED <<forwarder, runChan, hand, held>> /\ (pc = "done" <=> pc' = "done")
        => ChannelInv'
  BY <1>i DEF ChannelInv, NoTerminals
<1> USE DEF uiVars, procVars, readVars, pipeVars, producerOnly, readerOnly,
            forwarderOnly
<1>1. CASE Announce
  <2>1. CASE groups > 1
    BY <1>1, <2>1, <1>i, SendChannel DEF Announce, Progress
  <2>2. CASE ~(groups > 1)
    BY <1>1, <2>2, <1>f DEF Announce
  <2> QED
    BY <2>1, <2>2
<1>2. CASE Terminate
  BY <1>2, <1>i, SendChannel DEF Terminate, Progress
<1>3. CASE ForceKill
  BY <1>3, <1>i, SendChannel DEF ForceKill, Progress
<1>4. CASE ReportError
  BY <1>4, <1>i, SendChannel DEF ReportError, Progress
<1>5. CASE Spawn
  BY <1>5, <1>f DEF Spawn
<1>6. CASE ChildWaited
  BY <1>6, <1>f DEF ChildWaited
<1>7. CASE ReceiveStop
  BY <1>7, <1>f DEF ReceiveStop
<1>8. CASE GraceExpires
  BY <1>8, <1>f DEF GraceExpires
<1>9. CASE JoinStdout
  BY <1>9, <1>f DEF JoinStdout
<1>10. CASE JoinStderr
  BY <1>10, <1>f DEF JoinStderr
<1>11. CASE WaitError
  BY <1>11, <1>f DEF WaitError
<1>12. CASE ChildExits
  BY <1>12, <1>f DEF ChildExits
<1>13. CASE ChildKilled
  BY <1>13, <1>f DEF ChildKilled
<1>14. CASE EndStdout
  BY <1>14, <1>f DEF EndStdout
<1>15. CASE EndStderr
  BY <1>15, <1>f DEF EndStderr
<1>16. CASE ReaderFails
  BY <1>16, <1>f DEF ReaderFails
<1>17. CASE Finish
  <2>1. (IF pc = "sendStopped" THEN "stopped" ELSE exitCode) \in Terminal
    BY <1>i DEF TypeOK, ProcTypes, Terminal
  <2> QED
    BY <1>17, <1>i, <2>1, SendTerminalChannel DEF Finish
<1>18. CASE GiveUp
  BY <1>18, <1>i, SendTerminalChannel DEF GiveUp, Terminal
<1>19. ASSUME NEW kind \in Progress, ReadStdout(kind)
      PROVE  ChannelInv'
  BY <1>19, <1>i, SendChannel DEF ReadStdout
<1>20. CASE ReadStderr
  BY <1>20, <1>i, SendChannel DEF ReadStderr, Progress
<1>21. CASE ForwardRecv
  <2> DEFINE e == Head(runChan)
  <2>1. /\ runChan \in Seq(Event) /\ runChan # <<>> /\ e \in Event
        /\ runChan' = Tail(runChan)
        /\ forwarder = "on" /\ hand = <<>> /\ UNCHANGED <<forwarder, pc>>
    BY <1>21, <1>i, TailFacts DEF ForwardRecv, TypeOK, PipeTypes
  <2>2. /\ NoTerminals(runChan) => NoTerminals(runChan') /\ ~IsTerminal(e)
        /\ ~NoTerminals(runChan) /\ ~IsTerminal(e) => ~NoTerminals(runChan')
    BY <2>1, TailKeeps
  <2>3. CASE IsTerminal(e)
    <3>1. held' = <<e>> /\ UNCHANGED hand
      BY <1>21, <2>3 DEF ForwardRecv, HoldsBack
    <3>2. pc = "done"
      BY <1>i, <2>2, <2>3 DEF ChannelInv
    <3> HIDE DEF e
    <3>3. held' # <<>> /\ (\A i \in 1..Len(held') : IsTerminal(held'[i]))
      BY <2>1, <2>3, <3>1, SingletonFacts
    <3> QED
      BY <1>i, <2>1, <3>1, <3>2, <3>3 DEF ChannelInv, NoTerminals
  <2>4. CASE ~IsTerminal(e)
    <3>1. hand' = <<e>> /\ UNCHANGED held
      BY <1>21, <2>4 DEF ForwardRecv, HoldsBack
    <3> HIDE DEF e
    <3>2. NoTerminals(hand')
      BY <2>1, <2>4, <3>1, AppendedEvent
    <3> QED
      BY <1>i, <2>1, <2>2, <2>4, <3>1, <3>2 DEF ChannelInv
  <2> QED
    BY <2>3, <2>4
<1>22. CASE ForwardSend
  BY <1>22, <1>i, EmptyKeeps DEF ForwardSend, ChannelInv, NoTerminals
<1>23. CASE ForwardFails
  BY <1>23, <1>i, EmptyKeeps, EmptyFacts DEF ForwardFails, ChannelInv
<1>24. CASE ForwardEnd
  BY <1>24, <1>i, EmptyKeeps, EmptyFacts DEF ForwardEnd, ChannelInv
<1>25. ASSUME NEW key \in Keys, PressKey(key)
      PROVE  ChannelInv'
  BY <1>25, <1>f DEF PressKey
<1>26. CASE Drain
  BY <1>26, <1>f DEF Drain
<1>27. ASSUME NEW g \in 1..MaxGroups, BeginRun(g)
      PROVE  ChannelInv'
  <2>1. /\ forwarder' = "on" /\ runChan' = <<>> /\ hand' = <<>> /\ held' = <<>>
        /\ pc' = "announce"
    BY <1>27 DEF BeginRun
  <2> QED
    BY <2>1, EmptyKeeps, EmptyFacts DEF ChannelInv
<1>28. CASE IgnoreRunRequest
  BY <1>28, <1>f DEF IgnoreRunRequest
<1>29. CASE StopRun
  BY <1>29, <1>f DEF StopRun
<1>30. CASE Quit
  BY <1>30, <1>f DEF Quit, leaveLoop
<1>31. ASSUME NEW kind \in Progress, ApplyProgress(kind)
      PROVE  ChannelInv'
  BY <1>31, <1>f DEF ApplyProgress
<1>32. ASSUME NEW kind \in Terminal, ApplyTerminal(kind)
      PROVE  ChannelInv'
  BY <1>32, <1>f DEF ApplyTerminal
<1>33. CASE DrawFails
  BY <1>33, <1>f DEF DrawFails, leaveLoop
<1>34. CASE Exit
  BY <1>34, <1>f DEF Exit
<1>35. CASE UNCHANGED vars
  BY <1>35, <1>f DEF vars
<1>36. CASE Resting
  BY <1>36, <1>f DEF Resting, vars
<1>37. CASE TestsExit
  BY <1>37, <1>f DEF TestsExit
<1> QED
  BY <1>1, <1>2, <1>3, <1>4, <1>5, <1>6, <1>7, <1>8, <1>9, <1>10,
     <1>11, <1>12, <1>13, <1>14, <1>15, <1>16, <1>17, <1>18, <1>19,
     <1>20, <1>21, <1>22, <1>23, <1>24, <1>25, <1>26, <1>27, <1>28,
     <1>29, <1>30, <1>31, <1>32, <1>33, <1>34, <1>35, <1>36, <1>37
     DEF Next, Producer, Forward, Handle

-----------------------------------------------------------------------------
(* The end of a run, as the UI loop sees it.                               *)

(* Handling an event that is not terminal takes it off the batch.          *)
LEMMA HandleEnd ==
  ASSUME TypeOK, EndInv, batch # <<>>, batch' = Tail(batch),
         ~IsTerminal(Head(batch)),
         UNCHANGED <<loop, queue, running, forwarder, pc, out, err>>
  PROVE  EndInv'
<1>1. batch \in Seq(Event)
  BY DEF TypeOK, UiTypes
<1>2. /\ NoRunEvents(batch) => NoRunEvents(batch')
      /\ NoTerminals(batch) => NoTerminals(batch')
      /\ EndsWithTerminal(batch) => EndsWithTerminal(batch')
      /\ ~NoTerminals(batch) => ~NoTerminals(batch')
  BY <1>1, TailKeeps
<1>3. SendersGone => SendersGone'
  BY DEF SendersGone
<1>4. /\ NoRunEvents(queue) => NoRunEvents(queue')
      /\ NoTerminals(queue) => NoTerminals(queue')
      /\ EndsWithTerminal(queue) => EndsWithTerminal(queue')
      /\ ~NoTerminals(queue) => ~NoTerminals(queue')
  OBVIOUS
<1> QED
  BY <1>2, <1>3, <1>4 DEF EndInv

(* Queueing an event that is not terminal.                                 *)
LEMMA QueueEnd ==
  ASSUME TypeOK, EndInv, NEW t \in Seq(Event), queue' = queue \o t,
         NoTerminals(t), NoRunEvents(t) \/ forwarder = "on",
         UNCHANGED <<loop, batch, running, forwarder, pc, out, err>>
  PROVE  EndInv'
<1>1. queue \in Seq(Event)
  BY DEF TypeOK, PipeTypes
<1>2. /\ NoRunEvents(queue) /\ NoRunEvents(t) => NoRunEvents(queue')
      /\ NoTerminals(queue) => NoTerminals(queue')
      /\ EndsWithTerminal(queue) /\ NoRunEvents(t) => EndsWithTerminal(queue')
      /\ NoTerminals(queue) => EndsWithTerminal(queue')
      /\ ~NoTerminals(queue) => ~NoTerminals(queue')
  <2>1. EndsWithTerminal(t)
    BY DEF NoTerminals, EndsWithTerminal
  <2> QED
    BY <1>1, <2>1, ConcatKeeps
<1>3. SendersGone => SendersGone'
  BY DEF SendersGone
<1>4. /\ NoRunEvents(batch) => NoRunEvents(batch')
      /\ NoTerminals(batch) <=> NoTerminals(batch')
      /\ EndsWithTerminal(batch) => EndsWithTerminal(batch')
  OBVIOUS
<1> QED
  BY <1>2, <1>3, <1>4 DEF EndInv

LEMMA EndNext == IInv /\ [Next]_vars => EndInv'
<1> SUFFICES ASSUME IInv, [Next]_vars
             PROVE  EndInv'
  OBVIOUS
<1>i. TypeOK /\ ChannelInv /\ TaskInv /\ EndInv
  BY DEF IInv
<1>f. UNCHANGED <<loop, batch, queue, running, forwarder>> /\ (SendersGone => SendersGone')
        => EndInv'
  BY <1>i DEF EndInv, NoTerminals, NoRunEvents, EndsWithTerminal
<1>l. loop' # "run" => EndInv'
  BY DEF EndInv
<1> USE DEF uiVars, procVars, readVars, pipeVars, producerOnly, readerOnly,
            forwarderOnly
<1>1. CASE Announce
  BY <1>1, <1>f DEF Announce, SendersGone
<1>2. CASE Spawn
  BY <1>2, <1>f DEF Spawn, SendersGone
<1>3. CASE ChildWaited
  BY <1>3, <1>f DEF ChildWaited, SendersGone
<1>4. CASE ReceiveStop
  BY <1>4, <1>f DEF ReceiveStop, SendersGone
<1>5. CASE Terminate
  BY <1>5, <1>f DEF Terminate, SendersGone
<1>6. CASE GraceExpires
  BY <1>6, <1>f DEF GraceExpires, SendersGone
<1>7. CASE ForceKill
  BY <1>7, <1>f DEF ForceKill, SendersGone
<1>8. CASE JoinStdout
  BY <1>8, <1>f DEF JoinStdout, SendersGone
<1>9. CASE JoinStderr
  BY <1>9, <1>f DEF JoinStderr, SendersGone
<1>10. CASE Finish
  BY <1>10, <1>f DEF Finish, SendersGone
<1>11. CASE ReportError
  BY <1>11, <1>f DEF ReportError, SendersGone
<1>12. CASE GiveUp
  BY <1>12, <1>f DEF GiveUp, SendersGone
<1>13. CASE WaitError
  BY <1>13, <1>f DEF WaitError, SendersGone
<1>14. CASE ChildExits
  BY <1>14, <1>f DEF ChildExits, SendersGone
<1>15. CASE ChildKilled
  BY <1>15, <1>f DEF ChildKilled, SendersGone
<1>16. CASE EndStdout
  BY <1>16, <1>f DEF EndStdout, SendersGone
<1>17. CASE EndStderr
  BY <1>17, <1>f DEF EndStderr, SendersGone
<1>18. CASE ReaderFails
  BY <1>18, <1>f DEF ReaderFails, SendersGone
<1>19. CASE ReadStderr
  BY <1>19, <1>f DEF ReadStderr, SendersGone
<1>20. ASSUME NEW kind \in Progress, ReadStdout(kind)
      PROVE  EndInv'
  BY <1>20, <1>f DEF ReadStdout, SendersGone
<1>21. CASE ForwardRecv
  BY <1>21, <1>f DEF ForwardRecv, SendersGone
<1>22. CASE ForwardSend
  <2>1. /\ queue' = queue \o hand /\ hand \in Seq(Event) /\ NoTerminals(hand)
        /\ forwarder = "on"
    BY <1>22, <1>i DEF ForwardSend, ChannelInv, TypeOK, PipeTypes
  <2>2. UNCHANGED <<loop, batch, running, forwarder, pc, out, err>>
    BY <1>22 DEF ForwardSend
  <2> QED
    BY <1>i, <2>1, <2>2, QueueEnd
<1>23. CASE ForwardFails
  BY <1>23, <1>l DEF ForwardFails, QueueDropped
<1>24. CASE ForwardEnd
  <2> SUFFICES ASSUME loop = "run"
               PROVE  EndInv'
    BY <1>24, <1>l DEF ForwardEnd
  <2>1. /\ forwarder = "on" /\ forwarder' = "done"
        /\ UNCHANGED <<loop, batch, running, pc, out, err>>
        /\ SendersGone /\ runChan = <<>>
    BY <1>24 DEF ForwardEnd
  <2>2. held # <<>>
    BY <1>i, <2>1, EmptyKeeps DEF ChannelInv, SendersGone
  <2>3. queue' = queue \o held
    BY <1>24, <2>2 DEF ForwardEnd, QueueDropped
  <2>4. queue \in Seq(Event) /\ held \in Seq(Event) /\ Len(held) = 1
        /\ IsTerminal(held[1])
    <3>1. held \in Seq(Event) /\ Len(held) <= 1 /\ queue \in Seq(Event)
      BY <1>i DEF TypeOK, PipeTypes
    <3>2. Len(held) \in Nat /\ Len(held) # 0
      BY <2>2, <3>1
    <3>3. \A n \in Nat : n <= 1 /\ n # 0 => n = 1 /\ 1 \in 1..n
      OBVIOUS
    <3>4. Len(held) = 1 /\ 1 \in 1..Len(held)
      BY <3>1, <3>2, <3>3
    <3> QED
      BY <1>i, <3>1, <3>4 DEF ChannelInv
  <2>5. ~NoTerminals(held) /\ EndsWithTerminal(held)
    BY <2>4 DEF NoTerminals, EndsWithTerminal
  <2>6. NoTerminals(queue) /\ NoTerminals(batch) /\ EndsWithTerminal(batch) /\ running
    BY <1>i, <2>1 DEF EndInv
  <2>7. EndsWithTerminal(queue') /\ ~NoTerminals(queue')
    BY <2>3, <2>4, <2>5, <2>6, ConcatKeeps
  <2>8. SendersGone' /\ NoTerminals(batch)' /\ EndsWithTerminal(batch)'
    BY <2>1, <2>6 DEF SendersGone, NoTerminals, EndsWithTerminal
  <2> QED
    BY <2>1, <2>6, <2>7, <2>8 DEF EndInv
<1>25. ASSUME NEW key \in Keys, PressKey(key)
      PROVE  EndInv'
  <2> DEFINE e == [kind |-> key, run |-> 0, seq |-> 0]
  <2>1. e \in Event /\ ~IsRunEvent(e) /\ ~IsTerminal(e)
    BY DEF Event, Kinds, Keys, IsRunEvent, IsTerminal, Terminal
  <2>2. queue' = Append(queue, e) /\ queue \in Seq(Event)
    BY <1>25, <1>i DEF PressKey, TypeOK, PipeTypes
  <2>3. UNCHANGED <<loop, batch, running, forwarder, pc, out, err>>
    BY <1>25 DEF PressKey
  <2> HIDE DEF e
  <2>4. /\ queue' = queue \o <<e>> /\ <<e>> \in Seq(Event)
        /\ NoTerminals(<<e>>) /\ NoRunEvents(<<e>>)
    BY <2>1, <2>2, AppendedEvent
  <2> QED
    BY <1>i, <2>3, <2>4, QueueEnd
<1>26. CASE Drain
  <2> DEFINE k == IF Len(queue) < BatchCap THEN Len(queue) ELSE BatchCap
  <2>1. queue \in Seq(Event) /\ Len(queue) \in Nat /\ k \in 1..Len(queue)
    BY <1>26, <1>i, CapacityAssumption DEF Drain, TypeOK, PipeTypes
  <2>2. /\ batch' = SubSeq(queue, 1, k)
        /\ queue' = SubSeq(queue, k + 1, Len(queue))
        /\ batch = <<>> /\ loop = "run"
        /\ UNCHANGED <<loop, running, forwarder, pc, out, err>>
    BY <1>26 DEF Drain
  <2> HIDE DEF k
  <2>3. /\ NoRunEvents(queue) => NoRunEvents(batch') /\ NoRunEvents(queue')
        /\ NoTerminals(queue) => NoTerminals(batch') /\ NoTerminals(queue')
        /\ EndsWithTerminal(queue)
             => EndsWithTerminal(batch') /\ EndsWithTerminal(queue')
        /\ EndsWithTerminal(queue) /\ ~NoTerminals(batch') => NoRunEvents(queue')
        /\ ~NoTerminals(queue) => ~NoTerminals(batch') \/ ~NoTerminals(queue')
    BY <2>1, <2>2, PartKeeps
  <2>4. NoTerminals(batch) /\ (SendersGone => SendersGone')
    BY <2>2, EmptyKeeps DEF SendersGone
  <2> QED
    BY <1>i, <2>2, <2>3, <2>4 DEF EndInv
<1>27. ASSUME NEW g \in 1..MaxGroups, BeginRun(g)
      PROVE  EndInv'
  <2>1. /\ batch # <<>> /\ batch' = Tail(batch) /\ batch \in Seq(Event)
        /\ loop = "run" /\ loop' = "run" /\ queue' = queue
        /\ ~running /\ running' /\ forwarder' = "on"
    BY <1>27, <1>i DEF BeginRun, Handling, TypeOK, UiTypes
  <2>2. NoRunEvents(batch) /\ NoRunEvents(queue) /\ EndsWithTerminal(queue)
    BY <1>i, <2>1 DEF EndInv
  <2>3. NoRunEvents(batch')
    BY <2>1, <2>2, TailKeeps
  <2>4. NoTerminals(batch') /\ NoTerminals(queue') /\ EndsWithTerminal(queue')
    BY <2>1, <2>2, <2>3, TerminalIsRunEvent
  <2>5. EndsWithTerminal(batch')
    BY <2>4 DEF NoTerminals, EndsWithTerminal
  <2> QED
    BY <2>1, <2>4, <2>5 DEF EndInv
<1>28. CASE IgnoreRunRequest
  <2>1. /\ batch # <<>> /\ batch' = Tail(batch) /\ ~IsTerminal(Head(batch))
        /\ UNCHANGED <<loop, queue, running, forwarder, pc, out, err>>
    BY <1>28 DEF IgnoreRunRequest, Handling, IsTerminal, Terminal
  <2> QED
    BY <1>i, <2>1, HandleEnd
<1>29. CASE StopRun
  <2>1. /\ batch # <<>> /\ batch' = Tail(batch) /\ ~IsTerminal(Head(batch))
        /\ UNCHANGED <<loop, queue, running, forwarder, pc, out, err>>
    BY <1>29 DEF StopRun, Handling, IsTerminal, Terminal
  <2> QED
    BY <1>i, <2>1, HandleEnd
<1>30. CASE Quit
  BY <1>30, <1>l DEF Quit, leaveLoop
<1>31. ASSUME NEW kind \in Progress, ApplyProgress(kind)
      PROVE  EndInv'
  <2>1. /\ batch # <<>> /\ batch' = Tail(batch) /\ ~IsTerminal(Head(batch))
        /\ UNCHANGED <<loop, queue, running, forwarder, pc, out, err>>
    BY <1>31 DEF ApplyProgress, Handling, IsTerminal, Terminal, Progress
  <2> QED
    BY <1>i, <2>1, HandleEnd
<1>32. ASSUME NEW kind \in Terminal, ApplyTerminal(kind)
      PROVE  EndInv'
  <2>1. /\ batch # <<>> /\ batch' = Tail(batch) /\ IsTerminal(Head(batch))
        /\ batch \in Seq(Event) /\ loop = "run" /\ ~running'
        /\ UNCHANGED <<loop, queue, forwarder, pc, out, err>>
    BY <1>32, <1>i DEF ApplyTerminal, Handling, IsTerminal, TypeOK, UiTypes
  <2>2. ~NoTerminals(batch) /\ ~NoRunEvents(batch)
    BY <2>1, TailKeeps, TerminalIsRunEvent
  <2>3. forwarder = "done" /\ SendersGone
    BY <1>i, <2>1, <2>2 DEF EndInv, TypeOK, PipeTypes
  <2>4. NoRunEvents(batch') /\ EndsWithTerminal(batch')
    BY <1>i, <2>1, TailKeeps DEF EndInv
  <2>5. NoRunEvents(queue') /\ EndsWithTerminal(queue')
    BY <1>i, <2>1, <2>2 DEF EndInv
  <2>6. SendersGone'
    BY <2>1, <2>3 DEF SendersGone
  <2> QED
    BY <2>1, <2>3, <2>4, <2>5, <2>6 DEF EndInv
<1>33. CASE DrawFails
  BY <1>33, <1>l DEF DrawFails, leaveLoop
<1>34. CASE Exit
  BY <1>34, <1>l DEF Exit
<1>35. CASE UNCHANGED vars
  BY <1>35, <1>f DEF vars, SendersGone
<1>36. CASE Resting
  BY <1>36, <1>f DEF Resting, vars, SendersGone
<1>37. CASE TestsExit
  BY <1>37, <1>f DEF TestsExit, SendersGone
<1> QED
  BY <1>1, <1>2, <1>3, <1>4, <1>5, <1>6, <1>7, <1>8, <1>9, <1>10,
     <1>11, <1>12, <1>13, <1>14, <1>15, <1>16, <1>17, <1>18, <1>19,
     <1>20, <1>21, <1>22, <1>23, <1>24, <1>25, <1>26, <1>27, <1>28,
     <1>29, <1>30, <1>31, <1>32, <1>33, <1>34, <1>35, <1>36, <1>37
     DEF Next, Producer, Forward, Handle

-----------------------------------------------------------------------------
(* The inductive invariant and what follows from it.                       *)

LEMMA InitInv == Init => IInv
<1> SUFFICES ASSUME Init
             PROVE  IInv
  OBVIOUS
<1>1. TypeOK
  BY TypeInit
<1>2. TaskInv
  BY DEF Init, TaskInv
<1>3. ChannelInv
  BY EmptyKeeps, EmptyFacts DEF Init, ChannelInv
<1>4. EndInv
  BY EmptyKeeps DEF Init, EndInv
<1> QED
  BY <1>1, <1>2, <1>3, <1>4 DEF IInv

(* The strengthened invariant holds of every run of the system.            *)
THEOREM Invariance == Spec => []IInv
<1>1. Init => IInv
  BY InitInv
<1>2. IInv /\ [Next]_vars => IInv'
  BY TypeNext, TaskNext, ChannelNext, EndNext DEF IInv
<1> QED
  BY <1>1, <1>2, PTL DEF Spec

(* A run in progress on the screen always has someone who will conclude    *)
(* it: the forwarder, or the terminal event that it has queued.            *)
THEOREM Concluded == Spec => []SomeoneConcludes
<1>1. IInv => SomeoneConcludes
  <2> SUFFICES ASSUME IInv, loop = "run"
               PROVE  /\ forwarder = "on" => running
                      /\ running =>
                           \/ forwarder = "on"
                           \/ \E i \in DOMAIN batch : IsTerminal(batch[i])
                           \/ \E i \in DOMAIN queue : IsTerminal(queue[i])
    BY DEF SomeoneConcludes
  <2>1. TypeOK /\ EndInv
    BY DEF IInv
  <2>2. DOMAIN batch = 1..Len(batch) /\ DOMAIN queue = 1..Len(queue)
    BY <2>1 DEF TypeOK, UiTypes, PipeTypes
  <2>3. forwarder \in {"off", "on", "done"}
    BY <2>1 DEF TypeOK, PipeTypes
  <2> QED
    BY <2>1, <2>2, <2>3 DEF EndInv, NoTerminals
<1> QED
  BY <1>1, Invariance, PTL

(* Behind a terminal event that has reached the queue there is no event of *)
(* the run in the queue, in the forwarder's hands or in the run's channel. *)
THEOREM TerminalLast == Spec => []TerminalComesLast
<1>1. IInv => TerminalComesLast
  <2> SUFFICES ASSUME IInv, loop = "run",
                      NEW i \in DOMAIN InFlight, NEW j \in DOMAIN InFlight,
                      IsTerminal(InFlight[i]), i < j, i <= Len(batch \o queue)
               PROVE  ~IsRunEvent(InFlight[j])
    BY DEF TerminalComesLast
  <2> DEFINE b == batch \o queue
  <2>1. TypeOK /\ EndInv /\ ChannelInv
    BY DEF IInv
  <2>2. /\ batch \in Seq(Event) /\ queue \in Seq(Event)
        /\ hand \in Seq(Event) /\ runChan \in Seq(Event)
    BY <2>1 DEF TypeOK, UiTypes, PipeTypes
  <2>3. b \in Seq(Event) /\ InFlight = b \o (hand \o runChan)
    BY <2>2 DEF InFlight
  <2>4. EndsWithTerminal(b)
    BY <2>1, <2>2, ConcatKeeps DEF EndInv
  <2> HIDE DEF b
  <2>5. i \in 1..Len(b) /\ InFlight[i] = b[i]
    <3>1. hand \o runChan \in Seq(Event)
      BY <2>2
    <3> QED
      BY <2>3, <3>1, ConcatFacts DEF b
  <2>6. ~NoTerminals(b)
    BY <2>5 DEF NoTerminals
  <2>7. ~NoTerminals(batch) \/ ~NoTerminals(queue)
    BY <2>2, <2>6, ConcatKeeps DEF b
  <2>8. forwarder # "on"
    BY <2>1, <2>7 DEF EndInv
  <2>9. InFlight = b
    BY <2>1, <2>3, <2>8 DEF ChannelInv
  <2>10. j \in 1..Len(b)
    BY <2>3, <2>9
  <2> QED
    BY <2>4, <2>5, <2>9, <2>10 DEF EndsWithTerminal
<1> QED
  BY <1>1, Invariance, PTL

(* A run begins only when no task of the one before it is left.            *)
THEOREM NoOverlap == Spec => RunsDoNotOverlap
<1> DEFINE Over == /\ pc \in {"idle", "done"}
                   /\ out # "reading" /\ err # "reading"
                   /\ child # "alive"
                   /\ forwarder # "on"
<1>1. ASSUME NEW g \in 1..MaxGroups, IInv, BeginRun(g)
      PROVE  Over
  <2>1. TypeOK /\ TaskInv /\ EndInv
    BY <1>1 DEF IInv
  <2>2. loop = "run" /\ ~running
    BY <1>1 DEF BeginRun, Handling
  <2>3. forwarder \in {"off", "done"}
    BY <2>1, <2>2 DEF EndInv, TypeOK, PipeTypes
  <2>4. CASE forwarder = "off"
    BY <2>1, <2>4 DEF TaskInv, Supervising
  <2>5. CASE forwarder = "done"
    <3>1. SendersGone
      BY <2>1, <2>2, <2>5 DEF EndInv
    <3> QED
      BY <2>1, <2>5, <3>1 DEF SendersGone, TaskInv, Supervising
  <2> QED
    BY <2>3, <2>4, <2>5
<1>2. ASSUME [Next]_vars, run' # run
      PROVE  \E g \in 1..MaxGroups : BeginRun(g)
  <2> USE DEF histVars, producerOnly, readerOnly, forwarderOnly
  <2>1. Producer \/ WaitError => UNCHANGED run
    BY DEF Producer, WaitError, Announce, Spawn, ChildWaited, ReceiveStop,
           Terminate, GraceExpires, ForceKill, JoinStdout, JoinStderr, Finish,
           ReportError, GiveUp
  <2>2. ChildExits \/ ChildKilled \/ TestsExit \/ Forward \/ Drain \/ DrawFails \/ Exit
          => UNCHANGED run
    BY DEF ChildExits, ChildKilled, TestsExit, Forward, ForwardRecv, ForwardSend,
           ForwardFails, ForwardEnd, Drain, DrawFails, leaveLoop, Exit
  <2>3. /\ \A kind \in Progress : ReadStdout(kind) => UNCHANGED run
        /\ ReadStderr \/ EndStdout \/ EndStderr \/ ReaderFails => UNCHANGED run
    BY DEF ReadStdout, ReadStderr, EndStdout, EndStderr, ReaderFails
  <2>4. /\ \A key \in Keys : PressKey(key) => UNCHANGED run
        /\ IgnoreRunRequest \/ StopRun \/ Quit => UNCHANGED run
        /\ \A kind \in Progress : ApplyProgress(kind) => UNCHANGED run
        /\ \A kind \in Terminal : ApplyTerminal(kind) => UNCHANGED run
    BY DEF PressKey, IgnoreRunRequest, StopRun, Quit, leaveLoop, ApplyProgress,
           ApplyTerminal
  <2>5. Resting \/ UNCHANGED vars => UNCHANGED run
    BY DEF Resting, vars
  <2> QED
    BY <1>2, <2>1, <2>2, <2>3, <2>4, <2>5 DEF Next, Handle
<1>3. IInv /\ [Next]_vars => [run' # run => Over]_vars
  BY <1>1, <1>2
<1> QED
  BY <1>3, Invariance, PTL DEF Spec, RunsDoNotOverlap

-----------------------------------------------------------------------------
(* Leaving: who holds the handle of a run waits for its tasks, and when    *)
(* the program has ended they stay ended.                                  *)
ExitInv ==
  /\ control # "none" => pc # "idle"
  /\ loop = "exited" /\ control # "none" => pc = "done" /\ forwarder = "done"

LEMMA ExitNext == IInv /\ ExitInv /\ [Next]_vars => ExitInv'
<1> SUFFICES ASSUME IInv, ExitInv, [Next]_vars
             PROVE  ExitInv'
  OBVIOUS
<1>i. TaskInv
  BY DEF IInv
<1> USE <1>i DEF ExitInv, uiVars, procVars, readVars, pipeVars, producerOnly, readerOnly,
                 forwarderOnly
<1>1. CASE Producer \/ WaitError
  BY <1>1 DEF Producer, WaitError, Announce, Spawn, ChildWaited, ReceiveStop, Terminate,
              GraceExpires, ForceKill, JoinStdout, JoinStderr, Finish, ReportError, GiveUp
<1>2. CASE ChildExits \/ ChildKilled \/ TestsExit \/ Drain \/ DrawFails
  BY <1>2 DEF ChildExits, ChildKilled, TestsExit, Drain, DrawFails, leaveLoop
<1>3. CASE Forward
  BY <1>3 DEF Forward, ForwardRecv, ForwardSend, ForwardFails, ForwardEnd
<1>4. CASE (\E kind \in Progress : ReadStdout(kind)) \/ ReadStderr \/ EndStdout \/ EndStderr
           \/ ReaderFails
  BY <1>4 DEF ReadStdout, ReadStderr, EndStdout, EndStderr, ReaderFails
<1>5. CASE (\E key \in Keys : PressKey(key)) \/ IgnoreRunRequest \/ StopRun \/ Quit
           \/ \E kind \in Progress : ApplyProgress(kind)
  BY <1>5 DEF PressKey, IgnoreRunRequest, StopRun, Quit, leaveLoop, ApplyProgress, Handling
<1>6. CASE (\E g \in 1..MaxGroups : BeginRun(g)) \/ \E kind \in Terminal : ApplyTerminal(kind)
  BY <1>6 DEF BeginRun, ApplyTerminal, Handling
<1>7. CASE Exit
  BY <1>7 DEF Exit, RunAwaited
<1>8. CASE Resting \/ UNCHANGED vars
  BY <1>8 DEF Resting, vars
<1> QED
  BY <1>1, <1>2, <1>3, <1>4, <1>5, <1>6, <1>7, <1>8 DEF Next, Handle

(* The program ends only when the tasks of the run and its process are     *)
(* over, unless the handle of the run was lost to a refused request.       *)
THEOREM ExitAwaits == Spec => []ExitAwaitsRun
<1>1. Init => ExitInv
  BY DEF Init, ExitInv
<1>2. IInv /\ ExitInv /\ [Next]_vars => ExitInv'
  BY ExitNext
<1>3. IInv /\ ExitInv => ExitAwaitsRun
  BY DEF IInv, TaskInv, Supervising, ExitInv, ExitAwaitsRun
<1> QED
  BY <1>1, <1>2, <1>3, Invariance, PTL DEF Spec

-----------------------------------------------------------------------------
(***************************************************************************)
(* RunPipeline implements RunLifecycle. Beside the invariant above this    *)
(* rests on what is said of the events in flight: they are the next ones   *)
(* to be shown, in order and without a gap, and the terminal one among     *)
(* them is the verdict of the run.                                         *)
(***************************************************************************)

IsProgress(e) == e.kind \in Progress

(* The progress events of a sequence are number first + 1 to number last,  *)
(* in this order.                                                          *)
Numbered(s, first, last) ==
  /\ first <= last
  /\ \A i \in 1..Len(s) : IsProgress(s[i]) => s[i].seq \in (first + 1)..last
  /\ \A i, j \in 1..Len(s) :
       IsProgress(s[i]) /\ IsProgress(s[j]) /\ i < j => s[i].seq < s[j].seq
  /\ \A n \in (first + 1)..last : \E i \in 1..Len(s) : IsProgress(s[i]) /\ s[i].seq = n

SaysOnly(s, kind) == \A i \in 1..Len(s) : IsTerminal(s[i]) => s[i].kind = kind

(* Only a run that is in progress has tasks.                               *)
ActiveInv ==
  ~running => pc \in {"idle", "done"} /\ out # "reading" /\ err # "reading" /\ forwarder # "on"

(* Whoever stops the run was asked to.                                     *)
AskedInv ==
  /\ stopMsg \/ stopped => asked
  /\ pc \in {"note", "grace", "force", "killed", "sendStopped"} => asked

(* The terminal event says how the run ended, and is sent once.            *)
VerdictInv ==
  /\ pc # "done" => verdict = "none"
  /\ loop = "run" => /\ SaysOnly(batch, verdict) /\ SaysOnly(queue, verdict)
                     /\ SaysOnly(runChan, verdict) /\ SaysOnly(held, verdict)

(* What was sent and not yet shown is on its way, in order.                *)
OrderInv == loop = "run" => Numbered(InFlight, seen, sent)

RInv == IInv /\ ActiveInv /\ AskedInv /\ VerdictInv /\ OrderInv

-----------------------------------------------------------------------------
(* Facts about numbered sequences.                                         *)

(* An event that is no progress may stand anywhere among the others.       *)
LEMMA InsertNumbered ==
  ASSUME NEW s \in Seq(Event), NEW t \in Seq(Event), NEW e \in Event, ~IsProgress(e),
         NEW a \in Nat, NEW b \in Nat
  PROVE  Numbered(s \o t, a, b) <=> Numbered(s \o (<<e>> \o t), a, b)
<1> DEFINE u == s \o t
           v == s \o (<<e>> \o t)
           k == Len(s)
<1>1. /\ <<e>> \in Seq(Event) /\ Len(<<e>>) = 1 /\ <<e>>[1] = e
      /\ <<e>> \o t \in Seq(Event)
      /\ k \in Nat /\ Len(t) \in Nat
  BY SingletonFacts, ConcatFacts
<1>2. /\ Len(u) = k + Len(t) /\ Len(v) = Len(u) + 1
      /\ \A i \in 1..k : u[i] = s[i] /\ v[i] = s[i]
  BY <1>1, ConcatFacts
<1>3. v[k + 1] = e
  BY <1>1, ConcatFacts
<1>4. \A i \in 1..Len(t) : u[i + k] = t[i] /\ v[i + k + 1] = t[i]
  <2> SUFFICES ASSUME NEW i \in 1..Len(t)
               PROVE  u[i + k] = t[i] /\ v[i + k + 1] = t[i]
    OBVIOUS
  <2>1. u[i + k] = t[i]
    BY ConcatFacts
  <2>2. (<<e>> \o t)[i + 1] = t[i] /\ i + 1 \in 1..Len(<<e>> \o t)
    BY <1>1, ConcatFacts
  <2>3. v[(i + 1) + k] = (<<e>> \o t)[i + 1]
    BY <1>1, <2>2, ConcatFacts
  <2>4. v[i + k + 1] = v[(i + 1) + k]
    BY <1>1
  <2> QED
    BY <2>1, <2>2, <2>3, <2>4
<1> DEFINE at(i) == IF i <= k THEN i ELSE i + 1
           of(i) == IF i <= k THEN i ELSE i - 1
<1>5. /\ Len(u) \in Nat /\ Len(v) \in Nat /\ k <= Len(u)
      /\ \A i \in 1..Len(u) : at(i) \in 1..Len(v) /\ v[at(i)] = u[i]
      /\ \A i \in 1..Len(u) : i > k => v[i + 1] = u[i]
  <2>1. \A i \in 1..Len(u) : i > k => i - k \in 1..Len(t) /\ u[i] = t[i - k] /\ v[i + 1] = t[i - k]
    BY <1>1, <1>2, <1>4
  <2> QED
    BY <1>1, <1>2, <2>1
<1> HIDE DEF u, v, k
<1>6. \A i \in 1..Len(v) : IsProgress(v[i]) =>
        of(i) \in 1..Len(u) /\ u[of(i)] = v[i] /\ i # k + 1
  <2> SUFFICES ASSUME NEW i \in 1..Len(v), IsProgress(v[i])
               PROVE  of(i) \in 1..Len(u) /\ u[of(i)] = v[i] /\ i # k + 1
    OBVIOUS
  <2>1. i # k + 1
    BY <1>3
  <2>2. CASE i <= k
    BY <1>1, <1>2, <1>5, <2>2
  <2>3. CASE i > k
    <3>1. i - 1 \in 1..Len(u) /\ i - 1 > k
      BY <1>1, <1>2, <1>5, <2>1, <2>3
    <3>2. v[(i - 1) + 1] = u[i - 1] /\ (i - 1) + 1 = i
      BY <1>5, <3>1
    <3>3. of(i) = i - 1
      BY <1>1, <2>3
    <3> QED
      BY <2>1, <3>1, <3>2, <3>3
  <2> QED
    BY <1>1, <2>2, <2>3
<1>7. ASSUME Numbered(u, a, b)
      PROVE  Numbered(v, a, b)
  <2>1. \A i \in 1..Len(v) : IsProgress(v[i]) => v[i].seq \in (a + 1)..b
    BY <1>6, <1>7 DEF Numbered
  <2>2. \A i, j \in 1..Len(v) :
          IsProgress(v[i]) /\ IsProgress(v[j]) /\ i < j => v[i].seq < v[j].seq
    <3> SUFFICES ASSUME NEW i \in 1..Len(v), NEW j \in 1..Len(v),
                        IsProgress(v[i]), IsProgress(v[j]), i < j
                 PROVE  v[i].seq < v[j].seq
      OBVIOUS
    <3>1. of(i) < of(j)
      BY <1>1, <1>6
    <3>2. of(i) \in 1..Len(u) /\ of(j) \in 1..Len(u) /\ u[of(i)] = v[i] /\ u[of(j)] = v[j]
      BY <1>6
    <3> HIDE DEF of
    <3> QED
      BY <1>7, <3>1, <3>2 DEF Numbered
  <2>3. \A n \in (a + 1)..b : \E i \in 1..Len(v) : IsProgress(v[i]) /\ v[i].seq = n
    <3> SUFFICES ASSUME NEW n \in (a + 1)..b
                 PROVE  \E i \in 1..Len(v) : IsProgress(v[i]) /\ v[i].seq = n
      OBVIOUS
    <3>1. PICK i \in 1..Len(u) : IsProgress(u[i]) /\ u[i].seq = n
      BY <1>7 DEF Numbered
    <3> HIDE DEF at
    <3>2. at(i) \in 1..Len(v) /\ v[at(i)] = u[i]
      BY <1>5
    <3> QED
      BY <3>1, <3>2
  <2> QED
    BY <1>7, <2>1, <2>2, <2>3 DEF Numbered
<1>8. ASSUME Numbered(v, a, b)
      PROVE  Numbered(u, a, b)
  <2>1. \A i \in 1..Len(u) : IsProgress(u[i]) => u[i].seq \in (a + 1)..b
    <3> HIDE DEF at
    <3> QED
      BY <1>5, <1>8 DEF Numbered
  <2>2. \A i, j \in 1..Len(u) :
          IsProgress(u[i]) /\ IsProgress(u[j]) /\ i < j => u[i].seq < u[j].seq
    <3> SUFFICES ASSUME NEW i \in 1..Len(u), NEW j \in 1..Len(u),
                        IsProgress(u[i]), IsProgress(u[j]), i < j
                 PROVE  u[i].seq < u[j].seq
      OBVIOUS
    <3>1. at(i) < at(j)
      BY <1>1
    <3>2. at(i) \in 1..Len(v) /\ at(j) \in 1..Len(v) /\ v[at(i)] = u[i] /\ v[at(j)] = u[j]
      BY <1>5
    <3> HIDE DEF at
    <3> QED
      BY <1>8, <3>1, <3>2 DEF Numbered
  <2>3. \A n \in (a + 1)..b : \E i \in 1..Len(u) : IsProgress(u[i]) /\ u[i].seq = n
    <3> HIDE DEF of
    <3> QED
      BY <1>6, <1>8 DEF Numbered
  <2> QED
    BY <1>8, <2>1, <2>2, <2>3 DEF Numbered
<1> QED
  BY <1>7, <1>8 DEF u, v

(* The next event of the run is numbered next.                             *)
LEMMA AppendNumbered ==
  ASSUME NEW s \in Seq(Event), NEW e \in Event, NEW a \in Nat, NEW b \in Nat,
         IsProgress(e), e.seq = b + 1, Numbered(s, a, b)
  PROVE  Numbered(Append(s, e), a, b + 1)
<1> DEFINE v == Append(s, e)
<1>1. /\ Len(v) = Len(s) + 1 /\ Len(s) \in Nat
      /\ \A i \in 1..Len(s) : v[i] = s[i] /\ i \in 1..Len(v)
      /\ v[Len(s) + 1] = e /\ Len(s) + 1 \in 1..Len(v)
      /\ \A i \in 1..Len(v) : i = Len(s) + 1 \/ i \in 1..Len(s)
  BY AppendFacts
<1> HIDE DEF v
<1>2. \A i \in 1..Len(v) : IsProgress(v[i]) => v[i].seq \in (a + 1)..(b + 1)
  BY <1>1 DEF Numbered
<1>3. \A i, j \in 1..Len(v) :
        IsProgress(v[i]) /\ IsProgress(v[j]) /\ i < j => v[i].seq < v[j].seq
  BY <1>1 DEF Numbered
<1>4. \A n \in (a + 1)..(b + 1) : \E i \in 1..Len(v) : IsProgress(v[i]) /\ v[i].seq = n
  <2> SUFFICES ASSUME NEW n \in (a + 1)..(b + 1)
               PROVE  \E i \in 1..Len(v) : IsProgress(v[i]) /\ v[i].seq = n
    OBVIOUS
  <2>1. CASE n = b + 1
    BY <1>1, <2>1
  <2>2. CASE n \in (a + 1)..b
    BY <1>1, <2>2 DEF Numbered
  <2> QED
    BY <2>1, <2>2
<1>5. a <= b + 1
  BY DEF Numbered
<1>6. Numbered(v, a, b + 1)
  BY ONLY <1>2, <1>3, <1>4, <1>5, Zenon DEF Numbered
<1> QED
  BY <1>6 DEF v

(* The first progress event in flight is the next one to be shown.         *)
LEMMA HeadNumbered ==
  ASSUME NEW s \in Seq(Event), s # <<>>, NEW a \in Nat, NEW b \in Nat,
         IsProgress(Head(s)), Numbered(s, a, b)
  PROVE  Head(s).seq = a + 1 /\ a < b /\ Numbered(Tail(s), a + 1, b)
<1> DEFINE t == Tail(s)
<1>1. /\ Len(t) = Len(s) - 1 /\ Len(s) \in Nat \ {0}
      /\ Head(s) = s[1] /\ \A i \in 1..Len(t) : t[i] = s[i + 1] /\ i + 1 \in 1..Len(s)
      /\ \A i \in 2..Len(s) : i - 1 \in 1..Len(t) /\ t[i - 1] = s[i]
  BY TailFacts
<1> HIDE DEF t
<1>2. s[1].seq \in (a + 1)..b /\ a < b /\ IsProgress(s[1]) /\ 1 \in 1..Len(s)
  BY <1>1 DEF Numbered
<1>o. \A j \in 2..Len(s) : IsProgress(s[j]) => s[1].seq < s[j].seq
  <2> SUFFICES ASSUME NEW j \in 2..Len(s), IsProgress(s[j])
               PROVE  s[1].seq < s[j].seq
    OBVIOUS
  <2>1. j \in 1..Len(s) /\ 1 < j
    BY <1>1
  <2> QED
    BY <1>2, <2>1 DEF Numbered
<1>3. PICK i \in 1..Len(s) : IsProgress(s[i]) /\ s[i].seq = a + 1
  BY <1>2 DEF Numbered
<1>4. i = 1
  <2> SUFFICES ASSUME i # 1
               PROVE  FALSE
    OBVIOUS
  <2>1. s[1].seq < s[i].seq
    BY <1>1, <1>3, <1>o
  <2> QED
    BY <1>2, <1>3, <2>1
<1>5. \A j \in 1..Len(t) : IsProgress(t[j]) => t[j].seq \in ((a + 1) + 1)..b
  <2> SUFFICES ASSUME NEW j \in 1..Len(t), IsProgress(t[j])
               PROVE  t[j].seq \in ((a + 1) + 1)..b
    OBVIOUS
  <2>1. t[j] = s[j + 1] /\ j + 1 \in 2..Len(s) /\ j + 1 \in 1..Len(s)
    BY <1>1
  <2>2. t[j].seq \in (a + 1)..b
    BY <2>1 DEF Numbered
  <2>3. s[1].seq < t[j].seq
    BY <1>o, <2>1
  <2> QED
    BY <1>3, <1>4, <2>2, <2>3
<1>6. \A j, k \in 1..Len(t) :
        IsProgress(t[j]) /\ IsProgress(t[k]) /\ j < k => t[j].seq < t[k].seq
  <2> SUFFICES ASSUME NEW j \in 1..Len(t), NEW k \in 1..Len(t),
                      IsProgress(t[j]), IsProgress(t[k]), j < k
               PROVE  t[j].seq < t[k].seq
    OBVIOUS
  <2>1. t[j] = s[j + 1] /\ t[k] = s[k + 1] /\ j + 1 \in 1..Len(s) /\ k + 1 \in 1..Len(s)
        /\ j + 1 < k + 1
    BY <1>1
  <2> QED
    BY <2>1 DEF Numbered
<1>7. \A n \in ((a + 1) + 1)..b : \E j \in 1..Len(t) : IsProgress(t[j]) /\ t[j].seq = n
  <2> SUFFICES ASSUME NEW n \in ((a + 1) + 1)..b
               PROVE  \E j \in 1..Len(t) : IsProgress(t[j]) /\ t[j].seq = n
    OBVIOUS
  <2>0. n \in (a + 1)..b
    OBVIOUS
  <2>1. PICK j \in 1..Len(s) : IsProgress(s[j]) /\ s[j].seq = n
    BY <2>0 DEF Numbered
  <2>2. j \in 2..Len(s)
    BY <1>1, <1>3, <1>4, <2>1
  <2> QED
    BY <1>1, <2>1, <2>2
<1>8. a + 1 <= b
  BY <1>2
<1>9. Numbered(t, a + 1, b)
  BY ONLY <1>5, <1>6, <1>7, <1>8, Zenon DEF Numbered
<1> QED
  BY <1>1, <1>2, <1>3, <1>4, <1>9 DEF t

(* When no progress is in flight, all of it has been shown.                *)
LEMMA NoneNumbered ==
  ASSUME NEW s \in Seq(Event), NEW a \in Nat, NEW b \in Nat, NoRunEvents(s)
  PROVE  Numbered(s, a, b) <=> a = b
<1>1. \A i \in 1..Len(s) : ~IsProgress(s[i])
  BY DEF NoRunEvents, IsRunEvent, IsProgress, Progress, Keys
<1>2. a < b => a + 1 \in (a + 1)..b
  OBVIOUS
<1>3. a = b => (a + 1)..b = {} /\ a <= b
  OBVIOUS
<1> QED
  BY <1>1, <1>2, <1>3 DEF Numbered

-----------------------------------------------------------------------------
(* The sequence of events in flight as its parts move.                     *)

LEMMA Associates ==
  ASSUME NEW s \in Seq(Event), NEW t \in Seq(Event), NEW u \in Seq(Event)
  PROVE  (s \o t) \o u = s \o (t \o u)
  BY ConcatAssociative

LEMMA ConcatAppend ==
  ASSUME NEW s \in Seq(Event), NEW t \in Seq(Event), NEW e \in Event
  PROVE  s \o Append(t, e) = (s \o t) \o <<e>> /\ <<e>> \in Seq(Event)
<1>1. Append(t, e) = t \o <<e>> /\ <<e>> \in Seq(Event)
  BY AppendedEvent
<1>2. s \o (t \o <<e>>) = (s \o t) \o <<e>>
  BY <1>1, Associates
<1> QED
  BY <1>1, <1>2

(* Handling the first event of a batch takes the first in flight.          *)
LEMMA ConcatHead ==
  ASSUME NEW s \in Seq(Event), NEW t \in Seq(Event), s # <<>>
  PROVE  /\ s \o t \in Seq(Event) /\ s \o t # <<>>
         /\ Head(s \o t) = Head(s)
         /\ Tail(s \o t) = Tail(s) \o t
<1> DEFINE e == Head(s)
           r == Tail(s)
<1>1. e \in Event /\ r \in Seq(Event) /\ <<e>> \in Seq(Event)
  BY TailFacts, SingletonFacts
<1>2. s = <<e>> \o r
  OBVIOUS
<1> HIDE DEF e, r
<1>3. s \o t = <<e>> \o (r \o t) /\ r \o t \in Seq(Event)
  BY <1>1, <1>2, Associates, ConcatProperties
<1>4. \A w \in Seq(Event) :
        <<e>> \o w \in Seq(Event) /\ <<e>> \o w # <<>> /\ Head(<<e>> \o w) = e /\ Tail(<<e>> \o w) = w
  BY <1>1
<1>5. Head(s \o t) = e /\ Tail(s \o t) = r \o t /\ s \o t # <<>> /\ s \o t \in Seq(Event)
  BY <1>3, <1>4
<1> QED
  BY <1>5 DEF e, r

(* Draining moves the end of the batch in what is in flight.               *)
LEMMA FlightDrained ==
  ASSUME NEW q \in Seq(Event), NEW r \in Seq(Event), NEW n \in 1..Len(q)
  PROVE  (SubSeq(q, 1, n) \o SubSeq(q, n + 1, Len(q))) \o r = (<<>> \o q) \o r
<1>1. Len(q) \in Nat
  OBVIOUS
<1>2. SubSeq(q, 1, n) \o SubSeq(q, n + 1, Len(q)) = SubSeq(q, 1, Len(q))
  BY <1>1, ConcatAdjacentSubSeq
<1> QED
  BY <1>2, SubSeqFull, ConcatEmptySeq

(* What the parts of a sequence say, it says.                              *)
LEMMA SaysOnlyOne ==
  ASSUME NEW e \in Event, NEW k
  PROVE  SaysOnly(<<e>>, k) <=> (IsTerminal(e) => e.kind = k)
  BY SingletonFacts DEF SaysOnly

LEMMA SaysOnlyFacts ==
  ASSUME NEW s \in Seq(Event), NEW t \in Seq(Event), NEW k
  PROVE  /\ NoTerminals(s) => SaysOnly(s, k)
         /\ SaysOnly(s, k) /\ SaysOnly(t, k) => SaysOnly(s \o t, k)
         /\ s # <<>> /\ SaysOnly(s, k) =>
              /\ SaysOnly(Tail(s), k)
              /\ SaysOnly(<<Head(s)>>, k)
              /\ IsTerminal(Head(s)) => Head(s).kind = k
         /\ \A n \in 1..Len(s) : SaysOnly(s, k) =>
              SaysOnly(SubSeq(s, 1, n), k) /\ SaysOnly(SubSeq(s, n + 1, Len(s)), k)
<1>1. NoTerminals(s) => SaysOnly(s, k)
  BY DEF NoTerminals, SaysOnly
<1>2. SaysOnly(s, k) /\ SaysOnly(t, k) => SaysOnly(s \o t, k)
  <2> DEFINE u == s \o t
  <2>1. \A i \in 1..Len(u) :
          \/ i \in 1..Len(s) /\ u[i] = s[i]
          \/ i - Len(s) \in 1..Len(t) /\ u[i] = t[i - Len(s)]
    BY ConcatFacts
  <2> HIDE DEF u
  <2>2. SaysOnly(s, k) /\ SaysOnly(t, k) => SaysOnly(u, k)
    BY <2>1 DEF SaysOnly
  <2> QED
    BY <2>2 DEF u
<1>4. s # <<>> /\ SaysOnly(s, k) =>
        SaysOnly(Tail(s), k) /\ (IsTerminal(Head(s)) => Head(s).kind = k)
  <2> SUFFICES ASSUME s # <<>>, SaysOnly(s, k)
               PROVE  SaysOnly(Tail(s), k) /\ (IsTerminal(Head(s)) => Head(s).kind = k)
    OBVIOUS
  <2> DEFINE u == Tail(s)
  <2>1. /\ Len(s) \in Nat \ {0} /\ Head(s) = s[1]
        /\ \A i \in 1..Len(u) : u[i] = s[i + 1] /\ i + 1 \in 1..Len(s)
    BY TailFacts
  <2> HIDE DEF u
  <2>2. SaysOnly(u, k) /\ (IsTerminal(s[1]) => s[1].kind = k)
    BY <2>1 DEF SaysOnly
  <2> QED
    BY <2>1, <2>2 DEF u
<1>5. s # <<>> => (SaysOnly(<<Head(s)>>, k) <=> (IsTerminal(Head(s)) => Head(s).kind = k))
  BY SaysOnlyOne, TailFacts
<1>6. ASSUME NEW n \in 1..Len(s), SaysOnly(s, k)
      PROVE  SaysOnly(SubSeq(s, 1, n), k) /\ SaysOnly(SubSeq(s, n + 1, Len(s)), k)
  <2> DEFINE u == SubSeq(s, 1, n)
             v == SubSeq(s, n + 1, Len(s))
  <2>1. /\ \A i \in 1..Len(u) : u[i] = s[i] /\ i \in 1..Len(s)
        /\ \A i \in 1..Len(v) : v[i] = s[i + n] /\ i + n \in 1..Len(s)
    BY PartFacts
  <2> HIDE DEF u, v
  <2>2. SaysOnly(u, k) /\ SaysOnly(v, k)
    BY <1>6, <2>1 DEF SaysOnly
  <2> QED
    BY <2>2 DEF u, v
<1> QED
  BY <1>1, <1>2, <1>4, <1>5, <1>6

-----------------------------------------------------------------------------
(* The invariant, part by part.                                            *)

LEMMA ActiveNext == RInv /\ [Next]_vars => ActiveInv'
<1> SUFFICES ASSUME RInv, [Next]_vars
             PROVE  ActiveInv'
  OBVIOUS
<1>i. TypeOK /\ TaskInv /\ ChannelInv /\ EndInv /\ ActiveInv
  BY DEF RInv, IInv
<1> USE <1>i DEF ActiveInv, uiVars, procVars, readVars, pipeVars, producerOnly, readerOnly,
                 forwarderOnly
<1>1. CASE Producer \/ WaitError
  BY <1>1 DEF Producer, WaitError, Announce, Spawn, ChildWaited, ReceiveStop, Terminate,
              GraceExpires, ForceKill, JoinStdout, JoinStderr, Finish, ReportError, GiveUp
<1>2. CASE ChildExits \/ ChildKilled \/ TestsExit \/ Forward \/ Drain \/ DrawFails \/ Exit
  BY <1>2 DEF ChildExits, ChildKilled, TestsExit, Forward, ForwardRecv, ForwardSend, ForwardFails,
              ForwardEnd, Drain, DrawFails, leaveLoop, Exit
<1>3. CASE (\E kind \in Progress : ReadStdout(kind)) \/ ReadStderr \/ EndStdout \/ EndStderr
           \/ ReaderFails
  BY <1>3 DEF ReadStdout, ReadStderr, EndStdout, EndStderr, ReaderFails
<1>4. CASE (\E key \in Keys : PressKey(key)) \/ IgnoreRunRequest \/ StopRun \/ Quit
           \/ \E kind \in Progress : ApplyProgress(kind)
  BY <1>4 DEF PressKey, IgnoreRunRequest, StopRun, Quit, leaveLoop, ApplyProgress
<1>5. CASE \E g \in 1..MaxGroups : BeginRun(g)
  BY <1>5 DEF BeginRun
<1>6. ASSUME NEW kind \in Terminal, ApplyTerminal(kind)
      PROVE  ActiveInv'
  <2>1. /\ batch # <<>> /\ batch \in Seq(Event) /\ IsTerminal(Head(batch)) /\ loop = "run"
        /\ UNCHANGED <<pc, out, err, forwarder>>
    BY <1>6 DEF ApplyTerminal, Handling, IsTerminal, TypeOK, UiTypes
  <2>2. ~NoTerminals(batch) /\ ~NoRunEvents(batch)
    BY <2>1, TailKeeps, TerminalIsRunEvent
  <2>3. forwarder = "done" /\ SendersGone
    BY <2>1, <2>2 DEF EndInv, TypeOK, PipeTypes
  <2> QED
    BY <2>1, <2>3 DEF SendersGone
<1>7. CASE Resting \/ UNCHANGED vars
  BY <1>7 DEF Resting, vars
<1> QED
  BY <1>1, <1>2, <1>3, <1>4, <1>5, <1>6, <1>7 DEF Next, Handle

LEMMA AskedNext == RInv /\ [Next]_vars => AskedInv'
<1> SUFFICES ASSUME RInv, [Next]_vars
             PROVE  AskedInv'
  OBVIOUS
<1>i. TypeOK /\ AskedInv
  BY DEF RInv, IInv
<1> USE <1>i DEF AskedInv, uiVars, procVars, readVars, pipeVars, histVars, producerOnly,
                 readerOnly, forwarderOnly, RequestStop
<1>1. CASE Producer \/ WaitError
  <2>1. CASE Announce \/ Terminate \/ ForceKill \/ Finish \/ ReportError \/ GiveUp
    BY <2>1 DEF Announce, Terminate, ForceKill, Finish, ReportError, GiveUp
  <2>2. CASE Spawn \/ GraceExpires \/ WaitError
    BY <2>2 DEF Spawn, GraceExpires, WaitError
  <2>4. CASE ChildWaited
    BY <2>4 DEF ChildWaited
  <2>5. CASE ReceiveStop
    BY <2>5 DEF ReceiveStop
  <2>3. CASE JoinStdout \/ JoinStderr
    BY <2>3 DEF JoinStdout, JoinStderr
  <2> QED
    BY <1>1, <2>1, <2>2, <2>3, <2>4, <2>5 DEF Producer
<1>2. CASE ChildExits \/ ChildKilled \/ TestsExit \/ Forward \/ Drain \/ DrawFails \/ Exit
  BY <1>2 DEF ChildExits, ChildKilled, TestsExit, Forward, ForwardRecv, ForwardSend, ForwardFails,
              ForwardEnd, Drain, DrawFails, leaveLoop, Exit
<1>3. CASE (\E kind \in Progress : ReadStdout(kind)) \/ ReadStderr \/ EndStdout \/ EndStderr
           \/ ReaderFails
  BY <1>3 DEF ReadStdout, ReadStderr, EndStdout, EndStderr, ReaderFails
<1>4. CASE \E key \in Keys : PressKey(key)
  BY <1>4 DEF PressKey
<1>7. CASE IgnoreRunRequest
  BY <1>7 DEF IgnoreRunRequest
<1>8. CASE StopRun
  BY <1>8 DEF StopRun
<1>9. CASE Quit
  BY <1>9 DEF Quit, leaveLoop
<1>5. CASE \/ \E g \in 1..MaxGroups : BeginRun(g)
           \/ \E kind \in Progress : ApplyProgress(kind)
           \/ \E kind \in Terminal : ApplyTerminal(kind)
  BY <1>5 DEF BeginRun, ApplyProgress, ApplyTerminal
<1>6. CASE Resting \/ UNCHANGED vars
  BY <1>6 DEF Resting, vars
<1> QED
  BY <1>1, <1>2, <1>3, <1>4, <1>5, <1>6, <1>7, <1>8, <1>9 DEF Next, Handle

LEMMA VerdictNext == RInv /\ [Next]_vars => VerdictInv'
<1> SUFFICES ASSUME RInv, [Next]_vars
             PROVE  VerdictInv'
  OBVIOUS
<1>i. TypeOK /\ TaskInv /\ ChannelInv /\ EndInv /\ VerdictInv
  BY DEF RInv, IInv
<1>t. /\ batch \in Seq(Event) /\ queue \in Seq(Event) /\ runChan \in Seq(Event)
      /\ hand \in Seq(Event) /\ held \in Seq(Event)
  BY <1>i DEF TypeOK, UiTypes, PipeTypes
<1> DEFINE Told == /\ SaysOnly(batch, verdict) /\ SaysOnly(queue, verdict)
                   /\ SaysOnly(runChan, verdict) /\ SaysOnly(held, verdict)
<1>f. (UNCHANGED <<verdict, batch, queue, runChan, held>> /\ (loop' = "run" => loop = "run"))
        => (loop' = "run" => Told')
  BY <1>i DEF VerdictInv, SaysOnly
<1>p. UNCHANGED verdict /\ (pc' # "done" => pc # "done") => (pc' # "done" => verdict' = "none")
  BY <1>i DEF VerdictInv
<1>d. (pc' # "done" => verdict' = "none") /\ (loop' = "run" => Told') => VerdictInv'
  BY DEF VerdictInv
<1>e. SaysOnly(<<>>, verdict)
  BY EmptyFacts DEF SaysOnly
<1>s. ASSUME NEW kind \in Progress, Send(kind), UNCHANGED <<loop, batch, queue, held, verdict>>
      PROVE  loop' = "run" => Told'
  <2> SUFFICES ASSUME loop = "run"
               PROVE  Told'
    BY <1>s
  <2> DEFINE e == [kind |-> kind, run |-> run, seq |-> sent + 1]
  <2>1. CASE runChan' = runChan
    BY <1>s, <2>1, <1>f
  <2>2. CASE runChan' = Append(runChan, e)
    <3>1. e \in Event /\ ~IsTerminal(e)
      BY <1>i DEF Event, Kinds, Progress, IsTerminal, Terminal, TypeOK, HistTypes
    <3> HIDE DEF e
    <3>2. runChan' = runChan \o <<e>> /\ SaysOnly(<<e>>, verdict) /\ <<e>> \in Seq(Event)
      BY <1>t, <2>2, <3>1, AppendedEvent, SaysOnlyFacts, SaysOnlyOne
    <3>3. SaysOnly(runChan, verdict)
      BY <1>i DEF VerdictInv
    <3>4. SaysOnly(runChan', verdict)
      BY <1>t, <3>2, <3>3, SaysOnlyFacts
    <3> QED
      BY <1>i, <1>s, <3>4 DEF VerdictInv, SaysOnly
  <2> QED
    BY <1>s, <2>1, <2>2 DEF Send
<1>v. ASSUME NEW kind \in Terminal, SendTerminal(kind), pc \notin {"idle", "done"},
             UNCHANGED <<loop, batch, queue, held>>
      PROVE  loop' = "run" => Told'
  <2> SUFFICES ASSUME loop = "run"
               PROVE  Told'
    BY <1>v
  <2> DEFINE e == [kind |-> kind, run |-> run, seq |-> 0]
  <2>1. forwarder = "on"
    BY <1>i, <1>v DEF EndInv, SendersGone, TaskInv, TypeOK, PipeTypes
  <2>2. /\ NoTerminals(batch) /\ NoTerminals(queue) /\ NoTerminals(runChan) /\ held = <<>>
    BY <1>i, <1>v, <2>1 DEF EndInv, ChannelInv
  <2>3. runChan' = Append(runChan, e) /\ verdict' = kind
    BY <1>v, <2>1 DEF SendTerminal
  <2>4. e \in Event /\ e.kind = kind
    BY <1>i DEF Event, Kinds, TypeOK, HistTypes
  <2> HIDE DEF e
  <2>5. /\ runChan' = runChan \o <<e>> /\ <<e>> \in Seq(Event)
        /\ SaysOnly(<<e>>, kind) /\ SaysOnly(runChan, kind)
        /\ SaysOnly(batch, kind) /\ SaysOnly(queue, kind)
    BY <1>t, <2>2, <2>3, <2>4, AppendedEvent, SaysOnlyFacts, SaysOnlyOne
  <2>6. SaysOnly(runChan', kind)
    BY <1>t, <2>5, SaysOnlyFacts
  <2>7. SaysOnly(held, kind)
    BY <2>2, EmptyFacts DEF SaysOnly
  <2> QED
    BY <1>v, <2>3, <2>5, <2>6, <2>7 DEF SaysOnly
<1>h. ASSUME batch # <<>>, batch' = Tail(batch), UNCHANGED <<loop, queue, runChan, held, verdict>>
      PROVE  loop' = "run" => Told'
  <2> SUFFICES ASSUME loop = "run"
               PROVE  Told'
    BY <1>h
  <2>1. SaysOnly(batch', verdict)
    BY <1>i, <1>t, <1>h, SaysOnlyFacts DEF VerdictInv
  <2> QED
    BY <1>i, <1>h, <2>1 DEF VerdictInv, SaysOnly
<1> HIDE DEF Told
<1> USE DEF uiVars, procVars, readVars, pipeVars, histVars, producerOnly, readerOnly,
            forwarderOnly
<1>1. CASE Announce
  <2>1. loop' = "run" => Told'
    <3>1. CASE groups > 1
      BY <1>1, <1>s, <3>1 DEF Announce, Progress
    <3>2. CASE ~(groups > 1)
      BY <1>1, <1>f, <3>2 DEF Announce
    <3> QED
      BY <3>1, <3>2
  <2> QED
    BY <1>1, <1>d, <1>p, <2>1 DEF Announce
<1>2. CASE Spawn \/ ChildWaited \/ ReceiveStop \/ GraceExpires
  BY <1>2, <1>f, <1>p, <1>d DEF Spawn, ChildWaited, ReceiveStop, GraceExpires
<1>3. CASE Terminate
  BY <1>3, <1>s, <1>p, <1>d DEF Terminate, Progress
<1>4. CASE ForceKill
  BY <1>4, <1>s, <1>p, <1>d DEF ForceKill, Progress
<1>5. CASE ReportError
  BY <1>5, <1>s, <1>p, <1>d DEF ReportError, Progress
<1>6. CASE JoinStdout \/ JoinStderr \/ WaitError
  BY <1>6, <1>f, <1>p, <1>d DEF JoinStdout, JoinStderr, WaitError
<1>7. CASE Finish
  <2>1. PICK kind \in Terminal : SendTerminal(kind)
    BY <1>7, <1>i DEF Finish, Terminal, TypeOK, ProcTypes
  <2>2. loop' = "run" => Told'
    BY <1>7, <1>v, <2>1 DEF Finish
  <2> QED
    BY <1>7, <1>d, <2>2 DEF Finish
<1>8. CASE GiveUp
  <2>1. loop' = "run" => Told'
    BY <1>8, <1>v DEF GiveUp, Terminal
  <2> QED
    BY <1>8, <1>d, <2>1 DEF GiveUp
<1>9. CASE ChildExits \/ ChildKilled \/ TestsExit \/ EndStdout \/ EndStderr \/ ReaderFails
  BY <1>9, <1>f, <1>p, <1>d DEF ChildExits, ChildKilled, TestsExit, EndStdout, EndStderr, ReaderFails
<1>10. CASE (\E kind \in Progress : ReadStdout(kind)) \/ ReadStderr
  BY <1>10, <1>s, <1>p, <1>d DEF ReadStdout, ReadStderr, Progress
<1>11. CASE ForwardRecv
  <2> SUFFICES ASSUME loop = "run"
               PROVE  Told'
    BY <1>11, <1>p, <1>d DEF ForwardRecv
  <2>1. /\ runChan # <<>> /\ runChan' = Tail(runChan)
        /\ UNCHANGED <<batch, queue, verdict>>
        /\ held' = held \/ held' = <<Head(runChan)>>
    BY <1>11 DEF ForwardRecv
  <2>2. SaysOnly(runChan', verdict) /\ SaysOnly(<<Head(runChan)>>, verdict)
    BY <1>i, <1>t, <2>1, SaysOnlyFacts DEF VerdictInv
  <2> QED
    BY <1>i, <2>1, <2>2 DEF VerdictInv, Told
<1>12. CASE ForwardSend
  <2> SUFFICES ASSUME loop = "run"
               PROVE  Told'
    BY <1>12, <1>p, <1>d DEF ForwardSend
  <2>1. /\ queue' = queue \o hand /\ NoTerminals(hand)
        /\ UNCHANGED <<batch, runChan, held, verdict>>
    BY <1>i, <1>12 DEF ForwardSend, ChannelInv
  <2>2. SaysOnly(queue', verdict)
    BY <1>i, <1>t, <2>1, SaysOnlyFacts DEF VerdictInv
  <2> QED
    BY <1>i, <2>1, <2>2 DEF VerdictInv, Told
<1>13. CASE ForwardFails
  BY <1>13, <1>p, <1>d DEF ForwardFails, QueueDropped
<1>14. CASE ForwardEnd
  <2> SUFFICES ASSUME loop = "run"
               PROVE  Told'
    BY <1>14, <1>p, <1>d DEF ForwardEnd
  <2>1. /\ queue' = queue \o held \/ queue' = queue
        /\ held' = <<>> /\ UNCHANGED <<batch, runChan, verdict>>
    BY <1>14 DEF ForwardEnd
  <2>2. SaysOnly(queue, verdict) /\ SaysOnly(held, verdict)
    BY <1>i DEF VerdictInv
  <2>3. SaysOnly(queue \o held, verdict)
    BY <1>t, <2>2, SaysOnlyFacts
  <2>4. SaysOnly(queue', verdict)
    BY <2>1, <2>2, <2>3
  <2> QED
    BY <1>i, <1>e, <2>1, <2>4 DEF VerdictInv, Told
<1>15. ASSUME NEW key \in Keys, PressKey(key)
       PROVE  VerdictInv'
  <2> SUFFICES ASSUME loop = "run"
               PROVE  Told'
    BY <1>15, <1>p, <1>d DEF PressKey
  <2> DEFINE e == [kind |-> key, run |-> 0, seq |-> 0]
  <2>1. e \in Event /\ ~IsTerminal(e)
    BY DEF Event, Kinds, Keys, IsTerminal, Terminal
  <2>2. queue' = Append(queue, e) /\ UNCHANGED <<batch, runChan, held, verdict>>
    BY <1>15 DEF PressKey
  <2> HIDE DEF e
  <2>3. queue' = queue \o <<e>> /\ SaysOnly(<<e>>, verdict) /\ <<e>> \in Seq(Event)
    BY <1>t, <2>1, <2>2, AppendedEvent, SaysOnlyFacts, SaysOnlyOne
  <2>4. SaysOnly(queue', verdict)
    BY <1>i, <1>t, <2>3, SaysOnlyFacts DEF VerdictInv
  <2> QED
    BY <1>i, <2>2, <2>4 DEF VerdictInv, Told
<1>16. CASE Drain
  <2> DEFINE k == IF Len(queue) < BatchCap THEN Len(queue) ELSE BatchCap
  <2>1. k \in 1..Len(queue) /\ loop = "run"
    BY <1>16, <1>t, CapacityAssumption DEF Drain
  <2>2. /\ batch' = SubSeq(queue, 1, k) /\ queue' = SubSeq(queue, k + 1, Len(queue))
        /\ UNCHANGED <<runChan, held, verdict>>
    BY <1>16 DEF Drain
  <2> HIDE DEF k
  <2>3. SaysOnly(batch', verdict) /\ SaysOnly(queue', verdict)
    BY <1>i, <1>t, <2>1, <2>2, SaysOnlyFacts DEF VerdictInv
  <2>4. Told'
    BY <1>i, <2>1, <2>2, <2>3 DEF VerdictInv, Told
  <2> QED
    BY <1>16, <1>p, <1>d, <2>4 DEF Drain
<1>17. ASSUME NEW g \in 1..MaxGroups, BeginRun(g)
       PROVE  VerdictInv'
  <2>1. /\ batch # <<>> /\ batch' = Tail(batch) /\ queue' = queue /\ loop = "run" /\ ~running
        /\ runChan' = <<>> /\ held' = <<>> /\ verdict' = "none" /\ pc' = "announce"
    BY <1>17 DEF BeginRun, Handling
  <2>2. NoRunEvents(batch) /\ NoRunEvents(queue)
    BY <1>i, <2>1 DEF EndInv
  <2>3. NoTerminals(batch') /\ NoTerminals(queue')
    BY <1>t, <2>1, <2>2, TailKeeps, TerminalIsRunEvent
  <2>4. batch' \in Seq(Event)
    BY <1>t, <2>1, TailFacts
  <2>5. SaysOnly(batch', "none") /\ SaysOnly(queue', "none")
    BY <1>t, <2>1, <2>3, <2>4 DEF SaysOnly, NoTerminals
  <2>6. SaysOnly(<<>>, "none")
    BY EmptyFacts DEF SaysOnly
  <2> QED
    BY <1>d, <2>1, <2>5, <2>6 DEF Told
<1>18. CASE IgnoreRunRequest
  BY <1>18, <1>h, <1>p, <1>d DEF IgnoreRunRequest, Handling
<1>19. CASE StopRun
  BY <1>19, <1>h, <1>p, <1>d DEF StopRun, Handling
<1>20. CASE Quit \/ DrawFails \/ Exit
  BY <1>20, <1>f, <1>p, <1>d DEF Quit, DrawFails, Exit, leaveLoop
<1>21. CASE \E kind \in Progress : ApplyProgress(kind)
  BY <1>21, <1>h, <1>p, <1>d DEF ApplyProgress, Handling
<1>22. CASE \E kind \in Terminal : ApplyTerminal(kind)
  BY <1>22, <1>h, <1>p, <1>d DEF ApplyTerminal, Handling
<1>23. CASE Resting \/ UNCHANGED vars
  BY <1>23, <1>f, <1>p, <1>d DEF Resting, vars
<1> QED
  BY <1>1, <1>2, <1>3, <1>4, <1>5, <1>6, <1>7, <1>8, <1>9, <1>10, <1>11, <1>12, <1>13, <1>14,
     <1>15, <1>16, <1>17, <1>18, <1>19, <1>20, <1>21, <1>22, <1>23
     DEF Next, Producer, Forward, Handle

LEMMA OrderNext == RInv /\ [Next]_vars => OrderInv'
<1> SUFFICES ASSUME RInv, [Next]_vars, loop' = "run"
             PROVE  Numbered(InFlight, seen, sent)'
  BY DEF OrderInv
<1>i. TypeOK /\ TaskInv /\ ChannelInv /\ EndInv /\ OrderInv
  BY DEF RInv, IInv
<1>t. /\ batch \in Seq(Event) /\ queue \in Seq(Event) /\ runChan \in Seq(Event)
      /\ hand \in Seq(Event) /\ held \in Seq(Event)
      /\ seen \in Nat /\ sent \in Nat /\ run \in Nat
  BY <1>i DEF TypeOK, UiTypes, PipeTypes, HistTypes
<1>q. /\ batch \o queue \in Seq(Event) /\ hand \o runChan \in Seq(Event)
      /\ InFlight \in Seq(Event)
      /\ InFlight = (batch \o queue) \o (hand \o runChan)
      /\ InFlight' = (batch' \o queue') \o (hand' \o runChan')
      /\ <<>> \in Seq(Event)
  BY <1>t, ConcatProperties, EmptyFacts DEF InFlight
<1>o. loop = "run" => Numbered(InFlight, seen, sent)
  BY <1>i DEF OrderInv
<1> HIDE DEF InFlight
<1> DEFINE u == batch \o queue
           v == hand \o runChan
<1>u. u \in Seq(Event) /\ v \in Seq(Event) /\ InFlight = u \o v
  BY <1>q
<1> HIDE DEF u, v
<1>f. (UNCHANGED <<loop, InFlight, seen, sent>>) => Numbered(InFlight, seen, sent)'
  BY <1>o
<1>s. ASSUME NEW kind \in Progress, Send(kind), ~SendersGone, forwarder # "off",
             UNCHANGED <<loop, batch, queue, hand, seen>>
      PROVE  Numbered(InFlight, seen, sent)'
  <2> DEFINE e == [kind |-> kind, run |-> run, seq |-> sent + 1]
  <2>1. loop = "run" /\ forwarder = "on"
    BY <1>i, <1>s DEF EndInv, TypeOK, PipeTypes
  <2>2. runChan' = Append(runChan, e) /\ sent' = sent + 1
    BY <1>s, <2>1 DEF Send
  <2>3. e \in Event /\ IsProgress(e) /\ e.seq = sent + 1
    BY <1>t DEF Event, Kinds, IsProgress
  <2> HIDE DEF e
  <2>5. <<e>> \in Seq(Event) /\ Append(InFlight, e) = InFlight \o <<e>>
    BY <1>q, <2>3, AppendedEvent
  <2>7. hand \o Append(runChan, e) = v \o <<e>>
    BY <1>t, <2>3, ConcatAppend DEF v
  <2>8. u \o (v \o <<e>>) = (u \o v) \o <<e>>
    BY <1>u, <2>5, Associates
  <2>9. InFlight' = u \o (hand \o Append(runChan, e))
    BY <1>q, <1>s, <2>2 DEF u
  <2>4. InFlight' = Append(InFlight, e)
    BY <1>u, <2>5, <2>7, <2>8, <2>9
  <2>6. Numbered(Append(InFlight, e), seen, sent + 1)
    BY <1>o, <1>q, <1>t, <2>1, <2>3, AppendNumbered
  <2> QED
    BY <1>s, <2>2, <2>4, <2>6
<1>v. ASSUME NEW kind \in Terminal, SendTerminal(kind), UNCHANGED <<loop, batch, queue, hand, seen>>
      PROVE  Numbered(InFlight, seen, sent)'
  <2> DEFINE e == [kind |-> kind, run |-> run, seq |-> 0]
  <2>1. CASE runChan' = runChan
    BY <1>v, <1>f, <1>q, <2>1 DEF SendTerminal
  <2>2. CASE runChan' = Append(runChan, e)
    <3>1. e \in Event /\ ~IsProgress(e)
      BY <1>t DEF Event, Kinds, IsProgress, Progress, Terminal
    <3> HIDE DEF e
    <3>5. hand \o Append(runChan, e) = v \o <<e>> /\ <<e>> \in Seq(Event)
      BY <1>t, <3>1, ConcatAppend DEF v
    <3>7. u \o (v \o <<e>>) = (u \o v) \o <<e>> /\ <<e>> \o <<>> = <<e>>
      BY <1>u, <3>5, Associates, ConcatEmptySeq
    <3>8. InFlight' = u \o (hand \o Append(runChan, e))
      BY <1>q, <1>v, <2>2 DEF u
    <3>2. InFlight' = InFlight \o (<<e>> \o <<>>)
      BY <1>u, <3>5, <3>7, <3>8
    <3>3. InFlight \o <<>> = InFlight
      BY <1>q, ConcatEmptySeq
    <3>6. Numbered(InFlight \o <<>>, seen, sent) <=> Numbered(InFlight \o (<<e>> \o <<>>), seen, sent)
      BY <1>q, <1>t, <3>1, InsertNumbered
    <3>4. Numbered(InFlight \o (<<e>> \o <<>>), seen, sent)
      BY <1>o, <1>v, <3>3, <3>6
    <3> QED
      BY <1>v, <3>2, <3>4 DEF SendTerminal
  <2> QED
    BY <1>v, <2>1, <2>2 DEF SendTerminal
<1>b. ASSUME batch # <<>>, batch' = Tail(batch), UNCHANGED <<queue, hand, runChan>>
      PROVE  InFlight # <<>> /\ Head(InFlight) = Head(batch) /\ InFlight' = Tail(InFlight)
  <2>1. u # <<>> /\ Head(u) = Head(batch) /\ Tail(u) = Tail(batch) \o queue
    BY <1>b, <1>t, ConcatHead DEF u
  <2>2. u \o v # <<>> /\ Head(u \o v) = Head(u) /\ Tail(u \o v) = Tail(u) \o v
    BY <1>u, <2>1, ConcatHead
  <2>3. InFlight' = (Tail(batch) \o queue) \o v
    BY <1>b, <1>q DEF v
  <2> QED
    BY <1>u, <2>1, <2>2, <2>3
<1>h. ASSUME batch # <<>>, batch' = Tail(batch), ~IsProgress(Head(batch)),
             UNCHANGED <<loop, queue, hand, runChan, seen, sent>>
      PROVE  Numbered(InFlight, seen, sent)'
  <2> DEFINE e == Head(batch)
             f == Tail(InFlight)
  <2>0. /\ InFlight # <<>> /\ Head(InFlight) = e
        /\ InFlight' = f
    BY <1>h, <1>b
  <2>7. InFlight = <<e>> \o f /\ f \in Seq(Event)
    <3>1. \A w \in Seq(Event) : w # <<>> => w = <<Head(w)>> \o Tail(w) /\ Tail(w) \in Seq(Event)
      OBVIOUS
    <3> QED
      BY <1>q, <2>0, <3>1
  <2>8. <<e>> \o f = <<>> \o (<<e>> \o f) /\ f = <<>> \o f
    BY <1>q, <2>7, ConcatEmptySeq
  <2>1. /\ InFlight = <<>> \o (<<e>> \o f) /\ f = <<>> \o f /\ f \in Seq(Event)
        /\ InFlight' = f
    BY <2>0, <2>7, <2>8
  <2>2. e \in Event
    BY <1>h, <1>t, TailFacts
  <2>3. ~IsProgress(e) /\ loop = "run"
    BY <1>h
  <2> HIDE DEF e, f
  <2>5. Numbered(<<>> \o f, seen, sent) <=> Numbered(<<>> \o (<<e>> \o f), seen, sent)
    BY <1>q, <1>t, <2>1, <2>2, <2>3, InsertNumbered
  <2>4. Numbered(<<>> \o f, seen, sent)
    BY <1>o, <2>1, <2>3, <2>5
  <2> QED
    BY <1>h, <2>1, <2>4
<1> USE DEF uiVars, procVars, readVars, pipeVars, histVars, producerOnly, readerOnly,
            forwarderOnly
<1>1. CASE Announce
  <2>1. CASE groups > 1
    BY <1>1, <1>i, <1>s, <2>1 DEF Announce, Progress, SendersGone, TaskInv
  <2>2. CASE ~(groups > 1)
    BY <1>1, <1>f, <1>q, <2>2 DEF Announce
  <2> QED
    BY <2>1, <2>2
<1>2. CASE Spawn \/ ChildWaited \/ ReceiveStop \/ GraceExpires
  BY <1>2, <1>f, <1>q DEF Spawn, ChildWaited, ReceiveStop, GraceExpires
<1>3. CASE Terminate
  BY <1>3, <1>i, <1>s DEF Terminate, Progress, SendersGone, TaskInv
<1>4. CASE ForceKill
  BY <1>4, <1>i, <1>s DEF ForceKill, Progress, SendersGone, TaskInv
<1>5. CASE ReportError
  BY <1>5, <1>i, <1>s DEF ReportError, Progress, SendersGone, TaskInv
<1>6. CASE JoinStdout \/ JoinStderr \/ WaitError
  BY <1>6, <1>f, <1>q DEF JoinStdout, JoinStderr, WaitError
<1>7. CASE Finish
  <2>1. PICK kind \in Terminal : SendTerminal(kind)
    BY <1>7, <1>i DEF Finish, Terminal, TypeOK, ProcTypes
  <2> QED
    BY <1>7, <1>v, <2>1 DEF Finish
<1>8. CASE GiveUp
  BY <1>8, <1>v DEF GiveUp, Terminal
<1>9. CASE ChildExits \/ ChildKilled \/ TestsExit \/ EndStdout \/ EndStderr \/ ReaderFails
  BY <1>9, <1>f, <1>q DEF ChildExits, ChildKilled, TestsExit, EndStdout, EndStderr, ReaderFails
<1>10. CASE (\E kind \in Progress : ReadStdout(kind)) \/ ReadStderr
  BY <1>10, <1>i, <1>s DEF ReadStdout, ReadStderr, Progress, SendersGone, TaskInv
<1>11. CASE ForwardRecv
  <2> DEFINE e == Head(runChan)
             t == Tail(runChan)
  <2>1. /\ runChan # <<>> /\ runChan' = t /\ hand = <<>>
        /\ hand' = <<e>> \/ (hand' = <<>> /\ IsTerminal(e))
        /\ UNCHANGED <<loop, batch, queue, seen, sent>>
    BY <1>11 DEF ForwardRecv, HoldsBack
  <2>2. e \in Event /\ t \in Seq(Event)
    BY <1>t, <2>1, TailFacts
  <2>6. runChan = <<e>> \o t /\ hand \o runChan = runChan
    BY <1>t, <2>1, ConcatEmptySeq
  <2>3. InFlight = (batch \o queue) \o (<<e>> \o t)
    BY <1>q, <2>6
  <2> HIDE DEF e, t
  <2>4. CASE hand' = <<e>>
    BY <1>f, <1>q, <2>1, <2>3, <2>4
  <2>5. CASE hand' = <<>> /\ IsTerminal(e)
    <3>1. ~IsProgress(e)
      BY <2>5 DEF IsTerminal, IsProgress, Terminal, Progress
    <3>4. Numbered((batch \o queue) \o t, seen, sent)
            <=> Numbered((batch \o queue) \o (<<e>> \o t), seen, sent)
      BY <1>q, <1>t, <2>2, <3>1, InsertNumbered
    <3>2. Numbered((batch \o queue) \o t, seen, sent)
      <4>0. loop = "run"
        BY <2>1
      <4>1. Numbered(InFlight, seen, sent)
        BY <1>o, <4>0, Zenon
      <4>2. Numbered((batch \o queue) \o (<<e>> \o t), seen, sent)
        BY ONLY <2>3, <4>1, Zenon
      <4> QED
        BY ONLY <3>4, <4>2, Zenon
    <3>3. InFlight' = (batch \o queue) \o t
      BY <1>q, <2>1, <2>2, <2>5, ConcatEmptySeq
    <3> QED
      BY <2>1, <3>2, <3>3
  <2> QED
    BY <2>1, <2>4, <2>5, Zenon
<1>12. CASE ForwardSend
  <2>1. /\ queue' = queue \o hand /\ hand' = <<>> /\ hand # <<>>
        /\ UNCHANGED <<loop, batch, runChan, seen, sent>>
    BY <1>12 DEF ForwardSend
  <2>4. batch \o (queue \o hand) = u \o hand
    <3>1. batch \in Seq(Event) /\ queue \in Seq(Event) /\ hand \in Seq(Event)
      BY <1>t
    <3>2. batch \o (queue \o hand) = (batch \o queue) \o hand
      BY ONLY <3>1, Associates
    <3> QED
      BY <3>2 DEF u
  <2>5. (u \o hand) \o runChan = u \o v
    <3>0. u \in Seq(Event) /\ hand \in Seq(Event) /\ runChan \in Seq(Event)
      BY <1>t, <1>u
    <3>1. (u \o hand) \o runChan = u \o (hand \o runChan)
      BY <3>0, Associates
    <3> QED
      BY <3>1 DEF v
  <2>7. <<>> \o runChan = runChan
    BY <1>t, ConcatEmptySeq
  <2>6. InFlight' = (batch \o (queue \o hand)) \o runChan
    BY <1>q, <2>1, <2>7
  <2>3. InFlight' = InFlight
    BY <1>u, <2>4, <2>5, <2>6
  <2> QED
    BY <1>f, <2>1, <2>3
<1>13. CASE ForwardFails
  BY <1>13 DEF ForwardFails, QueueDropped
<1>14. CASE ForwardEnd
  <2>1. /\ hand = <<>> /\ runChan = <<>> /\ loop = "run"
        /\ UNCHANGED <<loop, batch, hand, runChan, seen, sent>>
        /\ queue' = IF held # <<>> THEN queue \o held ELSE queue
    BY <1>14 DEF ForwardEnd, QueueDropped
  <2>2. CASE held = <<>>
    BY <1>f, <1>q, <2>1, <2>2
  <2>3. CASE held # <<>>
    <3> DEFINE e == held[1]
    <3>1. held = <<e>> /\ e \in Event /\ IsTerminal(e)
      <4>1. Len(held) \in Nat /\ Len(held) <= 1 /\ Len(held) # 0
        BY <1>i, <1>t, <2>3 DEF TypeOK, PipeTypes
      <4>a. \A n \in Nat : n <= 1 /\ n # 0 => n = 1 /\ 1 \in 1..n
        OBVIOUS
      <4>2. Len(held) = 1 /\ 1 \in 1..Len(held)
        BY <4>1, <4>a
      <4>4. e \in Event
        BY <1>t, <4>2, ElementOfSeq
      <4>3. e \in Event /\ IsTerminal(e)
        BY <1>i, <4>2, <4>4 DEF ChannelInv
      <4> QED
        BY <1>t, <4>2, <4>3
    <3>2. ~IsProgress(e)
      BY <3>1 DEF IsTerminal, IsProgress, Terminal, Progress
    <3> HIDE DEF e
    <3>3. <<e>> \in Seq(Event) /\ <<e>> \o <<>> = <<e>> /\ <<>> \o <<>> = <<>>
      BY <3>1, AppendedEvent, ConcatEmptySeq
    <3>4. InFlight' = (batch \o queue) \o (<<e>> \o <<>>)
      <4>1. queue' = queue \o <<e>> /\ queue' \in Seq(Event)
        BY <1>t, <2>1, <2>3, <3>1, <3>3, ConcatProperties
      <4>2. batch \o (queue \o <<e>>) = (batch \o queue) \o <<e>>
        BY <1>t, <3>3, Associates
      <4>3. batch \o queue' \in Seq(Event)
        BY <1>t, <4>1, ConcatProperties
      <4>4. InFlight' = (batch \o queue') \o (<<>> \o <<>>)
        BY <1>q, <2>1
      <4>5. (batch \o queue') \o <<>> = batch \o queue'
        BY <4>3, ConcatEmptySeq
      <4> QED
        BY <3>3, <4>1, <4>2, <4>4, <4>5
    <3>5. InFlight = (batch \o queue) \o <<>>
      BY <1>q, <2>1, <3>3
    <3>7. Numbered((batch \o queue) \o <<>>, seen, sent)
            <=> Numbered((batch \o queue) \o (<<e>> \o <<>>), seen, sent)
      BY <1>q, <1>t, <3>1, <3>2, InsertNumbered
    <3>6. Numbered((batch \o queue) \o (<<e>> \o <<>>), seen, sent)
      BY <1>o, <2>1, <3>5, <3>7
    <3> QED
      BY <2>1, <3>4, <3>6
  <2> QED
    BY <2>2, <2>3
<1>15. ASSUME NEW key \in Keys, PressKey(key)
       PROVE  Numbered(InFlight, seen, sent)'
  <2> DEFINE e == [kind |-> key, run |-> 0, seq |-> 0]
  <2>1. e \in Event /\ ~IsProgress(e)
    BY DEF Event, Kinds, Keys, IsProgress, Progress
  <2>2. queue' = Append(queue, e) /\ UNCHANGED <<loop, batch, hand, runChan, seen, sent>>
    BY <1>15 DEF PressKey
  <2> HIDE DEF e
  <2>5. batch \o Append(queue, e) = u \o <<e>> /\ <<e>> \in Seq(Event)
    BY <1>t, <2>1, ConcatAppend DEF u
  <2>7. (u \o <<e>>) \o v = u \o (<<e>> \o v)
    BY <1>u, <2>5, Associates
  <2>8. InFlight' = (batch \o Append(queue, e)) \o v
    BY <1>q, <2>2 DEF v
  <2>3. InFlight' = u \o (<<e>> \o v)
    BY <2>5, <2>7, <2>8
  <2>6. Numbered(u \o v, seen, sent) <=> Numbered(u \o (<<e>> \o v), seen, sent)
    BY <1>u, <1>t, <2>1, InsertNumbered
  <2>4. Numbered(u \o (<<e>> \o v), seen, sent)
    BY <1>o, <1>u, <2>2, <2>6
  <2> QED
    BY <2>2, <2>3, <2>4
<1>16. CASE Drain
  <2> DEFINE k == IF Len(queue) < BatchCap THEN Len(queue) ELSE BatchCap
  <2>1. k \in 1..Len(queue)
    BY <1>16, <1>t, CapacityAssumption DEF Drain
  <2>2. /\ batch' = SubSeq(queue, 1, k) /\ queue' = SubSeq(queue, k + 1, Len(queue))
        /\ batch = <<>> /\ UNCHANGED <<loop, hand, runChan, seen, sent>>
    BY <1>16 DEF Drain
  <2> HIDE DEF k
  <2>4. (SubSeq(queue, 1, k) \o SubSeq(queue, k + 1, Len(queue))) \o (hand \o runChan)
          = (<<>> \o queue) \o (hand \o runChan)
    BY <1>q, <1>t, <2>1, FlightDrained
  <2>3. InFlight' = InFlight
    BY <1>q, <2>2, <2>4
  <2> QED
    BY <1>f, <2>2, <2>3
<1>17. ASSUME NEW g \in 1..MaxGroups, BeginRun(g)
       PROVE  Numbered(InFlight, seen, sent)'
  <2>1. /\ batch # <<>> /\ batch' = Tail(batch) /\ queue' = queue /\ loop = "run" /\ ~running
        /\ runChan' = <<>> /\ hand' = <<>> /\ seen' = 0 /\ sent' = 0
    BY <1>17 DEF BeginRun, Handling
  <2>2. batch' \in Seq(Event) /\ NoRunEvents(batch') /\ NoRunEvents(queue)
    BY <1>i, <1>t, <2>1, TailKeeps, TailFacts DEF EndInv
  <2>3. /\ batch' \o queue \in Seq(Event) /\ NoRunEvents(batch' \o queue)
    BY <1>t, <2>2, ConcatKeeps, ConcatProperties
  <2>4. InFlight' = batch' \o queue
    BY <1>q, <2>1, <2>3, ConcatEmptySeq
  <2> QED
    BY <2>1, <2>3, <2>4, NoneNumbered
<1>18. CASE IgnoreRunRequest
  BY <1>18, <1>h DEF IgnoreRunRequest, Handling, IsProgress, Progress
<1>19. CASE StopRun
  BY <1>19, <1>h DEF StopRun, Handling, IsProgress, Progress
<1>20. CASE Quit \/ DrawFails \/ Exit
  BY <1>20 DEF Quit, DrawFails, Exit, leaveLoop
<1>21. ASSUME NEW kind \in Progress, ApplyProgress(kind)
       PROVE  Numbered(InFlight, seen, sent)'
  <2>1. /\ batch # <<>> /\ batch' = Tail(batch) /\ IsProgress(Head(batch)) /\ loop = "run"
        /\ seen' = Head(batch).seq
        /\ UNCHANGED <<queue, hand, runChan, sent>>
    BY <1>21 DEF ApplyProgress, Handling, IsProgress
  <2>2. /\ InFlight \in Seq(Event) /\ InFlight # <<>> /\ Head(InFlight) = Head(batch)
        /\ InFlight' = Tail(InFlight)
    BY <1>b, <1>q, <2>1
  <2>3. Head(InFlight).seq = seen + 1 /\ Numbered(Tail(InFlight), seen + 1, sent)
    BY <1>o, <1>t, <2>1, <2>2, HeadNumbered
  <2> QED
    BY <2>1, <2>2, <2>3
<1>22. CASE \E kind \in Terminal : ApplyTerminal(kind)
  BY <1>22, <1>h DEF ApplyTerminal, Handling, IsProgress, Progress, Terminal
<1>23. CASE Resting \/ UNCHANGED vars
  BY <1>23, <1>f, <1>q DEF Resting, vars
<1> QED
  BY <1>1, <1>2, <1>3, <1>4, <1>5, <1>6, <1>7, <1>8, <1>9, <1>10, <1>11, <1>12, <1>13, <1>14,
     <1>15, <1>16, <1>17, <1>18, <1>19, <1>20, <1>21, <1>22, <1>23
     DEF Next, Producer, Forward, Handle

LEMMA RInvInit == Init => RInv
<1> SUFFICES ASSUME Init
             PROVE  RInv
  OBVIOUS
<1>1. IInv
  BY InitInv
<1>2. ActiveInv /\ AskedInv
  BY DEF Init, ActiveInv, AskedInv
<1>3. VerdictInv
  BY EmptyFacts DEF Init, VerdictInv, SaysOnly
<1>4. OrderInv
  <2>1. InFlight = <<>>
    BY EmptyFacts, ConcatEmptySeq DEF Init, InFlight
  <2>2. seen = 0 /\ sent = 0
    BY DEF Init
  <2>3. <<>> \in Seq(Event) /\ NoRunEvents(<<>>)
    BY EmptyFacts, EmptyKeeps
  <2>4. Numbered(<<>>, 0, 0)
    BY <2>3, NoneNumbered
  <2> QED
    BY <2>1, <2>2, <2>4 DEF OrderInv
<1> QED
  BY <1>1, <1>2, <1>3, <1>4 DEF RInv

(* The invariant with which the steps of the tasks are those of a run.     *)
THEOREM RunInvariance == Spec => []RInv
<1>1. Init => RInv
  BY RInvInit
<1>2. RInv /\ [Next]_vars => RInv'
  <2>1. RInv /\ [Next]_vars => IInv'
    BY TypeNext, TaskNext, ChannelNext, EndNext DEF RInv, IInv
  <2> QED
    BY <2>1, ActiveNext, AskedNext, VerdictNext, OrderNext DEF RInv
<1> QED
  BY <1>1, <1>2, PTL DEF Spec

-----------------------------------------------------------------------------
(* The steps of the tasks as steps of a run.                               *)

(* When a terminal event is handled, all that was sent has been shown.     *)
LEMMA TerminalShowsAll ==
  ASSUME RInv, NEW kind \in Terminal, Handling(kind)
  PROVE  seen = sent /\ running /\ verdict = kind
<1>i. TypeOK /\ TaskInv /\ ChannelInv /\ EndInv /\ OrderInv /\ VerdictInv
  BY DEF RInv, IInv
<1>t. /\ batch \in Seq(Event) /\ queue \in Seq(Event) /\ runChan \in Seq(Event)
      /\ hand \in Seq(Event) /\ seen \in Nat /\ sent \in Nat
  BY <1>i DEF TypeOK, UiTypes, PipeTypes, HistTypes
<1>1. /\ batch # <<>> /\ IsTerminal(Head(batch)) /\ loop = "run" /\ Head(batch).kind = kind
  BY DEF Handling, IsTerminal
<1>2. ~NoTerminals(batch) /\ ~NoRunEvents(batch)
  BY <1>t, <1>1, TailKeeps, TerminalIsRunEvent
<1>3. forwarder # "on" /\ NoRunEvents(queue) /\ NoRunEvents(Tail(batch)) /\ running
  BY <1>i, <1>t, <1>1, <1>2, TailKeeps DEF EndInv
<1>4. verdict = kind
  BY <1>i, <1>t, <1>1, SaysOnlyFacts DEF VerdictInv
<1> DEFINE e == Head(batch)
           r == Tail(batch) \o queue
<1>5. /\ Tail(batch) \in Seq(Event) /\ e \in Event /\ ~IsProgress(e)
  BY <1>t, <1>1, TailFacts DEF IsTerminal, IsProgress, Terminal, Progress
<1>6. r \in Seq(Event) /\ NoRunEvents(r)
  BY <1>t, <1>3, <1>5, ConcatKeeps, ConcatProperties
<1>7. InFlight = batch \o queue
  BY <1>i, <1>t, <1>3, ConcatEmptySeq, ConcatProperties, EmptyFacts DEF InFlight, ChannelInv
<1>8. /\ batch \o queue \in Seq(Event) /\ batch \o queue # <<>>
      /\ Head(batch \o queue) = e /\ Tail(batch \o queue) = r
  BY <1>t, <1>1, ConcatHead
<1> HIDE DEF e, r
<1>9. batch \o queue = <<e>> \o r
  <2>1. \A w \in Seq(Event) : w # <<>> => w = <<Head(w)>> \o Tail(w)
    OBVIOUS
  <2> QED
    BY <1>8, <2>1
<1>10. <<>> \o r = r /\ <<e>> \o r \in Seq(Event) /\ <<>> \o (<<e>> \o r) = <<e>> \o r
  BY <1>6, <1>8, <1>9, ConcatEmptySeq
<1>11. Numbered(<<e>> \o r, seen, sent)
  BY <1>i, <1>1, <1>7, <1>9 DEF OrderInv
<1>12. Numbered(<<>> \o r, seen, sent) <=> Numbered(<<>> \o (<<e>> \o r), seen, sent)
  BY <1>t, <1>5, <1>6, EmptyFacts, InsertNumbered
<1>13. Numbered(r, seen, sent)
  BY <1>10, <1>11, <1>12
<1> QED
  BY <1>t, <1>3, <1>4, <1>6, <1>13, NoneNumbered

LEMMA StepRefines == RInv /\ [Next]_vars => [Lifecycle!Next]_Lifecycle!vars
<1> SUFFICES ASSUME RInv, [Next]_vars
             PROVE  [Lifecycle!Next]_Lifecycle!vars
  OBVIOUS
<1>i. /\ TypeOK /\ TaskInv /\ ChannelInv /\ EndInv
      /\ ActiveInv /\ AskedInv /\ VerdictInv /\ OrderInv
  BY DEF RInv, IInv
<1> DEFINE closed == loop # "run"
<1>u. UNCHANGED <<run, running, asked, sent, seen, verdict, outcome>> /\ closed' = closed
        => [Lifecycle!Next]_Lifecycle!vars
  BY DEF Lifecycle!vars
(* Whoever sends makes the run emit.                                       *)
<1>s. ASSUME NEW kind \in Progress, Send(kind), running, UNCHANGED loop,
             UNCHANGED <<run, running, asked, seen, verdict, outcome>>
      PROVE  [Lifecycle!Next]_Lifecycle!vars
  BY <1>s DEF Send, Lifecycle!Next, Lifecycle!Emit
<1>v. ASSUME NEW kind \in Terminal, SendTerminal(kind), running, verdict = "none",
             kind = "stopped" => asked, UNCHANGED loop,
             UNCHANGED <<run, running, asked, seen, outcome>>
      PROVE  [Lifecycle!Next]_Lifecycle!vars
  <2>1. Lifecycle!Decide(kind) /\ kind \in Lifecycle!Verdicts
    BY <1>v DEF SendTerminal, Lifecycle!Decide, Lifecycle!Verdicts, Terminal
  <2> QED
    BY <2>1 DEF Lifecycle!Next
(* The one whom only a run in progress lets be asked to stop.              *)
<1>a. ASSUME RequestStop, running, UNCHANGED loop,
             UNCHANGED <<run, running, sent, seen, verdict, outcome>>
      PROVE  [Lifecycle!Next]_Lifecycle!vars
  <2>1. CASE asked' = TRUE
    BY <1>a, <2>1 DEF Lifecycle!Next, Lifecycle!AskStop
  <2>2. CASE asked' = asked
    BY <1>a, <1>u, <2>2
  <2> QED
    BY <1>a, <2>1, <2>2 DEF RequestStop
<1>c. ASSUME leaveLoop, loop = "run"
      PROVE  [Lifecycle!Next]_Lifecycle!vars
  <2>1. asked' \in {asked, running}
    <3>1. CASE control = "armed" /\ StopReceiverAlive
      <4>1. running = TRUE
        BY <1>i, <3>1 DEF ActiveInv, StopReceiverAlive, TypeOK, UiTypes
      <4> QED
        BY <1>c, <3>1, <4>1 DEF leaveLoop, RequestStop
    <3>2. CASE ~(control = "armed" /\ StopReceiverAlive)
      BY <1>c, <3>2 DEF leaveLoop, RequestStop
    <3> QED
      BY <3>1, <3>2
  <2> QED
    BY <1>c, <2>1 DEF leaveLoop, Lifecycle!Next, Lifecycle!Close
<1> USE DEF uiVars, procVars, readVars, pipeVars, histVars, producerOnly, readerOnly,
            forwarderOnly
<1>1. CASE Announce
  <2>1. CASE groups > 1
    BY <1>1, <1>i, <1>s, <2>1 DEF Announce, Progress, ActiveInv
  <2>2. CASE ~(groups > 1)
    BY <1>1, <1>u, <2>2 DEF Announce
  <2> QED
    BY <2>1, <2>2
<1>2. CASE Spawn \/ ChildWaited \/ ReceiveStop \/ GraceExpires
  BY <1>2, <1>u DEF Spawn, ChildWaited, ReceiveStop, GraceExpires
<1>3. CASE Terminate
  BY <1>3, <1>i, <1>s DEF Terminate, Progress, ActiveInv
<1>4. CASE ForceKill
  BY <1>4, <1>i, <1>s DEF ForceKill, Progress, ActiveInv
<1>5. CASE ReportError
  BY <1>5, <1>i, <1>s DEF ReportError, Progress, ActiveInv
<1>6. CASE JoinStdout \/ JoinStderr \/ WaitError
  BY <1>6, <1>u DEF JoinStdout, JoinStderr, WaitError
<1>7. CASE Finish
  <2> DEFINE kind == IF pc = "sendStopped" THEN "stopped" ELSE exitCode
  <2>1. /\ SendTerminal(kind) /\ pc \in {"sendFinished", "sendStopped"}
        /\ UNCHANGED <<loop, run, running, asked, seen, outcome>>
    BY <1>7 DEF Finish
  <2>2. kind \in Terminal /\ (kind = "stopped" => asked)
    BY <1>i, <2>1 DEF Terminal, TypeOK, ProcTypes, AskedInv
  <2>3. running /\ verdict = "none"
    BY <1>i, <2>1 DEF ActiveInv, VerdictInv
  <2> HIDE DEF kind
  <2> QED
    BY <1>v, <2>1, <2>2, <2>3
<1>8. CASE GiveUp
  <2>1. running /\ verdict = "none"
    BY <1>i, <1>8 DEF GiveUp, ActiveInv, VerdictInv
  <2> QED
    BY <1>8, <1>v, <2>1 DEF GiveUp, Terminal
<1>9. CASE ChildExits \/ ChildKilled \/ TestsExit \/ EndStdout \/ EndStderr \/ ReaderFails
  BY <1>9, <1>u DEF ChildExits, ChildKilled, TestsExit, EndStdout, EndStderr, ReaderFails
<1>10. CASE (\E kind \in Progress : ReadStdout(kind)) \/ ReadStderr
  BY <1>10, <1>i, <1>s DEF ReadStdout, ReadStderr, Progress, ActiveInv
<1>11. CASE Forward
  BY <1>11, <1>u DEF Forward, ForwardRecv, ForwardSend, ForwardFails, ForwardEnd
<1>12. CASE (\E key \in Keys : PressKey(key)) \/ Drain
  BY <1>12, <1>u DEF PressKey, Drain
<1>13. CASE \E g \in 1..MaxGroups : BeginRun(g)
  BY <1>13 DEF BeginRun, Handling, Lifecycle!Next, Lifecycle!Begin
<1>14. CASE IgnoreRunRequest
  BY <1>14, <1>a DEF IgnoreRunRequest
<1>15. CASE StopRun
  BY <1>15, <1>a, <1>u DEF StopRun
<1>16. CASE Quit \/ DrawFails
  BY <1>16, <1>c DEF Quit, DrawFails
<1>17. CASE Exit
  BY <1>17, <1>u DEF Exit
<1>18. ASSUME NEW kind \in Progress, ApplyProgress(kind)
       PROVE  [Lifecycle!Next]_Lifecycle!vars
  <2>1. /\ batch # <<>> /\ IsProgress(Head(batch)) /\ loop = "run"
        /\ seen' = Head(batch).seq
        /\ UNCHANGED <<loop, run, running, asked, sent, verdict, outcome>>
    BY <1>18 DEF ApplyProgress, Handling, IsProgress
  <2>2. /\ batch \in Seq(Event) /\ queue \in Seq(Event) /\ runChan \in Seq(Event)
        /\ hand \in Seq(Event) /\ seen \in Nat /\ sent \in Nat
    BY <1>i DEF TypeOK, UiTypes, PipeTypes, HistTypes
  <2>3. InFlight \in Seq(Event) /\ InFlight # <<>> /\ Head(InFlight) = Head(batch)
    <3> DEFINE u == batch \o queue
               v == hand \o runChan
    <3>1. u \in Seq(Event) /\ v \in Seq(Event) /\ u # <<>> /\ Head(u) = Head(batch)
      BY <2>1, <2>2, ConcatHead, ConcatProperties
    <3>2. InFlight = u \o v
      BY DEF InFlight
    <3> HIDE DEF u, v
    <3> QED
      BY <3>1, <3>2, ConcatHead
  <2>4. Head(InFlight).seq = seen + 1 /\ seen < sent
    BY <1>i, <2>1, <2>2, <2>3, HeadNumbered DEF OrderInv
  <2>5. running
    <3>1. IsRunEvent(Head(batch))
      BY <2>1 DEF IsProgress, IsRunEvent, Progress, Keys
    <3>2. ~NoRunEvents(batch)
      BY <2>1, <2>2, <3>1, TailKeeps
    <3> QED
      BY <1>i, <2>1, <3>2 DEF EndInv
  <2> QED
    BY <2>1, <2>3, <2>4, <2>5 DEF Lifecycle!Next, Lifecycle!Show
<1>19. ASSUME NEW kind \in Terminal, ApplyTerminal(kind)
       PROVE  [Lifecycle!Next]_Lifecycle!vars
  <2>1. seen = sent /\ running /\ verdict = kind
    BY <1>19, TerminalShowsAll DEF ApplyTerminal
  <2> DEFINE o == RunOutcome(kind, failed)
  <2>2. /\ o \in Lifecycle!Outcomes
        /\ o = "Stopped" <=> kind = "stopped"
        /\ o = "Passed" => kind = "zero"
    BY DEF RunOutcome, Lifecycle!Outcomes, Terminal
  <2>3. /\ outcome' = o /\ running' = FALSE /\ loop = "run"
        /\ UNCHANGED <<loop, run, asked, sent, seen, verdict>>
    BY <1>19 DEF ApplyTerminal, Handling
  <2> HIDE DEF o
  <2>4. Lifecycle!Conclude(o)
    BY <2>1, <2>2, <2>3 DEF Lifecycle!Conclude, Terminal
  <2> QED
    BY <2>2, <2>4 DEF Lifecycle!Next
<1>20. CASE Resting \/ UNCHANGED vars
  BY <1>20, <1>u DEF Resting, vars
<1> QED
  BY <1>1, <1>2, <1>3, <1>4, <1>5, <1>6, <1>7, <1>8, <1>9, <1>10, <1>11, <1>12, <1>13, <1>14,
     <1>15, <1>16, <1>17, <1>18, <1>19, <1>20
     DEF Next, Producer, Handle

(* What the tasks do to a run is what RunLifecycle allows: its events are  *)
(* shown one by one in the order they were emitted, it is decided once,    *)
(* "stopped" only when that was asked for, and concluded when all of its   *)
(* events have been shown.                                                 *)
THEOREM Refinement == Spec => ImplementsLifecycle
<1>1. Init => Lifecycle!Init
  BY DEF Init, Lifecycle!Init
<1>2. RInv /\ [Next]_vars => [Lifecycle!Next]_Lifecycle!vars
  BY StepRefines
<1> QED
  BY <1>1, <1>2, RunInvariance, PTL DEF Spec, ImplementsLifecycle, Lifecycle!Spec
=============================================================================
