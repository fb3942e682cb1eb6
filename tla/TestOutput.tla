------------------------------ MODULE TestOutput -----------------------------
(***************************************************************************)
(* The output that Nextdeck keeps of a test, and the text it keeps of a    *)
(* program: both are bounded in bytes, drop the oldest and say so.  A text *)
(* is a sequence of characters, some of which take two bytes.              *)
(* Source: output.rs.                                                      *)
(***************************************************************************)
EXTENDS Naturals, Sequences, SequencesExt, FiniteSetsExt

CONSTANTS
  Characters, Wide, \* the characters, and those of two bytes
  Newline,
  Limit,            \* OUTPUT_TEXT_LIMIT_BYTES
  Marker,           \* OUTPUT_TRUNCATED_MARKER
  Summary           \* "nextest: failed after ..."

Size(text) == Len(text) + Cardinality({i \in DOMAIN text : text[i] \in Wide})

ASSUME OutputAssumption ==
  /\ Newline \in Characters \ Wide /\ Wide \subseteq Characters /\ Limit \in Nat
  /\ Marker \in Seq(Characters) /\ Summary \in Seq(Characters)
  /\ Summary # <<>> /\ Head(Summary) # Newline /\ Last(Summary) # Newline
  /\ Size(Marker) + Size(Summary) + 2 <= Limit

From(text, k) == SubSeq(text, k + 1, Len(text))

(* The least cut of at least so many bytes that splits no character.       *)
CutAt(text, bytes) ==
  Min({k \in 0..Len(text) : k = Len(text) \/ Size(SubSeq(text, 1, k)) >= bytes})

-----------------------------------------------------------------------------
(* TestOutput; duration only goes into its labels.                         *)
NoOutput == [entries |-> <<>>, retained |-> 0, truncated |-> FALSE]
Entry(kind, text) == [kind |-> kind, text |-> text]

Budget == Limit - Size(Marker)

(* A round of the loop of enforce_retention: the first entry gives way.    *)
GiveWay(output, budget) ==
  IF output.retained <= budget THEN output
  ELSE IF output.entries = <<>> THEN [output EXCEPT !.retained = 0]
  ELSE
    LET text == Head(output.entries).text
        end == CutAt(text, output.retained - budget)
    IN [output EXCEPT
          !.retained = @ - Size(SubSeq(text, 1, end)),
          !.entries = IF end = Len(text) THEN Tail(@) ELSE [@ EXCEPT ![1].text = From(text, end)]]

(* A round that is not the last one takes an entry away.                   *)
TrimmedTo(output, budget) ==
  LET after[n \in 0..Len(output.entries) + 1] ==
        IF n = 0 THEN output ELSE GiveWay(after[n - 1], budget)
  IN after[Len(output.entries) + 1]

EnforceRetention_Anew(output) ==
  IF output.retained <= Limit THEN output
  ELSE TrimmedTo([output EXCEPT !.truncated = TRUE], Budget)

(* Once something was dropped there is room for the marker.                *)
EnforceRetention(output) ==
  IF ~output.truncated /\ output.retained <= Limit THEN output
  ELSE TrimmedTo([output EXCEPT !.truncated = TRUE], Budget)

EndsWithSummary(output) ==
  output.entries # <<>> /\ Last(output.entries).kind = "Summary"

(* stream_insert_index: what arrives late goes before nextest's summary,   *)
(* which gets its empty line if it was alone.                              *)
ForStream(output) ==
  IF EndsWithSummary(output) /\ Len(output.entries) = 1
     /\ Head(output.entries[1].text) # Newline
  THEN [output EXCEPT !.entries[1].text = <<Newline>> \o @, !.retained = @ + 1]
  ELSE output

StreamInsertIndex_AtEnd(output) == Len(output.entries)

StreamInsertIndex(output) == Len(output.entries) - IF EndsWithSummary(output) THEN 1 ELSE 0

StreamChunk(text) == IF Last(text) = Newline THEN text ELSE Append(text, Newline)

Inserted(output, entry) ==
  [output EXCEPT !.entries = InsertAt(@, StreamInsertIndex(output) + 1, entry),
                 !.retained = @ + Size(entry.text)]

(* append_text: a chunk is joined to the text before it.                   *)
AppendText(output, text) ==
  IF text = <<>> THEN output
  ELSE
    LET ready == ForStream(output)
        at == StreamInsertIndex(ready)
        chunk == StreamChunk(text)
    IN EnforceRetention(
         IF at > 0 /\ ready.entries[at].kind = "Text"
         THEN [ready EXCEPT !.entries[at].text = @ \o chunk, !.retained = @ + Size(chunk)]
         ELSE Inserted(ready, Entry("Text", chunk)))

AppendEvent(output, text) ==
  IF text = <<>> THEN output
  ELSE EnforceRetention(Inserted(ForStream(output), Entry("Event", StreamChunk(text))))

AppendNextestFailure(output) ==
  LET text == (IF output.entries # <<>> THEN <<Newline>> ELSE <<>>) \o StreamChunk(Summary)
  IN EnforceRetention([output EXCEPT !.entries = Append(@, Entry("Summary", text)),
                                     !.retained = @ + Size(text)])

(* stream_text, display_text.                                              *)
TextOf(entries) == FlattenSeq([i \in DOMAIN entries |-> entries[i].text])
StreamText(output) == (IF output.truncated THEN Marker ELSE <<>>) \o TextOf(output.entries)

-----------------------------------------------------------------------------
(* limit_text: the tail that fits behind the marker.                       *)
LimitText(text, limit) ==
  IF Size(text) <= limit THEN text
  ELSE LET marker == IF Size(Marker) < limit THEN Marker ELSE <<>>
       IN marker \o From(text, CutAt(text, Size(text) - (limit - Size(marker))))

AppendBoundedText(target, text) == LimitText(target \o text, Limit)

-----------------------------------------------------------------------------
(* The longest end of a text that takes no more than so many bytes.        *)
LongestTail(text, bytes) ==
  From(text, Min({k \in 0..Len(text) : Size(From(text, k)) <= bytes}))

(* What is kept of a text: all of it, or the marker and its longest tail.  *)
Kept(text) == IF Size(text) <= Limit THEN text ELSE Marker \o LongestTail(text, Budget)
=============================================================================
