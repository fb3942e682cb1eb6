----------------------------- MODULE OutputPane -----------------------------
(***************************************************************************)
(* The pane that shows the output of the selected test while the test is   *)
(* still printing: it wraps the lines to its width, follows the end or     *)
(* stays where the user scrolled, and searches.  The text it shows is read *)
(* again at every frame and at every command, so lines arrive, at its end  *)
(* or before the summary of a failure, are filtered and are dropped from   *)
(* the front between a position being read and being used.                 *)
(*                                                                         *)
(* Lines, cells and rows are counted from 0 as in the code; a sequence of  *)
(* rows is of course indexed from 1.                                       *)
(* Source: output_pane.rs, output_layout.rs, scroll.rs, output.rs, app.rs. *)
(***************************************************************************)
EXTENDS Scroll, Integers, FiniteSets, SequencesExt

CONSTANTS
  Absent,
  NoQuery,     \* the empty query
  Invalid,     \* a regular expression that does not compile
  Queries,     \* the others, each with its choice of regex and of case
  Live,        \* the lines the test prints
  Other,       \* the lines of the output of another test
  Failure,     \* "nextest: failed", the summary of a test that failed
  Report,      \* "Run passed", "Run failed", ..., the summary of a run
  Empty, Marker, NoMatch,  \* "No output captured", "output truncated", "No output lines match"
  Limit,       \* how many lines of output are kept, the marker included
  Pages, Widths  \* the heights and the widths of the pane

(* A line: its number, which tells it from the others, the count of its    *)
(* cells, those that are blank, and the ranges each query matches in it.   *)
Lines == ToSet(Live) \cup ToSet(Other) \cup {Failure, Report, Empty, Marker, NoMatch}

Increasing(text) == \A i, j \in DOMAIN text : i < j => text[i].no < text[j].no

ASSUME LinesAssumption ==
  /\ \A line \in Lines :
       /\ line.no \in Nat /\ line.len \in Nat /\ line.spaces \subseteq 0..line.len - 1
       /\ \A q \in Queries : \A hit \in line.hits[q] :
            hit \in Nat \X Nat /\ hit[1] < hit[2] /\ hit[2] <= line.len
  /\ \A l1, l2 \in Lines : l1.no = l2.no => l1 = l2
  /\ Live \in Seq(Lines) /\ Other \in Seq(Lines) /\ Other # <<>>
  /\ Increasing(Live \o <<Failure, Report>>) /\ Increasing(Append(Other, Report))
  /\ Increasing(<<Empty, Report>>)
  /\ {Empty, Marker, NoMatch} \cap (ToSet(Live) \cup ToSet(Other) \cup {Failure, Report}) = {}
  /\ NoMatch \notin {Empty, Marker} /\ Empty # Marker
  /\ Limit \in Nat \ {0, 1}
  /\ Pages \subseteq Nat \ {0}
  /\ Widths \subseteq Nat \ {0} /\ Widths # {} /\ IsFiniteSet(Widths)
  /\ Absent \notin Nat /\ Absent \notin [line : Nat, offset : Nat]
  /\ Absent \notin [line : Nat, start : Nat, end : Nat]
  /\ NoQuery # Invalid /\ NoQuery \notin Queries /\ Invalid \notin Queries

VARIABLES
  selected,    \* whose output is shown: "Live", or "Other"
  arrived,     \* how many lines the test has printed, whether it has failed, and
               \* whose summary is shown: none yet, the run's, or that of its command
  pane,        \* OutputPaneState
  drawn,       \* where the last frame began, unless the user moved since
  found        \* the match last found, unless the user gave it up

paneVars == <<selected, arrived, pane, drawn, found>>

-----------------------------------------------------------------------------
(* TestOutput: what is printed late goes before the summary of the failure *)
(* (the blank lines that set summaries apart are left out).                *)
Captured(a) == SubSeq(Live, 1, a.lines) \o (IF a.failed THEN <<Failure>> ELSE <<>>)

(* TestOutput::enforce_retention, by lines: the newest are kept.           *)
Retained(output) ==
  LET n == Len(output)
  IN CASE n = 0 -> <<Empty>>
       [] n \in 1..Limit -> output
       [] OTHER -> <<Marker>> \o SubSeq(output, n - Limit + 2, n)

(* output_with_run_summary; a command that failed is all there is to show. *)
WithSummary(text, summary) ==
  CASE summary = "None" -> text
    [] summary = "Run" -> Append(text, Report)
    [] summary = "Command" -> <<Report>>

SourceText ==
  WithSummary(IF selected = "Live" THEN Retained(Captured(arrived)) ELSE Other, arrived.summary)

Hits(line, query) == IF query \in Queries THEN line.hits[query] ELSE {}

MatchOccurrences(text, query) ==
  UNION {{[line |-> i - 1, start |-> hit[1], end |-> hit[2]] : hit \in Hits(text[i], query)}
         : i \in DOMAIN text}

(* By lines only.                                                          *)
Before_Lines(m1, m2) == m1.line < m2.line

Before(m1, m2) == \/ m1.line < m2.line
                  \/ m1.line = m2.line /\ m1.start < m2.start

First(matches) == CHOOSE m \in matches : \A other \in matches : ~Before(other, m)
Final(matches) == CHOOSE m \in matches : \A other \in matches : ~Before(m, other)

(* next_match: the one after, or before, the current one, and around.      *)
NextMatch(matches, current, direction) ==
  LET after == {m \in matches : Before(current, m)}
      before == {m \in matches : Before(m, current)}
  IN CASE direction = "Next" ->
            IF current # Absent /\ after # {} THEN First(after) ELSE First(matches)
       [] direction = "Previous" ->
            IF current # Absent /\ before # {} THEN Final(before) ELSE Final(matches)

(* The lines to show, each with its place in the text.                     *)
OutputView(p, text) ==
  LET all == [i \in DOMAIN text |-> i]
      matching == FlattenSeq([i \in DOMAIN text |->
                                IF Hits(text[i], p.query) # {} THEN <<i>> ELSE <<>>])
      View(places) == [text |-> [i \in DOMAIN places |-> text[places[i]]],
                       source |-> [i \in DOMAIN places |-> places[i] - 1]]
  IN IF ~p.filter \/ p.query = NoQuery THEN View(all)
     ELSE IF matching = <<>> THEN [text |-> <<NoMatch>>, source |-> <<>>]
     ELSE View(matching)

-----------------------------------------------------------------------------
(* wrap_line: where the row that begins at start ends.                     *)
RowEnd(line, start, width) ==
  LET full == start + width
      breaks == {cell + 1 : cell \in line.spaces \cap start..full - 1}
  IN CASE line.len <= full -> line.len
       [] line.len > full /\ full \in line.spaces -> full
       [] line.len > full /\ full \notin line.spaces ->
            IF breaks = {} THEN full ELSE Max(breaks)

WrapLine(line, width) ==
  LET from[start \in 0..line.len] ==
        IF start = line.len THEN <<>>
        ELSE <<[start |-> start, end |-> RowEnd(line, start, width)]>>
               \o from[RowEnd(line, start, width)]
  IN IF line.len = 0 THEN <<[start |-> 0, end |-> 0]>> ELSE from[0]

(* A layout and its rows: which line, its place in the text if it is of    *)
(* the text, and which of its cells.                                       *)
NewLayout(view, width) ==
  LET RowsOf(i) ==
        LET wrapped == WrapLine(view.text[i], width)
            place == IF i \in DOMAIN view.source THEN view.source[i] ELSE Absent
        IN [r \in DOMAIN wrapped |->
              [no |-> view.text[i].no, line |-> place,
               start |-> wrapped[r].start, end |-> wrapped[r].end]]
      rows == IF view.text = <<>>
              THEN <<[no |-> Empty.no, line |-> Absent, start |-> 0, end |-> 0]>>
              ELSE FlattenSeq([i \in DOMAIN view.text |-> RowsOf(i)])
  IN [view |-> view, width |-> width, rows |-> rows]

TopRow(p) == p.layout.rows[Smaller(p.viewport.scroll + 1, Len(p.layout.rows))]

TopPosition(p) ==
  IF TopRow(p).line = Absent THEN Absent ELSE [line |-> TopRow(p).line, offset |-> TopRow(p).start]

RowForPosition(rows, position) ==
  LET ofText == {i \in DOMAIN rows : rows[i].line # Absent}
      exact == {i \in ofText : rows[i].line = position.line}
      holding == {i \in exact : /\ rows[i].start <= position.offset
                                /\ \/ position.offset < rows[i].end
                                   \/ rows[i].start = rows[i].end}
      later == {i \in ofText : rows[i].line > position.line}
  IN IF holding # {} THEN Min(holding) - 1
     ELSE IF exact # {} THEN Max(exact) - 1
     ELSE IF later # {} THEN Min(later) - 1
     ELSE IF ofText # {} THEN Max(ofText) - 1
     ELSE Absent

RestorePosition(p, position) ==
  LET row == IF position = Absent THEN Absent ELSE RowForPosition(p.layout.rows, position)
  IN IF row = Absent THEN p ELSE [p EXCEPT !.viewport = SetScroll(@, row)]

(* The row that was first stays first, whatever it now holds.              *)
PrepareLayout_KeepsRow(p, text, page) ==
  LET layout == NewLayout(OutputView(p, text), p.width)
  IN [p EXCEPT !.layout = layout, !.layoutInitialized = TRUE,
               !.viewport = SetMetrics(@, page, Len(layout.rows))]

(* prepare_layout: lays the text out again if it, what is shown of it or   *)
(* the width has changed; the row at the top is the one that holds what    *)
(* was at the top, unless the pane follows the end.                        *)
PrepareLayout(p, text, page) ==
  LET anchor == IF p.layoutInitialized /\ ~p.viewport.follow THEN TopPosition(p) ELSE Absent
      view == OutputView(p, text)
      laid == IF p.layout.view = view /\ p.layout.width = p.width THEN p
              ELSE [p EXCEPT !.layout = NewLayout(view, p.width), !.layoutInitialized = TRUE]
      sized == [laid EXCEPT !.viewport = SetMetrics(@, page, Len(laid.layout.rows))]
  IN RestorePosition(sized, anchor)

SyncLayout(p, text) == PrepareLayout(p, text, p.viewport.page)

DisableSnap(p) == [p EXCEPT !.viewport = Unfollow(@)]

EnsureSourceRangeVisible(p, match) ==
  LET rows == p.layout.rows
      holding == {i \in DOMAIN rows : /\ rows[i].line = match.line
                                      /\ rows[i].start < match.end
                                      /\ match.start < rows[i].end}
      first == Min(holding) - 1
      count == Max(holding) - first
      v == p.viewport
      scroll == IF count = 1 THEN EnsureVisible(v.scroll, first, Len(rows), v.page)
                ELSE EnsureRangeVisible(v.scroll, first, count, Len(rows), v.page)
  IN IF holding = {} THEN p ELSE [p EXCEPT !.viewport = SetScroll(v, scroll)]

(* In the layout of the last frame.                                        *)
ScrollToCurrent_Stale(p, text) ==
  IF p.current = Absent THEN p ELSE EnsureSourceRangeVisible(p, p.current)

(* scroll_to_current_output_match                                          *)
ScrollToCurrent(p, text) ==
  IF p.current = Absent THEN p ELSE EnsureSourceRangeVisible(SyncLayout(p, text), p.current)

ClearCurrentMatch(p) == [p EXCEPT !.current = Absent]
SetCurrentMatch(p, match) == [p EXCEPT !.current = match]

-----------------------------------------------------------------------------
(* What the last frame showed first, and what was found, for the           *)
(* properties: by the numbers of the lines, which the code does not have.  *)
Place(p) == [no |-> TopRow(p).no, offset |-> TopRow(p).start]
Found(p, text) == IF p.current = Absent THEN Absent
                  ELSE [no |-> text[p.current.line + 1].no, offset |-> p.current.start]

NothingArrived == [lines |-> 0, failed |-> FALSE, summary |-> "None"]

(* Nothing of a run arrives after its end.                                 *)
TestPrints ==
  /\ arrived.summary = "None"
  /\ \E lines \in arrived.lines + 1..Len(Live) : arrived' = [arrived EXCEPT !.lines = lines]
  /\ UNCHANGED <<selected, pane, drawn, found>>

(* With the rest of its output, so far as it is not late.                  *)
TestFails ==
  /\ arrived.summary = "None" /\ ~arrived.failed
  /\ \E lines \in arrived.lines..Len(Live) :
       arrived' = [arrived EXCEPT !.lines = lines, !.failed = TRUE]
  /\ UNCHANGED <<selected, pane, drawn, found>>

(* With a verdict on the tests.                                            *)
RunEnds ==
  /\ arrived.summary = "None"
  /\ arrived' = [arrived EXCEPT !.summary = "Run"]
  /\ UNCHANGED <<selected, pane, drawn, found>>

ResetPane(p) ==
  [p EXCEPT !.viewport = ResetForSourceChange(@), !.layoutInitialized = FALSE, !.current = Absent]

ResetPaneToStart(p) ==
  [p EXCEPT !.viewport = ResetToStart(@), !.layoutInitialized = FALSE, !.current = Absent]

(* The run ends without a verdict: its summary is read from the start.     *)
CommandFails ==
  /\ arrived.summary = "None"
  /\ arrived' = [arrived EXCEPT !.summary = "Command"]
  /\ pane' = ResetPaneToStart(pane)
  /\ drawn' = Absent
  /\ found' = Absent
  /\ UNCHANGED selected

(* The user selects the other test.                                        *)
Select ==
  /\ selected' = IF selected = "Live" THEN "Other" ELSE "Live"
  /\ pane' = ResetPane(pane)
  /\ drawn' = Absent
  /\ found' = Absent
  /\ UNCHANGED arrived

(* The next run: all output is cleared.  Of the other test no more is      *)
(* modelled than that it prints before anything else happens.              *)
BeginRun ==
  /\ arrived.summary # "None"
  /\ arrived' = NothingArrived
  /\ pane' = ResetPane(pane)
  /\ drawn' = Absent
  /\ found' = Absent
  /\ UNCHANGED selected

(* apply_viewport_geometry, before a frame is drawn.                       *)
Frame(page, width) ==
  /\ pane' = PrepareLayout([pane EXCEPT !.width = width], SourceText, page)
  /\ drawn' = Place(pane')
  /\ UNCHANGED <<selected, arrived, found>>

ScrollBy(action) ==
  /\ LET synced == SyncLayout(pane, SourceText)
         len == Len(synced.layout.rows)
     IN pane' = [synced EXCEPT !.viewport = ApplyScroll(SetContentLen(@, len), action)]
  /\ drawn' = Absent
  /\ UNCHANGED <<selected, arrived, found>>

ToggleSnap ==
  /\ LET synced == SyncLayout(pane, SourceText)
     IN pane' = [synced EXCEPT !.viewport = ToggleFollow(@, Len(synced.layout.rows))]
  /\ drawn' = Absent
  /\ UNCHANGED <<selected, arrived, found>>

(* The user begins to type a query, or to change the options: only that    *)
(* the pane no longer follows concerns it until the query is applied.      *)
StartSearch ==
  /\ pane' = DisableSnap(pane)
  /\ UNCHANGED <<selected, arrived, drawn, found>>

(* select_output_match_after_apply: the match that was the current one, if *)
(* it still is one, and otherwise the first.                               *)
SelectMatchAfterApply(p, text) ==
  LET matches == MatchOccurrences(text, p.query)
      match == IF p.current \in matches THEN p.current ELSE First(matches)
  IN IF p.query = Invalid THEN p
     ELSE IF matches = {} THEN ClearCurrentMatch(p)
     ELSE DisableSnap(ScrollToCurrent(SetCurrentMatch(p, match), text))

EmptyQuery(p, text) ==
  LET position == TopPosition(p)
      cleared == ClearCurrentMatch([p EXCEPT !.query = NoQuery])
  IN DisableSnap(RestorePosition(SyncLayout(cleared, text), position))

(* The next frame begins where the command leaves the pane, unless it had  *)
(* no place to keep: a filter leaves nothing to show, or, by a query typed *)
(* since the last frame, other rows up to that place, or fewer in all.     *)
KeptPlace ==
  LET shown == OutputView(pane, SourceText)
      rows == NewLayout(shown, pane.width).rows
      StillThere == /\ Len(pane.layout.rows) <= Len(rows)
                    /\ \A i \in 1..pane.viewport.scroll + 1 : rows[i] = pane.layout.rows[i]
  IN IF drawn # Absent /\ shown.source # <<>> /\ StillThere THEN Place(pane') ELSE Absent

ApplySearch(query, filter) ==
  /\ LET synced == SyncLayout(DisableSnap(pane), SourceText)
         applied == [synced EXCEPT !.query = query, !.filter = filter]
     IN pane' = IF query = NoQuery
                THEN EmptyQuery([synced EXCEPT !.filter = filter], SourceText)
                ELSE SelectMatchAfterApply(applied, SourceText)
  /\ drawn' = IF query = NoQuery THEN KeptPlace ELSE Absent
  /\ found' = IF query = Invalid THEN Absent ELSE Found(pane', SourceText)
  /\ UNCHANGED <<selected, arrived>>

ClearSearch ==
  /\ pane' = EmptyQuery(SyncLayout(pane, SourceText), SourceText)
  /\ drawn' = IF pane.viewport.follow THEN Absent ELSE KeptPlace
  /\ found' = Absent
  /\ UNCHANGED <<selected, arrived>>

ToggleFilter ==
  /\ LET toggled == [pane EXCEPT !.filter = ~pane.filter]
     IN pane' = DisableSnap(ScrollToCurrent(toggled, SourceText))
  /\ drawn' = Absent
  /\ UNCHANGED <<selected, arrived, found>>

(* toggle_output_regex, toggle_output_case_sensitive: the same characters  *)
(* are another query.                                                      *)
ToggleMode(query) ==
  /\ pane.query # NoQuery
  /\ pane' = DisableSnap(ClearCurrentMatch([pane EXCEPT !.query = query]))
  /\ found' = Absent
  /\ UNCHANGED <<selected, arrived, drawn>>

FindMatch(direction) ==
  /\ LET matches == MatchOccurrences(SourceText, pane.query)
         free == DisableSnap(pane)
     IN pane' = IF pane.query \in {NoQuery, Invalid} THEN free
                ELSE IF matches = {} THEN ClearCurrentMatch(free)
                ELSE ScrollToCurrent(
                       SetCurrentMatch(free, NextMatch(matches, pane.current, direction)),
                       SourceText)
  /\ drawn' = Absent
  /\ found' = IF pane.query \in {NoQuery, Invalid} THEN found ELSE Found(pane', SourceText)
  /\ UNCHANGED <<selected, arrived>>

PaneInit ==
  /\ selected = "Live"
  /\ arrived = NothingArrived
  /\ pane = [viewport |-> DefaultViewport, width |-> Max(Widths), layoutInitialized |-> FALSE,
             layout |-> NewLayout([text |-> <<>>, source |-> <<>>], 1),
             query |-> NoQuery, filter |-> FALSE, current |-> Absent]
  /\ drawn = Absent
  /\ found = Absent

PaneNext ==
  \/ TestPrints
  \/ TestFails
  \/ RunEnds
  \/ CommandFails
  \/ BeginRun
  \/ Select
  \/ \E page \in Pages, width \in Widths : Frame(page, width)
  \/ \E action \in ScrollActions : ScrollBy(action)
  \/ ToggleSnap
  \/ StartSearch
  \/ \E query \in Queries \cup {NoQuery, Invalid}, filter \in BOOLEAN : ApplySearch(query, filter)
  \/ ClearSearch
  \/ ToggleFilter
  \/ \E query \in Queries \cup {Invalid} : ToggleMode(query)
  \/ \E direction \in {"Next", "Previous"} : FindMatch(direction)

PaneSpec == PaneInit /\ [][PaneNext]_paneVars

-----------------------------------------------------------------------------
Positions == [line : Nat, start : Nat, end : Nat]

PaneTypeOK ==
  /\ selected \in {"Live", "Other"}
  /\ arrived \in [lines : 0..Len(Live), failed : BOOLEAN, summary : {"None", "Run", "Command"}]
  /\ pane.viewport \in Viewport
  /\ pane.width \in Widths
  /\ pane.filter \in BOOLEAN /\ pane.layoutInitialized \in BOOLEAN
  /\ pane.query \in Queries \cup {NoQuery, Invalid}
  /\ pane.current \in Positions \cup {Absent}

(* The rows in the pane, for a text of so many rows.                       *)
ShownRows(p) ==
  LET rows == p.layout.rows
      last == Smaller(p.viewport.scroll + p.viewport.page, Len(rows))
  IN {rows[i] : i \in p.viewport.scroll + 1..last}

Holds(row, place) ==
  /\ row.no = place.no
  /\ row.start <= place.offset
  /\ place.offset < row.end \/ row.start = row.end

Searches ==
  \/ \E query \in Queries \cap {pane'.query}, filter \in BOOLEAN \cap {pane'.filter} :
       ApplySearch(query, filter)
  \/ \E direction \in {"Next", "Previous"} : FindMatch(direction)

(* No line was dropped from the front of the text.                         *)
Untrimmed == selected = "Live" => Len(Captured(arrived)) <= Limit

(* "No output captured" is no longer there when the test has printed; the  *)
(* summary of a failure is not where it was when more is printed.          *)
FoundIsThere ==
  found # Absent /\ found.no # Failure.no /\ \E line \in ToSet(SourceText) : line.no = found.no

KeepsPlace ==
  drawn # Absent /\ drawn' # Absent /\ drawn.no # Failure.no /\ ~pane.viewport.follow
    /\ OutputView(pane, SourceText).source # <<>> =>
    LET holding == {row \in ToSet(pane'.layout.rows) : Holds(row, drawn)}
    IN holding = {} \/ holding \cap ShownRows(pane') # {}

(* A user who reads, and does not follow the end, keeps the place: what a  *)
(* frame showed first is still in the pane at the next frame and after the *)
(* search is cleared, whatever was printed, however the pane was resized   *)
(* and whatever was typed in between, as long as it is still to be shown.  *)
(* Not when a filter left nothing to show or was given other options after *)
(* the last frame, nor when lines were dropped, nor at the summary of a    *)
(* failure, which what is printed late is put before; a text that was not  *)
(* laid out since it was selected keeps no place either.                   *)
ReaderStays == [][pane.layoutInitialized /\ Untrimmed' => KeepsPlace]_paneVars

(* A frame of a pane that follows shows the last row of what the test has  *)
(* printed by then, not of what was laid out before.                       *)
FollowShowsEnd ==
  [][drawn' # Absent /\ pane'.viewport.follow /\ UNCHANGED <<selected, arrived>> =>
       /\ pane'.layout.view = OutputView(pane, SourceText)
       /\ Last(pane'.layout.rows) \in ShownRows(pane')]_paneVars

(* The match that is found is in the pane as it is now wrapped: its first  *)
(* row, and all of them if they fit.                                       *)
FoundIsVisible ==
  [][pane'.current # Absent /\ pane'.query # Invalid /\ drawn' = Absent /\ Searches =>
       LET match == pane'.current
           holding == {row \in ToSet(pane'.layout.rows) :
                         /\ row.line = match.line
                         /\ row.start < match.end /\ match.start < row.end}
           begins == {row \in holding : row.start <= match.start}
       IN /\ begins # {} /\ begins \subseteq ShownRows(pane')
          /\ Cardinality(holding) < pane'.viewport.page => holding \subseteq ShownRows(pane')]_paneVars

(* What the pane is scrolled to is in it: the newest row and the match;    *)
(* and no frame leaves it scrolled past its text.                          *)
PaneShows == []PaneTypeOK /\ FollowShowsEnd /\ FoundIsVisible

(* Going on from a match to the next leaves out none, though lines were    *)
(* printed or filtered since it was found, the test failed and the run     *)
(* ended, as long as its line is there and is not the failure's summary.   *)
NextMissesNone ==
  [][Untrimmed /\ FoundIsThere /\ found' # Absent /\ drawn' = Absent /\ FindMatch("Next") =>
       LET Later(a, b) == \/ a.no > b.no
                          \/ a.no = b.no /\ a.offset > b.offset
           matches == {[no |-> SourceText[m.line + 1].no, offset |-> m.start]
                       : m \in MatchOccurrences(SourceText, pane.query)}
           after == {m \in matches : Later(m, found)}
       IN found' \in (IF after = {} THEN matches ELSE after)
          /\ ~\E m \in (IF after = {} THEN matches ELSE after) : Later(found', m)]_paneVars
=============================================================================
