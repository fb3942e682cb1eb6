------------------------------- MODULE Scroll -------------------------------
(***************************************************************************)
(* What part of a list of rows a pane shows: the row it begins with, after *)
(* the pane or the list has changed, or to bring rows into view.  Rows are *)
(* counted from 0.  Source: scroll.rs.                                     *)
(***************************************************************************)
EXTENDS Naturals

Larger(a, b) == IF a >= b THEN a ELSE b
Smaller(a, b) == IF a <= b THEN a ELSE b
Less(a, b) == IF a >= b THEN a - b ELSE 0   \* saturating_sub

DefaultScrolloff == 3

MaxScroll(count, size) == Less(count, Larger(size, 1))

Clamp(scroll, count, size) == Smaller(scroll, MaxScroll(count, size))

(* ensure_visible_with_scrolloff: the row selected and, where the pane has *)
(* room, scrolloff rows around it.                                         *)
EnsureVisibleWith(scroll, selected, count, size, scrolloff) ==
  LET page == Larger(size, 1)
      row == Smaller(selected, Less(count, 1))
      from == Clamp(scroll, count, size)
      off == Smaller(scrolloff, Less(page, 1) \div 2)
      next == IF row < from + off THEN Less(row, off)
              ELSE IF row > from + Less(page, off + 1) THEN Less(row + off + 1, page)
              ELSE from
  IN IF count = 0 THEN 0 ELSE Clamp(next, count, size)

EnsureVisible(scroll, selected, count, size) ==
  EnsureVisibleWith(scroll, selected, count, size, DefaultScrolloff)

EnsureRangeVisible(scroll, first, len, count, size) ==
  LET page == Larger(size, 1)
      start == Smaller(first, Less(count, 1))
      end == Smaller(start + Larger(len, 1) - 1, Less(count, 1))
      from == Clamp(scroll, count, size)
  IN IF count = 0 THEN 0
     ELSE IF Larger(len, 1) >= page THEN Clamp(start, count, size)
     ELSE IF start < from THEN start
     ELSE IF end >= from + page THEN Less(end + 1, page)
     ELSE from

Up(scroll, amount) == Less(scroll, Larger(amount, 1))

Down(scroll, amount, count, size) == Clamp(scroll + Larger(amount, 1), count, size)

-----------------------------------------------------------------------------
(* FollowViewportState: a viewport v that stays at the end of its rows     *)
(* while v.follow.                                                         *)
Viewport == [scroll : Nat, page : Nat \ {0}, len : Nat \ {0}, follow : BOOLEAN]

DefaultViewport == [scroll |-> 0, page |-> 1, len |-> 1, follow |-> TRUE]

SetScroll(v, scroll) == [v EXCEPT !.scroll = Clamp(scroll, v.len, v.page)]
ToBottom(v) == [v EXCEPT !.scroll = MaxScroll(v.len, v.page)]

SetMetrics(v, page, len) ==
  LET sized == [v EXCEPT !.page = Larger(page, 1), !.len = Larger(len, 1)]
  IN IF v.follow THEN ToBottom(sized) ELSE SetScroll(sized, v.scroll)

SetContentLen(v, len) == SetMetrics(v, v.page, len)

Unfollow(v) == [v EXCEPT !.follow = FALSE]
SnapToBottom(v, len) == ToBottom([v EXCEPT !.follow = TRUE, !.len = Larger(len, 1)])

ScrollActions == {"LineUp", "LineDown", "PageUp", "PageDown", "Top", "Bottom"}

ApplyScroll(v, action) ==
  LET amount == IF action \in {"PageUp", "PageDown"} THEN v.page ELSE 1
  IN CASE action \in {"LineUp", "PageUp"} ->
            Unfollow([v EXCEPT !.scroll = Up(v.scroll, amount)])
       [] action \in {"LineDown", "PageDown"} ->
            Unfollow([v EXCEPT !.scroll = Down(v.scroll, amount, v.len, v.page)])
       [] action = "Top" -> Unfollow([v EXCEPT !.scroll = 0])
       [] action = "Bottom" -> ToBottom([v EXCEPT !.follow = TRUE])

ToggleFollow(v, len) == IF v.follow THEN Unfollow(v) ELSE SnapToBottom(v, len)

ResetForSourceChange(v) == [v EXCEPT !.scroll = 0, !.follow = TRUE]
ResetToStart(v) == [v EXCEPT !.scroll = 0, !.follow = FALSE]
=============================================================================
