------------------------------ MODULE TestTree ------------------------------
(***************************************************************************)
(* The tests tree: built from the discovered tests, drawn under a filter,  *)
(* walked by the user while the results of a run change what the filter    *)
(* shows, and the source of the scope that the run key runs.               *)
(* Sources: tree.rs; selected_scope of app.rs; RunScope of nextest.rs.     *)
(* A test is [package, binary, kind, module, name, ignored], its module a  *)
(* sequence of names.  A node is known by its place in the sequence nodes, *)
(* in the order of insertion; it stands for the NodeId, which is unique.   *)
(***************************************************************************)
EXTENDS Naturals, FiniteSets, Sequences, SequencesExt, FiniteSetsExt

CONSTANTS
  Discoveries, \* the lists of tests a discovery may find
  FilterKeys,  \* the statuses whose rows the user may hide
  PageSize     \* the rows of a page

(* A discovered test; its ignored is what nextest lists.                   *)
TestId == [package : STRING, binary : STRING, kind : STRING, module : Seq(STRING),
           name : STRING, ignored : BOOLEAN]

ASSUME TreeAssumption ==
  /\ \A tests \in Discoveries : tests \in Seq(TestId)
  /\ FilterKeys \subseteq {"Passed", "Failed", "Ignored", "Skipped"}
  /\ PageSize \in Nat

VARIABLES
  nodes,       \* the tree: [parent, label, kind, path, test] of every node
  status,      \* the status of every test node
  expanded,    \* the branches that are open
  hidden,      \* view_filter: the statuses it does not show
  selected,    \* the selected node
  scope        \* the node whose scope is being run, 0 if none

treeVars == <<nodes, status, expanded, hidden, selected, scope>>

Root == 1
Nodes == DOMAIN nodes
Leaves == {i \in Nodes : nodes[i].kind = "Test"}
ChildrenIn(tree, i) == {j \in DOMAIN tree : tree[j].parent = i}

-----------------------------------------------------------------------------
Level(label, kind, path) == [label |-> label, kind |-> kind, path |-> path]

(* The branches over a test: its package, the target if it is an           *)
(* integration test, the modules.                                          *)
Levels(t) ==
  <<Level(t.package, "Package", <<>>)>>
    \o (IF t.kind = "test" THEN <<Level(t.binary, "Binary", <<>>)>> ELSE <<>>)
    \o [k \in DOMAIN t.module |-> Level(t.module[k], "Module", SubSeq(t.module, 1, k))]

Grow(tree, parent, level, t) ==
  Append(tree, [parent |-> parent, label |-> level.label, kind |-> level.kind,
                path |-> level.path, test |-> t])

(* child_position: a branch is looked up among the children by label       *)
(* alone, and added when no child bears the label.                         *)
Descend(at, level, t) ==
  LET alike == {j \in ChildrenIn(at.tree, at.node) : at.tree[j].label = level.label}
  IN IF alike # {}
     THEN [tree |-> at.tree, node |-> Min(alike)]
     ELSE [tree |-> Grow(at.tree, at.node, level, t), node |-> Len(at.tree) + 1]

(* Tree::insert_test goes down its branches and adds the test to the last. *)
Insert(tree, t) ==
  LET levels == Levels(t)
      at[k \in 0..Len(levels)] ==
        IF k = 0 THEN [tree |-> tree, node |-> Root] ELSE Descend(at[k - 1], levels[k], t)
      place == at[Len(levels)]
  IN Grow(place.tree, place.node, Level(t.name, "Test", <<>>), t)

Bare == <<[parent |-> 0, label |-> "workspace", kind |-> "Workspace", path |-> <<>>, test |-> <<>>]>>

FromTests(tests) ==
  LET grown[k \in 0..Len(tests)] == IF k = 0 THEN Bare ELSE Insert(grown[k - 1], tests[k])
  IN grown[Len(tests)]

Statuses == {"Running", "Failed", "Pending", "Skipped", "Ignored", "Passed"}

StatusPriority_PendingFirst == <<"Running", "Pending", "Failed", "Skipped", "Ignored", "Passed">>

(* merge_status: of the statuses of its children a branch shows the first. *)
StatusPriority == <<"Running", "Failed", "Pending", "Skipped", "Ignored", "Passed">>

MergeStatus(below) ==
  IF below = {} THEN "Pending"
  ELSE StatusPriority[Min({k \in DOMAIN StatusPriority : StatusPriority[k] \in below})]

(* recompute_node_state.                                                   *)
StatusOf[i \in Nat] ==
  IF nodes[i].kind = "Test" THEN status[i]
  ELSE MergeStatus({StatusOf[j] : j \in ChildrenIn(nodes, i)})

-----------------------------------------------------------------------------
SameTarget_AnyOfPackage(t, u) == t.package = u.package

(* selected_scope and RunScope::matches_test: is test t in the scope of    *)
(* node i?  A branch holds the target of the test that made it.            *)
SameTarget(t, u) ==
  t.package = u.package /\ t.binary = u.binary /\ t.kind = u.kind

InScope(i, t) ==
  LET n == nodes[i]
  IN CASE n.kind = "Workspace" -> TRUE
       [] n.kind = "Package" -> t.package = n.test.package
       [] n.kind = "Binary" -> SameTarget(t, n.test)
       [] n.kind = "Module" ->
            SameTarget(t, n.test) /\ IsPrefix(n.path, Append(t.module, t.name))
       [] n.kind = "Test" ->
            SameTarget(t, n.test) /\ t.module = n.test.module /\ t.name = n.test.name

-----------------------------------------------------------------------------
(* node_has_visible_tests.                                                 *)
HasVisibleTests[i \in Nat] ==
  IF nodes[i].kind = "Test" THEN status[i] \notin hidden
  ELSE \E j \in ChildrenIn(nodes, i) : HasVisibleTests[j]

Shown(i) == i = Root \/ HasVisibleTests[i]

(* collect_visible: the rows under node i; the root is always a row.       *)
RowsFrom[i \in Nat] ==
  LET below[k \in 0..Len(nodes)] ==
        IF k = 0 THEN <<>>
        ELSE IF nodes[k].parent = i THEN below[k - 1] \o RowsFrom[k] ELSE below[k - 1]
  IN IF ~Shown(i) THEN <<>>
     ELSE <<i>> \o IF i \in expanded THEN below[Len(nodes)] ELSE <<>>

VisibleRows == RowsFrom[Root]
IsVisible(i, rows) == \E k \in DOMAIN rows : rows[k] = i

(* visible_rows_with_selection: the first row stands in for a selection    *)
(* that is not among the rows.                                             *)
SelectedIndex(rows) ==
  IF IsVisible(selected, rows) THEN CHOOSE k \in DOMAIN rows : rows[k] = selected ELSE 1

Highlighted == LET rows == VisibleRows IN rows[SelectedIndex(rows)]

Depth[i \in Nodes] == IF i = Root THEN 0 ELSE 1 + Depth[nodes[i].parent]

(* clamp_selection, after the rows have changed.                           *)
ClampSelection_Never(node) == selected' = node

ClampSelection(node) ==
  selected' = IF IsVisible(node, VisibleRows') THEN node ELSE VisibleRows'[1]

-----------------------------------------------------------------------------
Load(tests) ==
  /\ nodes' = FromTests(tests)
  /\ status' = [i \in {j \in DOMAIN nodes' : nodes'[j].kind = "Test"} |->
                  IF nodes'[i].test.ignored THEN "Ignored" ELSE "Pending"]
  /\ expanded' = {Root} /\ selected' = Root

TreeInit ==
  \E tests \in Discoveries :
    /\ nodes = FromTests(tests)
    /\ status = [i \in Leaves |-> IF nodes[i].test.ignored THEN "Ignored" ELSE "Pending"]
    /\ expanded = {Root} /\ hidden = {} /\ selected = Root /\ scope = 0

(* refresh_from_tests keeps the filter and nothing else.                   *)
Refresh ==
  /\ scope = 0
  /\ \E tests \in Discoveries : Load(tests)
  /\ UNCHANGED <<hidden, scope>>

SelectRow(Index(_, _)) ==
  /\ LET rows == VisibleRows
     IN selected' = rows[Index(SelectedIndex(rows), Len(rows))]
  /\ UNCHANGED <<nodes, status, expanded, hidden, scope>>

SelectNext == SelectRow(LAMBDA k, last : Min({k + 1, last}))
SelectPrevious == SelectRow(LAMBDA k, last : Max({k - 1, 1}))
SelectFirst == SelectRow(LAMBDA k, last : 1)
SelectLast == SelectRow(LAMBDA k, last : last)
SelectNextPage == SelectRow(LAMBDA k, last : Min({k + Max({PageSize, 1}), last}))
SelectPreviousPage ==
  SelectRow(LAMBDA k, last : IF k > Max({PageSize, 1}) THEN k - Max({PageSize, 1}) ELSE 1)

(* select_next_failed and select_previous_failed go round the rows, from   *)
(* the row of the selection or its stand-in.                               *)
FailedRows(rows) == {k \in DOMAIN rows : StatusOf[rows[k]] = "Failed"}

SelectNextFailed ==
  /\ LET rows == VisibleRows
         at == SelectedIndex(rows)
         later == {k \in FailedRows(rows) : k > at}
     IN /\ FailedRows(rows) # {}
        /\ selected' = rows[IF later # {} THEN Min(later) ELSE Min(FailedRows(rows))]
  /\ UNCHANGED <<nodes, status, expanded, hidden, scope>>

SelectPreviousFailed ==
  /\ LET rows == VisibleRows
         at == SelectedIndex(rows)
         others == FailedRows(rows) \ {at}
         earlier == {k \in others : k < at}
     IN /\ others # {}
        /\ selected' = rows[IF earlier # {} THEN Max(earlier) ELSE Max(others)]
  /\ UNCHANGED <<nodes, status, expanded, hidden, scope>>

Toggle ==
  /\ expanded' = IF ChildrenIn(nodes, selected) = {} THEN expanded
                 ELSE IF selected \in expanded THEN expanded \ {selected}
                 ELSE expanded \union {selected}
  /\ UNCHANGED <<nodes, status, hidden, scope>>
  /\ ClampSelection(selected)

Expand ==
  /\ ChildrenIn(nodes, selected) # {}
  /\ expanded' = expanded \union {selected}
  /\ UNCHANGED <<nodes, status, hidden, scope>>
  /\ ClampSelection(selected)

(* collapse_selected_or_parent works on the highlighted row: an open       *)
(* branch is closed, from another row the branch over it.                  *)
Collapse ==
  LET rows == VisibleRows
      at == SelectedIndex(rows)
      over == {k \in 1..(at - 1) : Depth[rows[k]] < Depth[rows[at]]}
      open == rows[at] \in expanded /\ ChildrenIn(nodes, rows[at]) # {}
      target == IF open THEN rows[at] ELSE rows[Max(over)]
  IN /\ open \/ over # {}
     /\ expanded' = expanded \ {target}
     /\ UNCHANGED <<nodes, status, hidden, scope>>
     /\ ClampSelection(target)

(* set_view_filter.                                                        *)
ToggleViewFilter(key) ==
  /\ hidden' = IF key \in hidden THEN hidden \ {key} ELSE hidden \union {key}
  /\ UNCHANGED <<nodes, status, expanded, scope>>
  /\ ClampSelection(selected)

-----------------------------------------------------------------------------
(* The run key (RunSelected, then Tree::prepare_for_run), and what the     *)
(* events of the run do to the leaves, as module TestRun has them.         *)
RunScope ==
  /\ scope = 0
  /\ scope' = selected
  /\ status' = [i \in Leaves |-> IF nodes[i].test.ignored THEN "Ignored"
                                 ELSE IF InScope(selected, nodes[i].test) THEN "Pending"
                                 ELSE "Skipped"]
  /\ UNCHANGED <<nodes, expanded, hidden, selected>>

StartTest(i) ==
  /\ scope # 0 /\ status[i] = "Pending" /\ InScope(scope, nodes[i].test)
  /\ status' = [status EXCEPT ![i] = "Running"]
  /\ UNCHANGED <<nodes, expanded, hidden, selected, scope>>

FinishTest(i, result) ==
  /\ status[i] = "Running"
  /\ status' = [status EXCEPT ![i] = result]
  /\ UNCHANGED <<nodes, expanded, hidden, selected, scope>>

RunEnds ==
  /\ scope # 0
  /\ scope' = 0
  /\ status' \in
       {[i \in Leaves |-> IF status[i] = "Running" THEN "Pending" ELSE status[i]],
        [i \in Leaves |-> IF status[i] \in {"Pending", "Running"}
                             /\ InScope(scope, nodes[i].test)
                          THEN "Skipped" ELSE status[i]]}
  /\ UNCHANGED <<nodes, expanded, hidden, selected>>

UserStep ==
  \/ SelectNext \/ SelectPrevious \/ SelectFirst \/ SelectLast
  \/ SelectNextPage \/ SelectPreviousPage
  \/ SelectNextFailed \/ SelectPreviousFailed
  \/ Toggle \/ Expand \/ Collapse
  \/ \E key \in FilterKeys : ToggleViewFilter(key)

RunStep ==
  \/ RunScope \/ RunEnds
  \/ \E i \in Leaves : StartTest(i)
  \/ \E i \in Leaves, result \in {"Passed", "Failed"} : FinishTest(i, result)

TreeNext == Refresh \/ UserStep \/ RunStep

TreeSpec == TreeInit /\ [][TreeNext]_treeVars

-----------------------------------------------------------------------------
Over[i \in Nodes] == IF i = Root THEN {} ELSE {nodes[i].parent} \union Over[nodes[i].parent]
Under(i) == {j \in Leaves : j = i \/ i \in Over[j]}

(* The types; every node has its parent before it and no child leads from  *)
(* a test.                                                                 *)
TreeTypeOK ==
  /\ \A i \in Nodes \ {Root} : nodes[i].parent \in 1..(i - 1)
  /\ status \in [Leaves -> Statuses]
  /\ expanded \subseteq Nodes /\ hidden \subseteq FilterKeys
  /\ selected \in Nodes /\ scope \in Nodes \union {0}

(* "Run from any selected scope": the scope of a row is the tests listed   *)
(* under it, those of its own target where the tests of several have been  *)
(* merged under one label - never a test that is listed elsewhere.         *)
ScopeIsSubtree ==
  \A i \in Nodes :
    {j \in Leaves : InScope(i, nodes[j].test)} =
      {j \in Under(i) : nodes[i].kind \in {"Binary", "Module"} =>
                          SameTarget(nodes[j].test, nodes[i].test)}

(* A branch shows Running while one of the tests under it runs, otherwise  *)
(* Failed when one has failed; it shows Passed when all have passed.       *)
BranchesTellTheirTests ==
  \A i \in Nodes \ Leaves :
    LET below == {status[j] : j \in Under(i)}
    IN /\ "Running" \in below => StatusOf[i] = "Running"
       /\ "Failed" \in below /\ "Running" \notin below => StatusOf[i] = "Failed"
       /\ below = {"Passed"} <=> StatusOf[i] = "Passed"

(* Under open branches the rows are exactly the tests the filter shows.    *)
RowsShowTheFiltered ==
  LET rows == VisibleRows
  IN \A i \in Leaves :
       IsVisible(i, rows) <=> Over[i] \subseteq expanded /\ status[i] \notin hidden

(* The tree is one, its rows are what the filter shows of it, and what     *)
(* they say is what happened under them.                                   *)
TreeInv == TreeTypeOK /\ RowsShowTheFiltered /\ BranchesTellTheirTests

(* Nothing but a change of a status takes the selected row off the screen: *)
(* a row that is closed or filtered away hands the selection on.           *)
OnlyResultsHideSelection ==
  [][IsVisible(selected, VisibleRows) /\ ~IsVisible(selected', VisibleRows')
       => status' # status]_treeVars

-----------------------------------------------------------------------------
(* What the code does not guarantee.                                       *)

(* The labels on the way from the root to a test.                          *)
Place(t) == Append([k \in DOMAIN Levels(t) |-> Levels(t)[k].label], t.name)

(* No test is listed twice or bears the name of a branch.                  *)
TestsApart ==
  \A tests \in Discoveries : \A k, l \in DOMAIN tests :
    k # l => ~IsPrefix(Place(tests[k]), Place(tests[l]))

(* The run key runs everything that is listed under the row.               *)
ScopeIsAllUnder ==
  \A i \in Nodes : {j \in Leaves : InScope(i, nodes[j].test)} = Under(i)

(* The row drawn as selected is the one whose scope the run key runs.      *)
HighlightedRowIsRun == Highlighted = selected

=============================================================================
