------------------------------- MODULE Screen -------------------------------
(***************************************************************************)
(* Which part of the screen takes the keys.  Nextdeck has one main screen  *)
(* and seven things that may lie on it, each with a flag of its own in     *)
(* App; command_context derives from the flags which of them is on top and *)
(* what a key means there, command.rs turns the key into a command, and    *)
(* apply_command changes the flags again.  Meanwhile answers arrive that   *)
(* change flags too: of a discovery, a reload of the xtasks, a sampling of *)
(* stacks, a run.                                                          *)
(*                                                                         *)
(* A command that leaves the screen as it is (scrolling, toggles of one    *)
(* pane, adjusting a value) is not an action here.                         *)
(***************************************************************************)
EXTENDS Naturals, FiniteSets

CONSTANT Tests  \* the tests of the tree

Branch == "branch"
None == "none"
ASSUME TestsAssumption == Branch \notin Tests /\ None \notin Tests

Panes == {"Main", "Xtask", "TestEvents", "TestStackSample"}

VARIABLES
    settings,   \* global_settings: "closed", "open" or "editing"
    cleanup,    \* disk_cleanup.modal_open
    xtasks,     \* XtaskState: open, detail, focus, editing, manifest, loading
    events,     \* TestEventsState: open, focus
    details,    \* show_test_details
    custom,     \* custom_run: "closed", "open" or "editing"
    sample,     \* TestStackSampleState: open, running, title, text
    asked,      \* the tests whose stacks are being sampled
    search,     \* of each output pane: "off", "inline" or "modal"
    discovery,  \* "idle", "running" or "failed"
    running,    \* a run is under way
    testing,    \* the tests whose status is Running
    selection,  \* the selected node of the tree
    focus,      \* the focused pane of the main screen
    leaving,    \* the user presses nothing but Esc and Q any more
    quit        \* should_quit

overlays == <<settings, cleanup, xtasks, events, details, custom, sample>>
work == <<asked, discovery, running, testing>>
vars == <<overlays, work, search, selection, focus, leaving, quit>>

TypeOK ==
    /\ settings \in {"closed", "open", "editing"}
    /\ cleanup \in BOOLEAN
    /\ xtasks \in [open : BOOLEAN, detail : BOOLEAN, editing : BOOLEAN,
                   focus : {"Parameters", "Output"},
                   manifest : BOOLEAN, loading : BOOLEAN]
    /\ events \in [open : BOOLEAN, focus : {"Runs", "Events"}]
    /\ details \in BOOLEAN
    /\ custom \in {"closed", "open", "editing"}
    /\ sample \in [open : BOOLEAN, running : BOOLEAN,
                   title : Tests \cup {None}, text : Tests \cup {None}]
    /\ asked \subseteq Tests
    /\ search \in [Panes -> {"off", "inline", "modal"}]
    /\ discovery \in {"idle", "running", "failed"}
    /\ running \in BOOLEAN
    /\ testing \subseteq Tests
    /\ selection \in Tests \cup {Branch}
    /\ focus \in {"Tests", "Output"}
    /\ leaving \in BOOLEAN /\ quit \in BOOLEAN

\* App::discovering and startup_effects: tests and xtasks are asked for.
Init ==
    /\ settings = "closed" /\ cleanup = FALSE
    /\ xtasks = [open |-> FALSE, detail |-> FALSE, editing |-> FALSE,
                 focus |-> "Parameters", manifest |-> FALSE, loading |-> TRUE]
    /\ events = [open |-> FALSE, focus |-> "Runs"]
    /\ details = FALSE /\ custom = "closed"
    /\ sample = [open |-> FALSE, running |-> FALSE, title |-> None, text |-> None]
    /\ asked = {}
    /\ search = [p \in Panes |-> "off"]
    /\ discovery = "running" /\ running = FALSE /\ testing = {}
    /\ selection = Branch /\ focus = "Tests"
    /\ leaving = FALSE /\ quit = FALSE

-----------------------------------------------------------------------------
(* What lies on top, and what a key means there                            *)

\* command_focus
CommandFocus == IF discovery = "failed" THEN "Output" ELSE focus

\* What may lie on the main screen, in the order command_context asks.
Open(overlay) ==
    CASE overlay = "Settings"       -> settings # "closed"
      [] overlay = "DiskCleanup"    -> cleanup
      [] overlay = "Xtasks"         -> xtasks.open
      [] overlay = "TestEvents"     -> events.open
      [] overlay = "OutputSearch"   -> search["Main"] = "modal"
      [] overlay = "TestDetails"    -> details
      [] overlay = "Discovery"      -> discovery = "running"
      [] overlay = "DiscoveryError" -> discovery = "failed"

Priority == <<"Settings", "DiskCleanup", "Xtasks", "TestEvents",
              "OutputSearch", "TestDetails", "Discovery", "DiscoveryError">>

OpenOverlays == {i \in DOMAIN Priority : Open(Priority[i])}

Overlay ==
    IF OpenOverlays = {} THEN None
    ELSE Priority[CHOOSE i \in OpenOverlays : \A j \in OpenOverlays : i <= j]

SearchMode == [inline |-> "OutputSearchInline", modal |-> "OutputSearchModal"]

\* The InputMode that command_context derives for the overlay on top.
XtasksMode ==
    CASE search["Xtask"] # "off" -> SearchMode[search["Xtask"]]
      [] search["Xtask"] = "off" /\ xtasks.editing -> "XtaskInput"
      [] search["Xtask"] = "off" /\ ~xtasks.editing ->
            IF xtasks.detail THEN xtasks.focus ELSE "XtaskModal"

EventsMode ==
    IF search["TestEvents"] = "off" THEN events.focus ELSE SearchMode[search["TestEvents"]]

CustomMode == [closed |-> "TestDetailsModal", open |-> "CustomRunModal",
               editing |-> "CustomRunInput"]

DetailsMode ==
    CASE search["TestStackSample"] # "off" -> SearchMode[search["TestStackSample"]]
      [] search["TestStackSample"] = "off" ->
            IF sample.open THEN "TestStackSampleModal" ELSE CustomMode[custom]

NormalMode == IF CommandFocus = "Tests" THEN "NormalTests" ELSE "NormalOutput"

Mode ==
    CASE Overlay = "Settings" ->
            IF settings = "editing" THEN "SettingsOpenWith" ELSE "SettingsModal"
      [] Overlay = "DiskCleanup"    -> "DiskCleanupModal"
      [] Overlay = "Xtasks"         -> XtasksMode
      [] Overlay = "TestEvents"     -> EventsMode
      [] Overlay = "OutputSearch"   -> "OutputSearchModal"
      [] Overlay = "TestDetails"    -> DetailsMode
      [] Overlay = "Discovery"      -> "DiscoveryRunning"
      [] Overlay = "DiscoveryError" -> "NormalOutput"
      [] Overlay = None ->
            IF search["Main"] = "inline" THEN "OutputSearchInline" ELSE NormalMode

\* The pane that the commands of search, filter and snap are about.
ActivePane ==
    IF xtasks.open /\ xtasks.detail THEN "Xtask"
    ELSE IF events.open THEN "TestEvents"
    ELSE IF details /\ sample.open THEN "TestStackSample" ELSE "Main"

NormalCommands == {"Quit", "RefreshTests", "OpenSettings", "OpenXtasks",
                   "OpenTestEvents", "OpenDiskCleanup", "ToggleFocus"}

\* command_for_discovery_running.  Mutant: the keys of the main screen go on.
DiscoveryCommands_AsUsual == NormalCommands
DiscoveryCommands == {"Quit"}

\* command_for_input_mode: the commands that have a key in a mode.
Commands(mode) ==
    CASE mode = "NormalTests"  -> NormalCommands \cup {"Move", "ActivateSelected", "RunSelected"}
      [] mode = "NormalOutput" -> NormalCommands \cup {"StartOutputSearch"}
      [] mode = "DiscoveryRunning" -> DiscoveryCommands
      [] mode = "SettingsModal"    -> {"CloseSettings", "SettingsActivate"}
      [] mode = "SettingsOpenWith" -> {"CommitOpenWithSetting", "CancelOpenWithSetting"}
      [] mode = "DiskCleanupModal" -> {"CloseDiskCleanup"}
      [] mode = "XtaskModal" -> {"CloseXtasks", "RefreshXtasks", "OpenSelectedXtask"}
      [] mode = "Parameters" -> {"CloseXtaskDetails", "ToggleXtaskDetailFocus", "XtaskActivateArg"}
      [] mode = "Output" -> {"CloseXtaskDetails", "ToggleXtaskDetailFocus", "StartOutputSearch"}
      [] mode = "XtaskInput" -> {"CommitXtaskEdit", "CancelXtaskEdit"}
      [] mode = "Runs"   -> {"CloseTestEvents", "ToggleTestEventsFocus"}
      [] mode = "Events" -> {"CloseTestEvents", "ToggleTestEventsFocus", "StartOutputSearch"}
      [] mode = "TestDetailsModal" -> {"CloseTestDetails", "OpenCustomRun", "SampleTestStacks"}
      [] mode = "TestStackSampleModal" -> {"CloseTestStackSample", "StartOutputSearch"}
      [] mode = "CustomRunModal" -> {"CloseCustomRun", "CustomRunActivate", "RunCustom"}
      [] mode = "CustomRunInput" -> {"CommitCustomRunEdit", "CancelCustomRunEdit"}
      [] mode = "OutputSearchInline" ->
            {"CancelOutputSearch", "ApplyOutputSearch", "OpenOutputSearchModal"}
      [] mode = "OutputSearchModal" -> {"CancelOutputSearch", "ApplyOutputSearch"}

\* The command of the Esc key, where it has one.
EscCommands == {"CloseSettings", "CancelOpenWithSetting", "CloseDiskCleanup",
    "CloseXtasks", "CloseXtaskDetails", "CancelXtaskEdit", "CloseTestEvents",
    "CloseTestDetails", "CloseTestStackSample", "CloseCustomRun",
    "CancelCustomRunEdit", "CancelOutputSearch"}

-----------------------------------------------------------------------------
(* apply_command                                                           *)

ElseUnchanged == UNCHANGED <<leaving, quit>>

Quit == quit' = TRUE /\ UNCHANGED <<overlays, work, search, selection, focus, leaving>>

ToggleFocus ==
    /\ focus' = IF focus = "Tests" THEN "Output" ELSE "Tests"
    /\ UNCHANGED <<overlays, work, search, selection>> /\ ElseUnchanged

\* MoveUp to SelectPreviousFailed: another node becomes the selected one.
Move ==
    /\ selection' \in (Tests \cup {Branch}) \ {selection}
    /\ UNCHANGED <<overlays, work, search, focus>> /\ ElseUnchanged

\* A search that is being written in one pane ends: close_interaction.
Closed(pane) == [search EXCEPT ![pane] = "off"]

\* RefreshTests and begin_discovery.  Mutant: also during a run.
BeginDiscovery ==
    /\ discovery' = "running"
    /\ details' = FALSE
    /\ events' = [events EXCEPT !.open = FALSE]
    /\ search' = Closed("TestEvents")
    /\ UNCHANGED <<settings, cleanup, xtasks, custom, sample, asked, running,
                   testing, selection, focus>>
    /\ ElseUnchanged

RefreshTests_DuringRun == discovery # "running" /\ BeginDiscovery
RefreshTests == discovery # "running" /\ ~running /\ BeginDiscovery

\* The effect of a run request, whose begin_run refuses a second run.
StartRun == running' = TRUE /\ UNCHANGED <<asked, discovery, testing>>

RunSelected ==
    /\ discovery # "running"
    /\ ~running
    /\ StartRun
    /\ UNCHANGED <<overlays, search, selection, focus>> /\ ElseUnchanged

\* activate_selected and close_test_details
ActivateSelected ==
    /\ custom' = "closed" /\ details' = TRUE
    /\ UNCHANGED <<settings, cleanup, xtasks, events, sample, work, search, selection, focus>>
    /\ ElseUnchanged

CloseTestDetails ==
    /\ details' = FALSE /\ custom' = "closed"
    /\ sample' = [sample EXCEPT !.open = FALSE]
    /\ search' = Closed("TestStackSample")
    /\ UNCHANGED <<settings, cleanup, xtasks, events, work, selection, focus>>
    /\ ElseUnchanged

SetCustom(state) ==
    /\ custom' = state
    /\ UNCHANGED <<settings, cleanup, xtasks, events, sample, work, search, selection, focus>>
    /\ ElseUnchanged

OpenCustomRun ==
    /\ discovery # "running" /\ ~running
    /\ details' = TRUE
    /\ SetCustom("open")

CustomRunActivate == UNCHANGED details /\ SetCustom("editing")
CustomRunEditEnds == UNCHANGED details /\ SetCustom("open")
CloseCustomRun    == UNCHANGED details /\ SetCustom("closed")

\* run_custom_effect, when the options make a request.
RunCustom ==
    /\ discovery # "running" /\ ~running
    /\ custom' = "closed" /\ details' = FALSE
    /\ StartRun
    /\ UNCHANGED <<settings, cleanup, xtasks, events, sample, search, selection, focus>>
    /\ ElseUnchanged

\* sample_test_stacks_effect: the answer to a question still open is shown
\* again, a second question is refused, and a test has to be running.
ShowSample ==
    /\ sample' = [sample EXCEPT !.open = TRUE]
    /\ details' = TRUE
    /\ UNCHANGED asked

AskSample ==
    /\ sample' = [open |-> TRUE, running |-> TRUE, title |-> selection, text |-> None]
    /\ asked' = asked \cup {selection}
    /\ UNCHANGED details

SampleLeaves ==
    /\ UNCHANGED <<settings, cleanup, xtasks, events, custom, discovery, running,
                   testing, search, selection, focus>>
    /\ ElseUnchanged

SampleTestStacks ==
    /\ selection \in Tests
    /\ \/ sample.running /\ sample.title = selection /\ ShowSample
       \/ ~sample.running /\ running /\ selection \in testing /\ AskSample
    /\ SampleLeaves

CloseTestStackSample ==
    /\ sample' = [sample EXCEPT !.open = FALSE]
    /\ search' = Closed("TestStackSample")
    /\ UNCHANGED <<settings, cleanup, xtasks, events, details, custom, work, selection, focus>>
    /\ ElseUnchanged

SetSettings(state) ==
    /\ settings' = state
    /\ UNCHANGED <<cleanup, xtasks, events, details, custom, sample, work, search,
                   selection, focus>>
    /\ ElseUnchanged

SetCleanup(open) ==
    /\ cleanup' = open
    /\ UNCHANGED <<settings, xtasks, events, details, custom, sample, work, search,
                   selection, focus>>
    /\ ElseUnchanged

\* TestEventsState::open, close and toggle_focus
SetEvents(state) ==
    /\ events' = state
    /\ UNCHANGED <<settings, cleanup, xtasks, details, custom, sample, work, selection, focus>>
    /\ ElseUnchanged

OpenTestEvents == SetEvents([open |-> TRUE, focus |-> "Runs"]) /\ UNCHANGED search
CloseTestEvents ==
    SetEvents([events EXCEPT !.open = FALSE]) /\ search' = Closed("TestEvents")
ToggleTestEventsFocus ==
    /\ SetEvents([events EXCEPT !.focus = IF @ = "Runs" THEN "Events" ELSE "Runs"])
    /\ UNCHANGED search

\* The commands of the xtask panel
SetXtasks(state) ==
    /\ xtasks' = state
    /\ UNCHANGED <<settings, cleanup, events, details, custom, sample, work, selection, focus>>
    /\ ElseUnchanged

\* What open_detail, close_detail, close and begin_load have in common.
Detail(open) == [xtasks EXCEPT !.detail = open, !.focus = "Parameters", !.editing = FALSE]

OpenXtasks == SetXtasks([xtasks EXCEPT !.open = TRUE]) /\ UNCHANGED search
CloseXtasks ==
    /\ SetXtasks([Detail(FALSE) EXCEPT !.open = FALSE])
    /\ search' = Closed("Xtask")
RefreshXtasks ==
    /\ SetXtasks([Detail(FALSE) EXCEPT !.loading = TRUE])
    /\ search' = Closed("Xtask")
OpenSelectedXtask ==
    /\ xtasks.manifest
    /\ SetXtasks(Detail(TRUE))
    /\ search' = Closed("Xtask")
CloseXtaskDetails == SetXtasks(Detail(FALSE)) /\ search' = Closed("Xtask")
ToggleXtaskDetailFocus ==
    /\ SetXtasks([xtasks EXCEPT !.focus = IF @ = "Output" THEN "Parameters" ELSE "Output"])
    /\ UNCHANGED search
XtaskActivateArg ==
    /\ SetXtasks([xtasks EXCEPT !.focus = "Parameters", !.editing = TRUE])
    /\ UNCHANGED search
XtaskEditEnds == SetXtasks([xtasks EXCEPT !.editing = FALSE]) /\ UNCHANGED search

\* start_output_search, open_output_search_modal, apply_ and cancel_output_search
SetSearch(state) == search' = [search EXCEPT ![ActivePane] = state]

StartOutputSearch ==
    /\ SetSearch("inline")
    /\ focus' = IF ActivePane = "Main" THEN "Output" ELSE focus
    /\ xtasks' = [xtasks EXCEPT !.focus = IF ActivePane = "Xtask" THEN "Output" ELSE @]
    /\ events' = [events EXCEPT !.focus = IF ActivePane = "TestEvents" THEN "Events" ELSE @]
    /\ UNCHANGED <<settings, cleanup, details, custom, sample, work, selection>>
    /\ ElseUnchanged

OpenOutputSearchModal ==
    SetSearch("modal") /\ UNCHANGED <<overlays, work, selection, focus>> /\ ElseUnchanged
\* Mutant: Esc ends the line of the search and not its options.
SearchEnds_LineOnly ==
    /\ search' = [search EXCEPT ![ActivePane] = IF @ = "inline" THEN "off" ELSE @]
    /\ UNCHANGED <<overlays, work, selection, focus>> /\ ElseUnchanged
SearchEnds ==
    SetSearch("off") /\ UNCHANGED <<overlays, work, selection, focus>> /\ ElseUnchanged

Apply(command) ==
    \/ command = "Quit" /\ Quit
    \/ command = "ToggleFocus" /\ ToggleFocus
    \/ command = "Move" /\ Move
    \/ command = "RefreshTests" /\ RefreshTests
    \/ command = "RunSelected" /\ RunSelected
    \/ command = "ActivateSelected" /\ ActivateSelected
    \/ command = "CloseTestDetails" /\ CloseTestDetails
    \/ command = "OpenCustomRun" /\ OpenCustomRun
    \/ command = "CustomRunActivate" /\ CustomRunActivate
    \/ command \in {"CommitCustomRunEdit", "CancelCustomRunEdit"} /\ CustomRunEditEnds
    \/ command = "CloseCustomRun" /\ CloseCustomRun
    \/ command = "RunCustom" /\ RunCustom
    \/ command = "SampleTestStacks" /\ SampleTestStacks
    \/ command = "CloseTestStackSample" /\ CloseTestStackSample
    \/ command \in {"OpenSettings", "CommitOpenWithSetting", "CancelOpenWithSetting"}
       /\ SetSettings("open")
    \/ command = "SettingsActivate" /\ SetSettings("editing")
    \/ command = "CloseSettings" /\ SetSettings("closed")
    \/ command = "OpenDiskCleanup" /\ SetCleanup(TRUE)
    \/ command = "CloseDiskCleanup" /\ SetCleanup(FALSE)
    \/ command = "OpenTestEvents" /\ OpenTestEvents
    \/ command = "CloseTestEvents" /\ CloseTestEvents
    \/ command = "ToggleTestEventsFocus" /\ ToggleTestEventsFocus
    \/ command = "OpenXtasks" /\ OpenXtasks
    \/ command = "CloseXtasks" /\ CloseXtasks
    \/ command = "RefreshXtasks" /\ RefreshXtasks
    \/ command = "OpenSelectedXtask" /\ OpenSelectedXtask
    \/ command = "CloseXtaskDetails" /\ CloseXtaskDetails
    \/ command = "ToggleXtaskDetailFocus" /\ ToggleXtaskDetailFocus
    \/ command = "XtaskActivateArg" /\ XtaskActivateArg
    \/ command \in {"CommitXtaskEdit", "CancelXtaskEdit"} /\ XtaskEditEnds
    \/ command = "StartOutputSearch" /\ StartOutputSearch
    \/ command = "OpenOutputSearchModal" /\ OpenOutputSearchModal
    \/ command \in {"ApplyOutputSearch", "CancelOutputSearch"} /\ SearchEnds

\* One key of the user who goes about his business.
Press == ~leaving /\ ~quit /\ \E command \in Commands(Mode) : Apply(command)

\* The user who wants to leave presses Q where it means that, and else Esc.
Decide ==
    /\ ~leaving /\ ~quit /\ leaving' = TRUE
    /\ UNCHANGED <<overlays, work, search, selection, focus, quit>>

WayOut == IF "Quit" \in Commands(Mode) THEN {"Quit"} ELSE Commands(Mode) \cap EscCommands
Leave == leaving /\ ~quit /\ \E command \in WayOut : Apply(command)

-----------------------------------------------------------------------------
(* Answers and results                                                     *)

\* apply_discovery_event.  A discovery is never begun while another is under
\* way, so its request id is always the current one.
DiscoveryFinished ==
    /\ discovery = "running" /\ ~quit
    /\ \/ /\ discovery' = "idle"
          /\ selection' \in Tests \cup {Branch}
          /\ UNCHANGED focus
       \/ /\ discovery' = "failed"
          /\ focus' = "Output"
          /\ UNCHANGED selection
    /\ UNCHANGED <<overlays, asked, running, testing, search>> /\ ElseUnchanged

\* apply_event for InfoLoaded of the current request.
InfoLoaded ==
    /\ xtasks.loading /\ ~quit
    /\ \/ xtasks' = [Detail(FALSE) EXCEPT !.loading = FALSE, !.manifest = TRUE]
       \/ xtasks' = [xtasks EXCEPT !.loading = FALSE, !.manifest = FALSE, !.detail = FALSE]
    /\ UNCHANGED <<settings, cleanup, events, details, custom, sample, work, search,
                   selection, focus>>
    /\ ElseUnchanged

\* finish_test_stack_sample: the answer carries no name.
SampleAnswers ==
    /\ ~quit
    /\ \E test \in asked :
        /\ asked' = asked \ {test}
        /\ sample' = [sample EXCEPT !.running = FALSE, !.text = test]
    /\ UNCHANGED <<settings, cleanup, xtasks, events, details, custom, discovery,
                   running, testing, search, selection, focus>>
    /\ ElseUnchanged

\* apply_run_event: a test begins or ends, or the whole run does.
RunGoesOn ==
    /\ running /\ ~quit
    /\ \/ \E test \in Tests \ testing :
            testing' = testing \cup {test} /\ UNCHANGED running
       \/ \E test \in testing : testing' = testing \ {test} /\ UNCHANGED running
       \/ testing' = {} /\ running' = FALSE
    /\ UNCHANGED <<overlays, asked, discovery, search, selection, focus>> /\ ElseUnchanged

Stopped == quit /\ UNCHANGED vars

Next ==
    \/ Press \/ Decide \/ Leave
    \/ DiscoveryFinished \/ InfoLoaded \/ SampleAnswers \/ RunGoesOn
    \/ Stopped

Spec == Init /\ [][Next]_vars
FairSpec == Spec /\ WF_vars(Leave)

-----------------------------------------------------------------------------
(* Properties                                                              *)

\* The answer to a reload of the xtasks has closed the details under a search in
\* their output, which set_manifest does not end: the keys of the search go to
\* another pane, and no Esc ends it.  The properties below except this.
Stranded == search["Xtask"] # "off" /\ ~xtasks.detail

\* Nothing lies hidden below something else: of the things that take the whole
\* keyboard at most one is open, so that the order in which command_context
\* asks for them never decides, and no run can be begun behind a discovery.
OneOverlay == ~Stranded =>
    /\ Cardinality({o \in OpenOverlays : Priority[o] # "DiscoveryError"}) <= 1
    /\ discovery = "failed" => ~details /\ search["Main"] # "modal"

\* The tests are not read anew while a run reports on them.
DiscoveryAndRunExclude == ~(running /\ discovery = "running")

\* Run options and stack samples belong to the details they were opened from:
\* with the details closed none waits to be shown over those of another test,
\* and the two are never open at once.
NothingWaitsBehind ==
    /\ sample.open \/ custom # "closed" => details
    /\ ~(sample.open /\ custom # "closed")

\* The answer of a sampling carries no name, so that it must be that of the
\* test in the title: shown is what was asked, and one question at a time.
SampleIsOfItsTitle ==
    /\ asked \subseteq {sample.title}
    /\ sample.text \in {None, sample.title}
    /\ sample.running <=> asked # {}

\* When keys are taken for a search they reach the one that is being written:
\* the pane that edits, applies and cancels is the one that put the screen in
\* this mode.
SearchKeysHaveSearch == ~Stranded =>
    \A state \in {"inline", "modal"} :
        Mode = SearchMode[state] => search[ActivePane] = state

\* What is on the screen and what takes the keys agree.
ScreenInv ==
    TypeOK /\ OneOverlay /\ NothingWaitsBehind /\ SampleIsOfItsTitle /\ SearchKeysHaveSearch

\* Esc, as often as it takes, and then Q lead out of Nextdeck from everywhere.
LeavingSucceeds == leaving ~> (quit \/ Stranded)

-----------------------------------------------------------------------------
\* What the code does not guarantee: that an xtask search ends with the details
\* it is shown in (ClosedDetailHasNoSearch == ~Stranded), and the following.

\* A search that was begun in the pane in front takes the keys, also in the
\* output of a discovery that failed.
SearchTakesKeys ==
    search[ActivePane] # "off" /\ Overlay \in {None, "Xtasks", "TestEvents", "TestDetails",
                                               "DiscoveryError"}
        => Mode = SearchMode[search[ActivePane]]
=============================================================================
