---------------------------- MODULE Screen_proofs ----------------------------
(***************************************************************************)
(* What the screen shows and who takes its keys: what lies on top of what, *)
(* and the tree of the tests.                                              *)
(***************************************************************************)
EXTENDS Screen, TestTree, FiniteSetTheorems, SequenceTheorems, NaturalsInduction,
        WellFoundedInduction, TLAPS

-----------------------------------------------------------------------------
(***************************************************************************)
(* Who takes the keys, for any set of tests.                               *)
(***************************************************************************)

\* A search in the report of a stack sample ends with the report.
SampleSearchIsShown == search["TestStackSample"] # "off" => sample.open

\* At most one of the things that take the whole keyboard is open, spelt out.
Alone ==
  /\ settings # "closed" =>
       /\ ~cleanup /\ ~xtasks.open /\ ~events.open /\ search["Main"] # "modal"
       /\ ~details /\ discovery # "running"
  /\ cleanup =>
       /\ ~xtasks.open /\ ~events.open /\ search["Main"] # "modal" /\ ~details
       /\ discovery # "running"
  /\ xtasks.open =>
       ~events.open /\ search["Main"] # "modal" /\ ~details /\ discovery # "running"
  /\ events.open => search["Main"] # "modal" /\ ~details /\ discovery # "running"
  /\ search["Main"] = "modal" => ~details /\ discovery # "running" /\ discovery # "failed"
  /\ details => discovery # "running" /\ discovery # "failed"

SInv ==
  /\ TypeOK /\ NothingWaitsBehind /\ SampleIsOfItsTitle
  /\ SampleSearchIsShown /\ DiscoveryAndRunExclude
  /\ ~Stranded => Alone

LEMMA PriorityIs ==
  /\ DOMAIN Priority = 1..8
  /\ Priority[1] = "Settings" /\ Priority[2] = "DiskCleanup" /\ Priority[3] = "Xtasks"
  /\ Priority[4] = "TestEvents" /\ Priority[5] = "OutputSearch" /\ Priority[6] = "TestDetails"
  /\ Priority[7] = "Discovery" /\ Priority[8] = "DiscoveryError"
  BY DEF Priority

LEMMA OpenIs ==
  /\ Open(Priority[1]) <=> settings # "closed"
  /\ Open(Priority[2]) <=> cleanup
  /\ Open(Priority[3]) <=> xtasks.open
  /\ Open(Priority[4]) <=> events.open
  /\ Open(Priority[5]) <=> search["Main"] = "modal"
  /\ Open(Priority[6]) <=> details
  /\ Open(Priority[7]) <=> discovery = "running"
  /\ Open(Priority[8]) <=> discovery = "failed"
  BY PriorityIs DEF Open

(* command_context asks for the overlays one after the other.              *)
LEMMA OverlayIs ==
  ASSUME TypeOK
  PROVE  Overlay =
           IF settings # "closed" THEN "Settings" ELSE
           IF cleanup THEN "DiskCleanup" ELSE
           IF xtasks.open THEN "Xtasks" ELSE
           IF events.open THEN "TestEvents" ELSE
           IF search["Main"] = "modal" THEN "OutputSearch" ELSE
           IF details THEN "TestDetails" ELSE
           IF discovery = "running" THEN "Discovery" ELSE
           IF discovery = "failed" THEN "DiscoveryError" ELSE None
<1>1. \A i \in 1..8 :
        Open(Priority[i]) /\ (\A j \in 1..8 : j < i => ~Open(Priority[j])) => Overlay = Priority[i]
  <2> SUFFICES ASSUME NEW i \in 1..8, Open(Priority[i]),
                      \A j \in 1..8 : j < i => ~Open(Priority[j])
               PROVE  Overlay = Priority[i]
    OBVIOUS
  <2>1. OpenOverlays \subseteq 1..8 /\ i \in OpenOverlays
    BY PriorityIs DEF OpenOverlays
  <2>2. \A j \in OpenOverlays : i <= j
    BY <2>1 DEF OpenOverlays
  <2>3. \A k \in OpenOverlays : (\A j \in OpenOverlays : k <= j) => k = i
    BY <2>1, <2>2
  <2>4. (CHOOSE k \in OpenOverlays : \A j \in OpenOverlays : k <= j) = i
    BY <2>1, <2>2, <2>3
  <2> QED
    BY <2>1, <2>4 DEF Overlay
<1>2. (\A i \in 1..8 : ~Open(Priority[i])) => Overlay = None
  BY PriorityIs DEF Overlay, OpenOverlays
<1> HIDE DEF Overlay
<1> QED
  BY <1>1, <1>2, OpenIs, PriorityIs DEF None

\* Nothing takes the keyboard from the main screen.
Clear ==
  /\ settings = "closed" /\ ~cleanup /\ ~xtasks.open /\ ~events.open
  /\ search["Main"] # "modal" /\ ~details /\ discovery # "running"

\* The panel of the xtasks, the events of tests or the details are on top.
XtasksOnTop == settings = "closed" /\ ~cleanup /\ xtasks.open
EventsOnTop == settings = "closed" /\ ~cleanup /\ ~xtasks.open /\ events.open
DetailsOnTop ==
  /\ settings = "closed" /\ ~cleanup /\ ~xtasks.open /\ ~events.open
  /\ search["Main"] # "modal" /\ details

\* A search of this kind takes the keys, in one pane or another.
SearchOnTop(state) ==
  \/ XtasksOnTop /\ search["Xtask"] = state
  \/ EventsOnTop /\ search["TestEvents"] = state
  \/ DetailsOnTop /\ search["TestStackSample"] = state
  \/ state = "inline" /\ Clear /\ discovery # "failed" /\ search["Main"] = "inline"
  \/ /\ state = "modal" /\ search["Main"] = "modal"
     /\ settings = "closed" /\ ~cleanup /\ ~xtasks.open /\ ~events.open

(* What is open when the keys have a certain meaning.                      *)
LEMMA ModeIs ==
  ASSUME TypeOK
  PROVE  /\ Mode \in {"NormalTests", "NormalOutput"} => Clear
         /\ Mode = "NormalTests" => discovery # "failed"
         /\ Mode \in {"SettingsModal", "SettingsOpenWith"} => settings # "closed"
         /\ Mode = "DiskCleanupModal" => cleanup
         /\ Mode \in {"XtaskModal", "Parameters", "Output", "XtaskInput"} =>
              XtasksOnTop /\ search["Xtask"] = "off"
         /\ Mode \in {"Parameters", "Output"} => xtasks.detail
         /\ Mode \in {"Runs", "Events"} => EventsOnTop /\ search["TestEvents"] = "off"
         /\ Mode \in {"TestDetailsModal", "TestStackSampleModal", "CustomRunModal", "CustomRunInput"} =>
              DetailsOnTop /\ search["TestStackSample"] = "off"
         /\ Mode = "TestDetailsModal" => ~sample.open /\ custom = "closed"
         /\ Mode = "TestStackSampleModal" => sample.open
         /\ Mode \in {"CustomRunModal", "CustomRunInput"} => ~sample.open /\ custom # "closed"
         /\ Mode = "OutputSearchInline" => SearchOnTop("inline")
         /\ Mode = "OutputSearchModal" => SearchOnTop("modal")
         /\ Mode = "DiscoveryRunning" => discovery = "running"
<1>1. CASE Overlay = "Settings"
  BY <1>1, OverlayIs DEF Mode, None, TypeOK
<1>2. CASE Overlay = "DiskCleanup"
  BY <1>2, OverlayIs DEF Mode, None, TypeOK
<1>3. CASE Overlay = "Xtasks"
  <2>1. Mode = XtasksMode
    BY <1>3 DEF Mode, None
  <2>2. XtasksOnTop
    BY <1>3, OverlayIs DEF XtasksOnTop, None, TypeOK
  <2>3. search["Xtask"] \in {"off", "inline", "modal"} /\ xtasks.focus \in {"Parameters", "Output"}
    BY DEF TypeOK, Panes
  <2> QED
    BY <2>1, <2>2, <2>3 DEF XtasksMode, SearchMode, SearchOnTop
<1>4. CASE Overlay = "TestEvents"
  <2>1. Mode = EventsMode
    BY <1>4 DEF Mode, None
  <2>2. EventsOnTop
    BY <1>4, OverlayIs DEF EventsOnTop, None, TypeOK
  <2>3. search["TestEvents"] \in {"off", "inline", "modal"} /\ events.focus \in {"Runs", "Events"}
    BY DEF TypeOK, Panes
  <2> QED
    BY <2>1, <2>2, <2>3 DEF EventsMode, SearchMode, SearchOnTop
<1>5. CASE Overlay = "OutputSearch"
  BY <1>5, OverlayIs DEF Mode, None, TypeOK, SearchOnTop
<1>6. CASE Overlay = "TestDetails"
  <2>1. Mode = DetailsMode
    BY <1>6 DEF Mode, None
  <2>2. DetailsOnTop
    BY <1>6, OverlayIs DEF DetailsOnTop, None, TypeOK
  <2>3. search["TestStackSample"] \in {"off", "inline", "modal"} /\ custom \in {"closed", "open", "editing"}
    BY DEF TypeOK, Panes
  <2> QED
    BY <2>1, <2>2, <2>3 DEF DetailsMode, SearchMode, SearchOnTop, CustomMode
<1>7. CASE Overlay = "Discovery"
  BY <1>7, OverlayIs DEF Mode, None, TypeOK
<1>8. CASE Overlay = "DiscoveryError"
  BY <1>8, OverlayIs DEF Mode, None, TypeOK, Clear
<1>9. CASE Overlay = None
  BY <1>9, OverlayIs DEF Mode, NormalMode, CommandFocus, None, TypeOK, Clear, SearchOnTop
<1> QED
  BY <1>1, <1>2, <1>3, <1>4, <1>5, <1>6, <1>7, <1>8, <1>9, OverlayIs

\* Where a command can be given.
GivenWhere(command) ==
  /\ command \in {"RefreshTests", "OpenSettings", "OpenXtasks", "OpenTestEvents",
                  "OpenDiskCleanup", "Move", "ActivateSelected", "RunSelected"} => Clear
  /\ command = "ActivateSelected" => discovery # "failed"
  /\ command \in {"CloseSettings", "SettingsActivate", "CommitOpenWithSetting",
                  "CancelOpenWithSetting"} => settings # "closed"
  /\ command = "CloseDiskCleanup" => cleanup
  /\ command \in {"CloseXtasks", "RefreshXtasks", "OpenSelectedXtask", "CloseXtaskDetails",
                  "ToggleXtaskDetailFocus", "XtaskActivateArg", "CommitXtaskEdit",
                  "CancelXtaskEdit"} => XtasksOnTop /\ search["Xtask"] = "off"
  /\ command \in {"CloseTestEvents", "ToggleTestEventsFocus"} => EventsOnTop
  /\ command \in {"CloseTestDetails", "OpenCustomRun", "SampleTestStacks",
                  "CloseTestStackSample", "CloseCustomRun", "CustomRunActivate", "RunCustom",
                  "CommitCustomRunEdit", "CancelCustomRunEdit"} => DetailsOnTop
  /\ command \in {"CloseTestDetails", "OpenCustomRun", "SampleTestStacks"} =>
       ~sample.open /\ custom = "closed"
  /\ command \in {"CloseCustomRun", "CustomRunActivate", "RunCustom", "CommitCustomRunEdit",
                  "CancelCustomRunEdit"} => ~sample.open /\ custom # "closed"
  /\ command = "StartOutputSearch" =>
       \/ Clear
       \/ XtasksOnTop /\ xtasks.detail
       \/ EventsOnTop
       \/ DetailsOnTop /\ sample.open
  /\ command = "OpenOutputSearchModal" => SearchOnTop("inline")
  /\ command \in {"ApplyOutputSearch", "CancelOutputSearch"} =>
       SearchOnTop("inline") \/ SearchOnTop("modal")

(* A command reaches apply_command from the modes that have a key for it.  *)
LEMMA CommandIs ==
  ASSUME TypeOK, NEW command \in Commands(Mode)
  PROVE  GivenWhere(command)
<1> USE ModeIs DEF Commands, GivenWhere
<1>1. CASE Mode = "NormalTests"
  BY <1>1 DEF NormalCommands
<1>2. CASE Mode = "NormalOutput"
  BY <1>2 DEF NormalCommands
<1>3. CASE Mode = "DiscoveryRunning"
  BY <1>3 DEF DiscoveryCommands
<1>4. CASE Mode = "SettingsModal"
  BY <1>4
<1>5. CASE Mode = "SettingsOpenWith"
  BY <1>5
<1>6. CASE Mode = "DiskCleanupModal"
  BY <1>6
<1>7. CASE Mode = "XtaskModal"
  BY <1>7
<1>8. CASE Mode = "Parameters"
  BY <1>8
<1>9. CASE Mode = "Output"
  BY <1>9
<1>10. CASE Mode = "XtaskInput"
  BY <1>10
<1>11. CASE Mode = "Runs"
  BY <1>11
<1>12. CASE Mode = "Events"
  BY <1>12
<1>13. CASE Mode = "TestDetailsModal"
  BY <1>13
<1>14. CASE Mode = "TestStackSampleModal"
  BY <1>14
<1>15. CASE Mode = "CustomRunModal"
  BY <1>15
<1>16. CASE Mode = "CustomRunInput"
  BY <1>16
<1>17. CASE Mode = "OutputSearchInline"
  BY <1>17
<1>18. CASE Mode = "OutputSearchModal"
  BY <1>18
<1>m. Mode \in {"NormalTests", "NormalOutput", "DiscoveryRunning", "SettingsModal", "SettingsOpenWith", "DiskCleanupModal", "XtaskModal", "Parameters", "Output", "XtaskInput", "Runs", "Events", "TestDetailsModal", "TestStackSampleModal", "CustomRunModal", "CustomRunInput", "OutputSearchInline", "OutputSearchModal"}
  <2>1. /\ \A pane \in Panes : search[pane] \in {"off", "inline", "modal"}
        /\ {"Xtask", "TestEvents", "TestStackSample"} \subseteq Panes
        /\ xtasks.focus \in {"Parameters", "Output"} /\ events.focus \in {"Runs", "Events"}
        /\ custom \in {"closed", "open", "editing"}
    BY DEF TypeOK, Panes
  <2>2. XtasksMode \in {"OutputSearchInline", "OutputSearchModal", "XtaskInput", "XtaskModal",
                       "Parameters", "Output"}
    BY <2>1 DEF XtasksMode, SearchMode
  <2>3. EventsMode \in {"OutputSearchInline", "OutputSearchModal", "Runs", "Events"}
    BY <2>1 DEF EventsMode, SearchMode
  <2>4. DetailsMode \in {"OutputSearchInline", "OutputSearchModal", "TestStackSampleModal",
                        "TestDetailsModal", "CustomRunModal", "CustomRunInput"}
    BY <2>1 DEF DetailsMode, SearchMode, CustomMode
  <2>5. NormalMode \in {"NormalTests", "NormalOutput"}
    BY DEF NormalMode
  <2>6. Overlay \in {"Settings", "DiskCleanup", "Xtasks", "TestEvents", "OutputSearch",
                    "TestDetails", "Discovery", "DiscoveryError", None}
    BY OverlayIs
  <2>7. CASE Overlay \in {"Xtasks", "TestEvents", "TestDetails"}
    BY <2>2, <2>3, <2>4, <2>7 DEF Mode, None
  <2>8. CASE Overlay \notin {"Xtasks", "TestEvents", "TestDetails"}
    BY <2>5, <2>6, <2>8 DEF Mode, None
  <2> QED
    BY <2>7, <2>8
<1> QED
  BY <1>m, <1>1, <1>2, <1>3, <1>4, <1>5, <1>6, <1>7, <1>8, <1>9, <1>10, <1>11, <1>12, <1>13, <1>14, <1>15, <1>16, <1>17, <1>18

(* Every command keeps the screen in order.                               *)
LEMMA ApplyKeeps ==
  ASSUME SInv, NEW command \in Commands(Mode), Apply(command)
  PROVE  SInv'
<1> USE DEF SInv, TypeOK, Panes, NothingWaitsBehind, SampleIsOfItsTitle, SampleSearchIsShown,
            DiscoveryAndRunExclude, Stranded, Alone, Clear, XtasksOnTop, EventsOnTop,
            DetailsOnTop, None, Branch, ElseUnchanged, overlays, work
<1>a. GivenWhere(command)
  BY CommandIs
<1> USE DEF GivenWhere
<1>1. CASE command = "Quit" /\ Quit
  BY <1>a, <1>1 DEF Quit
<1>2. CASE command = "ToggleFocus" /\ ToggleFocus
  BY <1>a, <1>2 DEF ToggleFocus
<1>3. CASE command = "Move" /\ Move
  BY <1>a, <1>3 DEF Move
<1>4. CASE command = "RefreshTests" /\ RefreshTests
  <2>1. TypeOK'
    <3>1. events' \in [open : BOOLEAN, focus : {"Runs", "Events"}]
      BY <1>4 DEF RefreshTests, BeginDiscovery, Closed
    <3>2. search' \in [Panes -> {"off", "inline", "modal"}]
      BY <1>4 DEF RefreshTests, BeginDiscovery, Closed
    <3>3. details' \in BOOLEAN
      BY <1>4 DEF RefreshTests, BeginDiscovery, Closed
    <3> QED
      BY <3>1, <3>2, <3>3, <1>4 DEF RefreshTests, BeginDiscovery, Closed
  <2>2. (NothingWaitsBehind /\ SampleIsOfItsTitle)'
    BY <1>a, <1>4 DEF RefreshTests, BeginDiscovery, Closed
  <2>3. (SampleSearchIsShown /\ DiscoveryAndRunExclude)'
    BY <1>a, <1>4 DEF RefreshTests, BeginDiscovery, Closed
  <2>4. ~Stranded' => ~Stranded
    BY <1>a, <1>4 DEF RefreshTests, BeginDiscovery, Closed
  <2>5. ~Stranded => Alone'
    BY <1>a, <1>4 DEF RefreshTests, BeginDiscovery, Closed
  <2> QED
    BY <2>1, <2>2, <2>3, <2>4, <2>5
<1>5. CASE command = "RunSelected" /\ RunSelected
  BY <1>a, <1>5 DEF RunSelected, StartRun
<1>6. CASE command = "ActivateSelected" /\ ActivateSelected
  BY <1>a, <1>6 DEF ActivateSelected
<1>7. CASE command = "CloseTestDetails" /\ CloseTestDetails
  <2>1. TypeOK'
    <3>1. sample' \in [open : BOOLEAN, running : BOOLEAN,
                        title : Tests \cup {None}, text : Tests \cup {None}]
      BY <1>7 DEF CloseTestDetails, Closed
    <3>2. search' \in [Panes -> {"off", "inline", "modal"}]
      BY <1>7 DEF CloseTestDetails, Closed
    <3>3. details' \in BOOLEAN
      BY <1>7 DEF CloseTestDetails, Closed
    <3> QED
      BY <3>1, <3>2, <3>3, <1>7 DEF CloseTestDetails, Closed
  <2>2. (NothingWaitsBehind /\ SampleIsOfItsTitle)'
    BY <1>a, <1>7 DEF CloseTestDetails, Closed
  <2>3. (SampleSearchIsShown /\ DiscoveryAndRunExclude)'
    BY <1>a, <1>7 DEF CloseTestDetails, Closed
  <2>4. ~Stranded' => ~Stranded
    BY <1>a, <1>7 DEF CloseTestDetails, Closed
  <2>5. ~Stranded => Alone'
    BY <1>a, <1>7 DEF CloseTestDetails, Closed
  <2> QED
    BY <2>1, <2>2, <2>3, <2>4, <2>5
<1>8. CASE command = "OpenCustomRun" /\ OpenCustomRun
  BY <1>a, <1>8 DEF OpenCustomRun, SetCustom
<1>9. CASE command = "CustomRunActivate" /\ CustomRunActivate
  BY <1>a, <1>9 DEF CustomRunActivate, SetCustom
<1>10. CASE command \in {"CommitCustomRunEdit", "CancelCustomRunEdit"} /\ CustomRunEditEnds
  BY <1>a, <1>10 DEF CustomRunEditEnds, SetCustom
<1>11. CASE command = "CloseCustomRun" /\ CloseCustomRun
  BY <1>a, <1>11 DEF CloseCustomRun, SetCustom
<1>12. CASE command = "RunCustom" /\ RunCustom
  <2>1. TypeOK'
    <3>1. details' \in BOOLEAN
      BY <1>12 DEF RunCustom, StartRun
    <3>2. running' \in BOOLEAN
      BY <1>12 DEF RunCustom, StartRun
    <3> QED
      BY <3>1, <3>2, <1>12 DEF RunCustom, StartRun
  <2>2. (NothingWaitsBehind /\ SampleIsOfItsTitle)'
    BY <1>a, <1>12 DEF RunCustom, StartRun
  <2>3. (SampleSearchIsShown /\ DiscoveryAndRunExclude)'
    BY <1>a, <1>12 DEF RunCustom, StartRun
  <2>4. ~Stranded' => ~Stranded
    BY <1>a, <1>12 DEF RunCustom, StartRun
  <2>5. ~Stranded => Alone'
    BY <1>a, <1>12 DEF RunCustom, StartRun
  <2> QED
    BY <2>1, <2>2, <2>3, <2>4, <2>5
<1>13. CASE command = "SampleTestStacks" /\ SampleTestStacks
  <2>1. CASE ShowSample
    <3>1. /\ sample'.open = TRUE /\ sample'.running = sample.running /\ sample'.title = sample.title
          /\ sample'.text = sample.text /\ details' = TRUE /\ asked' = asked
          /\ sample' \in [open : BOOLEAN, running : BOOLEAN,
                         title : Tests \cup {None}, text : Tests \cup {None}]
      BY <2>1 DEF ShowSample
    <3> HIDE DEF ShowSample
    <3> QED
      BY <1>a, <1>13, <3>1 DEF SampleTestStacks, SampleLeaves
  <2>2. CASE AskSample /\ ~sample.running /\ selection \in testing
    <3>1. asked = {} /\ selection \in Tests
      BY <2>2
    <3>2. /\ sample'.open = TRUE /\ sample'.running = TRUE /\ sample'.title = selection
          /\ sample'.text = None /\ details' = details /\ asked' = {selection}
          /\ sample' \in [open : BOOLEAN, running : BOOLEAN,
                         title : Tests \cup {None}, text : Tests \cup {None}]
      BY <2>2, <3>1 DEF AskSample
    <3> QED
      BY <1>a, <1>13, <3>1, <3>2 DEF SampleTestStacks, SampleLeaves
  <2> QED
    BY <1>13, <2>1, <2>2 DEF SampleTestStacks
<1>14. CASE command = "CloseTestStackSample" /\ CloseTestStackSample
  <2>1. TypeOK'
    <3>1. sample' \in [open : BOOLEAN, running : BOOLEAN,
                        title : Tests \cup {None}, text : Tests \cup {None}]
      BY <1>14 DEF CloseTestStackSample, Closed
    <3>2. search' \in [Panes -> {"off", "inline", "modal"}]
      BY <1>14 DEF CloseTestStackSample, Closed
    <3> QED
      BY <3>1, <3>2, <1>14 DEF CloseTestStackSample, Closed
  <2>2. (NothingWaitsBehind /\ SampleIsOfItsTitle)'
    BY <1>a, <1>14 DEF CloseTestStackSample, Closed
  <2>3. (SampleSearchIsShown /\ DiscoveryAndRunExclude)'
    BY <1>a, <1>14 DEF CloseTestStackSample, Closed
  <2>4. ~Stranded' => ~Stranded
    BY <1>a, <1>14 DEF CloseTestStackSample, Closed
  <2>5. ~Stranded => Alone'
    BY <1>a, <1>14 DEF CloseTestStackSample, Closed
  <2> QED
    BY <2>1, <2>2, <2>3, <2>4, <2>5
<1>15. CASE command \in {"OpenSettings", "CommitOpenWithSetting", "CancelOpenWithSetting"} /\ SetSettings("open")
  BY <1>a, <1>15 DEF SetSettings
<1>16. CASE command = "SettingsActivate" /\ SetSettings("editing")
  BY <1>a, <1>16 DEF SetSettings
<1>17. CASE command = "CloseSettings" /\ SetSettings("closed")
  BY <1>a, <1>17 DEF SetSettings
<1>18. CASE command = "OpenDiskCleanup" /\ SetCleanup(TRUE)
  BY <1>a, <1>18 DEF SetCleanup
<1>19. CASE command = "CloseDiskCleanup" /\ SetCleanup(FALSE)
  <2>1. TypeOK'
    <3>1. cleanup' \in BOOLEAN
      BY <1>19 DEF SetCleanup
    <3> QED
      BY <3>1, <1>19 DEF SetCleanup
  <2>2. (NothingWaitsBehind /\ SampleIsOfItsTitle)'
    BY <1>a, <1>19 DEF SetCleanup
  <2>3. (SampleSearchIsShown /\ DiscoveryAndRunExclude)'
    BY <1>a, <1>19 DEF SetCleanup
  <2>4. ~Stranded' => ~Stranded
    BY <1>a, <1>19 DEF SetCleanup
  <2>5. ~Stranded => Alone'
    BY <1>a, <1>19 DEF SetCleanup
  <2> QED
    BY <2>1, <2>2, <2>3, <2>4, <2>5
<1>20. CASE command = "OpenTestEvents" /\ OpenTestEvents
  BY <1>a, <1>20 DEF OpenTestEvents, SetEvents
<1>21. CASE command = "CloseTestEvents" /\ CloseTestEvents
  <2>1. TypeOK'
    <3>1. events' \in [open : BOOLEAN, focus : {"Runs", "Events"}]
      BY <1>21 DEF CloseTestEvents, SetEvents, Closed
    <3>2. search' \in [Panes -> {"off", "inline", "modal"}]
      BY <1>21 DEF CloseTestEvents, SetEvents, Closed
    <3> QED
      BY <3>1, <3>2, <1>21 DEF CloseTestEvents, SetEvents, Closed
  <2>2. (NothingWaitsBehind /\ SampleIsOfItsTitle)'
    BY <1>a, <1>21 DEF CloseTestEvents, SetEvents, Closed
  <2>3. (SampleSearchIsShown /\ DiscoveryAndRunExclude)'
    BY <1>a, <1>21 DEF CloseTestEvents, SetEvents, Closed
  <2>4. ~Stranded' => ~Stranded
    BY <1>a, <1>21 DEF CloseTestEvents, SetEvents, Closed
  <2>5. ~Stranded => Alone'
    BY <1>a, <1>21 DEF CloseTestEvents, SetEvents, Closed
  <2> QED
    BY <2>1, <2>2, <2>3, <2>4, <2>5
<1>22. CASE command = "ToggleTestEventsFocus" /\ ToggleTestEventsFocus
  BY <1>a, <1>22 DEF ToggleTestEventsFocus, SetEvents
<1>23. CASE command = "OpenXtasks" /\ OpenXtasks
  <2>1. TypeOK'
    <3>1. xtasks' \in [open : BOOLEAN, detail : BOOLEAN, editing : BOOLEAN,
                         focus : {"Parameters", "Output"}, manifest : BOOLEAN, loading : BOOLEAN]
      BY <1>23 DEF OpenXtasks, SetXtasks
    <3> QED
      BY <3>1, <1>23 DEF OpenXtasks, SetXtasks
  <2>2. (NothingWaitsBehind /\ SampleIsOfItsTitle)'
    BY <1>a, <1>23 DEF OpenXtasks, SetXtasks
  <2>3. (SampleSearchIsShown /\ DiscoveryAndRunExclude)'
    BY <1>a, <1>23 DEF OpenXtasks, SetXtasks
  <2>4. ~Stranded' => ~Stranded
    BY <1>a, <1>23 DEF OpenXtasks, SetXtasks
  <2>5. ~Stranded => Alone'
    BY <1>a, <1>23 DEF OpenXtasks, SetXtasks
  <2> QED
    BY <2>1, <2>2, <2>3, <2>4, <2>5
<1>24. CASE command = "CloseXtasks" /\ CloseXtasks
  <2>1. TypeOK'
    <3>1. xtasks' \in [open : BOOLEAN, detail : BOOLEAN, editing : BOOLEAN,
                         focus : {"Parameters", "Output"}, manifest : BOOLEAN, loading : BOOLEAN]
      BY <1>24 DEF CloseXtasks, SetXtasks, Detail, Closed
    <3>2. search' \in [Panes -> {"off", "inline", "modal"}]
      BY <1>24 DEF CloseXtasks, SetXtasks, Detail, Closed
    <3> QED
      BY <3>1, <3>2, <1>24 DEF CloseXtasks, SetXtasks, Detail, Closed
  <2>2. (NothingWaitsBehind /\ SampleIsOfItsTitle)'
    BY <1>a, <1>24 DEF CloseXtasks, SetXtasks, Detail, Closed
  <2>3. (SampleSearchIsShown /\ DiscoveryAndRunExclude)'
    BY <1>a, <1>24 DEF CloseXtasks, SetXtasks, Detail, Closed
  <2>4. ~Stranded' => ~Stranded
    BY <1>a, <1>24 DEF CloseXtasks, SetXtasks, Detail, Closed
  <2>5. ~Stranded => Alone'
    BY <1>a, <1>24 DEF CloseXtasks, SetXtasks, Detail, Closed
  <2> QED
    BY <2>1, <2>2, <2>3, <2>4, <2>5
<1>25. CASE command = "RefreshXtasks" /\ RefreshXtasks
  <2>1. TypeOK'
    <3>1. xtasks' \in [open : BOOLEAN, detail : BOOLEAN, editing : BOOLEAN,
                         focus : {"Parameters", "Output"}, manifest : BOOLEAN, loading : BOOLEAN]
      BY <1>25 DEF RefreshXtasks, SetXtasks, Detail, Closed
    <3>2. search' \in [Panes -> {"off", "inline", "modal"}]
      BY <1>25 DEF RefreshXtasks, SetXtasks, Detail, Closed
    <3> QED
      BY <3>1, <3>2, <1>25 DEF RefreshXtasks, SetXtasks, Detail, Closed
  <2>2. (NothingWaitsBehind /\ SampleIsOfItsTitle)'
    BY <1>a, <1>25 DEF RefreshXtasks, SetXtasks, Detail, Closed
  <2>3. (SampleSearchIsShown /\ DiscoveryAndRunExclude)'
    BY <1>a, <1>25 DEF RefreshXtasks, SetXtasks, Detail, Closed
  <2>4. ~Stranded' => ~Stranded
    BY <1>a, <1>25 DEF RefreshXtasks, SetXtasks, Detail, Closed
  <2>5. ~Stranded => Alone'
    BY <1>a, <1>25 DEF RefreshXtasks, SetXtasks, Detail, Closed
  <2> QED
    BY <2>1, <2>2, <2>3, <2>4, <2>5
<1>26. CASE command = "OpenSelectedXtask" /\ OpenSelectedXtask
  <2>1. TypeOK'
    <3>1. xtasks' \in [open : BOOLEAN, detail : BOOLEAN, editing : BOOLEAN,
                         focus : {"Parameters", "Output"}, manifest : BOOLEAN, loading : BOOLEAN]
      BY <1>26 DEF OpenSelectedXtask, SetXtasks, Detail, Closed
    <3>2. search' \in [Panes -> {"off", "inline", "modal"}]
      BY <1>26 DEF OpenSelectedXtask, SetXtasks, Detail, Closed
    <3> QED
      BY <3>1, <3>2, <1>26 DEF OpenSelectedXtask, SetXtasks, Detail, Closed
  <2>2. (NothingWaitsBehind /\ SampleIsOfItsTitle)'
    BY <1>a, <1>26 DEF OpenSelectedXtask, SetXtasks, Detail, Closed
  <2>3. (SampleSearchIsShown /\ DiscoveryAndRunExclude)'
    BY <1>a, <1>26 DEF OpenSelectedXtask, SetXtasks, Detail, Closed
  <2>4. ~Stranded' => ~Stranded
    BY <1>a, <1>26 DEF OpenSelectedXtask, SetXtasks, Detail, Closed
  <2>5. ~Stranded => Alone'
    BY <1>a, <1>26 DEF OpenSelectedXtask, SetXtasks, Detail, Closed
  <2> QED
    BY <2>1, <2>2, <2>3, <2>4, <2>5
<1>27. CASE command = "CloseXtaskDetails" /\ CloseXtaskDetails
  <2>1. TypeOK'
    <3>1. xtasks' \in [open : BOOLEAN, detail : BOOLEAN, editing : BOOLEAN,
                         focus : {"Parameters", "Output"}, manifest : BOOLEAN, loading : BOOLEAN]
      BY <1>27 DEF CloseXtaskDetails, SetXtasks, Detail, Closed
    <3>2. search' \in [Panes -> {"off", "inline", "modal"}]
      BY <1>27 DEF CloseXtaskDetails, SetXtasks, Detail, Closed
    <3> QED
      BY <3>1, <3>2, <1>27 DEF CloseXtaskDetails, SetXtasks, Detail, Closed
  <2>2. (NothingWaitsBehind /\ SampleIsOfItsTitle)'
    BY <1>a, <1>27 DEF CloseXtaskDetails, SetXtasks, Detail, Closed
  <2>3. (SampleSearchIsShown /\ DiscoveryAndRunExclude)'
    BY <1>a, <1>27 DEF CloseXtaskDetails, SetXtasks, Detail, Closed
  <2>4. ~Stranded' => ~Stranded
    BY <1>a, <1>27 DEF CloseXtaskDetails, SetXtasks, Detail, Closed
  <2>5. ~Stranded => Alone'
    BY <1>a, <1>27 DEF CloseXtaskDetails, SetXtasks, Detail, Closed
  <2> QED
    BY <2>1, <2>2, <2>3, <2>4, <2>5
<1>28. CASE command = "ToggleXtaskDetailFocus" /\ ToggleXtaskDetailFocus
  BY <1>a, <1>28 DEF ToggleXtaskDetailFocus, SetXtasks
<1>29. CASE command = "XtaskActivateArg" /\ XtaskActivateArg
  <2>1. TypeOK'
    <3>1. xtasks' \in [open : BOOLEAN, detail : BOOLEAN, editing : BOOLEAN,
                         focus : {"Parameters", "Output"}, manifest : BOOLEAN, loading : BOOLEAN]
      BY <1>29 DEF XtaskActivateArg, SetXtasks
    <3> QED
      BY <3>1, <1>29 DEF XtaskActivateArg, SetXtasks
  <2>2. (NothingWaitsBehind /\ SampleIsOfItsTitle)'
    BY <1>a, <1>29 DEF XtaskActivateArg, SetXtasks
  <2>3. (SampleSearchIsShown /\ DiscoveryAndRunExclude)'
    BY <1>a, <1>29 DEF XtaskActivateArg, SetXtasks
  <2>4. ~Stranded' => ~Stranded
    BY <1>a, <1>29 DEF XtaskActivateArg, SetXtasks
  <2>5. ~Stranded => Alone'
    BY <1>a, <1>29 DEF XtaskActivateArg, SetXtasks
  <2> QED
    BY <2>1, <2>2, <2>3, <2>4, <2>5
<1>30. CASE command \in {"CommitXtaskEdit", "CancelXtaskEdit"} /\ XtaskEditEnds
  <2>1. TypeOK'
    <3>1. xtasks' \in [open : BOOLEAN, detail : BOOLEAN, editing : BOOLEAN,
                         focus : {"Parameters", "Output"}, manifest : BOOLEAN, loading : BOOLEAN]
      BY <1>30 DEF XtaskEditEnds, SetXtasks
    <3> QED
      BY <3>1, <1>30 DEF XtaskEditEnds, SetXtasks
  <2>2. (NothingWaitsBehind /\ SampleIsOfItsTitle)'
    BY <1>a, <1>30 DEF XtaskEditEnds, SetXtasks
  <2>3. (SampleSearchIsShown /\ DiscoveryAndRunExclude)'
    BY <1>a, <1>30 DEF XtaskEditEnds, SetXtasks
  <2>4. ~Stranded' => ~Stranded
    BY <1>a, <1>30 DEF XtaskEditEnds, SetXtasks
  <2>5. ~Stranded => Alone'
    BY <1>a, <1>30 DEF XtaskEditEnds, SetXtasks
  <2> QED
    BY <2>1, <2>2, <2>3, <2>4, <2>5
<1>31. CASE command = "StartOutputSearch" /\ StartOutputSearch
  BY <1>a, <1>31 DEF StartOutputSearch, SetSearch, ActivePane
<1>32. CASE command = "OpenOutputSearchModal" /\ OpenOutputSearchModal
  BY <1>a, <1>32 DEF OpenOutputSearchModal, SetSearch, ActivePane, SearchOnTop
<1>33. CASE command \in {"ApplyOutputSearch", "CancelOutputSearch"} /\ SearchEnds
  BY <1>a, <1>33 DEF SearchEnds, SetSearch, ActivePane, SearchOnTop
<1> QED
  BY <1>1, <1>2, <1>3, <1>4, <1>5, <1>6, <1>7, <1>8, <1>9, <1>10, <1>11, <1>12, <1>13,
     <1>14, <1>15, <1>16, <1>17, <1>18, <1>19, <1>20, <1>21, <1>22, <1>23, <1>24, <1>25,
     <1>26, <1>27, <1>28, <1>29, <1>30, <1>31, <1>32, <1>33 DEF Apply

(* So does every answer, and what a run reports.                           *)
LEMMA AnswersKeep ==
  ASSUME SInv, DiscoveryFinished \/ InfoLoaded \/ SampleAnswers \/ RunGoesOn
  PROVE  SInv'
<1> USE DEF SInv, TypeOK, Panes, NothingWaitsBehind, SampleIsOfItsTitle, SampleSearchIsShown,
            DiscoveryAndRunExclude, Stranded, Alone, None, Branch, ElseUnchanged, overlays, work
<1>1. CASE DiscoveryFinished
  BY <1>1 DEF DiscoveryFinished
<1>2. CASE InfoLoaded
  <2>1. /\ xtasks' \in [open : BOOLEAN, detail : BOOLEAN, editing : BOOLEAN,
                         focus : {"Parameters", "Output"}, manifest : BOOLEAN, loading : BOOLEAN]
        /\ xtasks'.open = xtasks.open /\ xtasks'.detail = FALSE
    <3>1. CASE xtasks' = [Detail(FALSE) EXCEPT !.loading = FALSE, !.manifest = TRUE]
      BY <3>1 DEF Detail
    <3>2. CASE xtasks' = [xtasks EXCEPT !.loading = FALSE, !.manifest = FALSE, !.detail = FALSE]
      BY <3>2
    <3> QED
      BY <1>2, <3>1, <3>2 DEF InfoLoaded
  <2>2. UNCHANGED <<settings, cleanup, events, details, custom, sample, asked, discovery, running,
                    testing, search, selection, focus, leaving, quit>>
    BY <1>2 DEF InfoLoaded
  <2> QED
    BY <2>1, <2>2
<1>3. CASE SampleAnswers
  <2>1. PICK test \in asked : /\ asked' = asked \ {test}
                              /\ sample' = [sample EXCEPT !.running = FALSE, !.text = test]
    BY <1>3 DEF SampleAnswers
  <2>2. asked = {sample.title} /\ test = sample.title /\ test \in Tests
    OBVIOUS
  <2>3. /\ sample' \in [open : BOOLEAN, running : BOOLEAN,
                        title : Tests \cup {None}, text : Tests \cup {None}]
        /\ sample'.open = sample.open /\ sample'.running = FALSE
        /\ sample'.title = sample.title /\ sample'.text = sample.title
        /\ asked' = {}
    BY <2>1, <2>2
  <2>4. UNCHANGED <<settings, cleanup, xtasks, events, details, custom, discovery,
                    running, testing, search, selection, focus, leaving, quit>>
    BY <1>3 DEF SampleAnswers
  <2> QED
    BY <2>3, <2>4
<1>4. CASE RunGoesOn
  <2>1. testing' \subseteq Tests /\ running' \in BOOLEAN /\ (running' => running)
    BY <1>4 DEF RunGoesOn
  <2>2. UNCHANGED <<settings, cleanup, xtasks, events, details, custom, sample, asked, discovery,
                    search, selection, focus, leaving, quit>>
    BY <1>4 DEF RunGoesOn
  <2> QED
    BY <2>1, <2>2
<1> QED
  BY <1>1, <1>2, <1>3, <1>4

LEMMA SInvInit == Init => SInv
<1> SUFFICES ASSUME Init PROVE SInv
  OBVIOUS
<1>1. TypeOK
  BY DEF Init, TypeOK, Panes, None, Branch
<1> QED
  BY <1>1 DEF Init, SInv, NothingWaitsBehind, SampleIsOfItsTitle, SampleSearchIsShown, Panes,
              DiscoveryAndRunExclude, Stranded, Alone, None, Branch

LEMMA SInvNext == SInv /\ [Next]_vars => SInv'
<1> SUFFICES ASSUME SInv, [Next]_vars PROVE SInv'
  OBVIOUS
<1>1. CASE Press
  BY <1>1, ApplyKeeps DEF Press
<1>2. CASE Leave
  <2>1. PICK command \in WayOut : Apply(command)
    BY <1>2 DEF Leave
  <2>2. command \in Commands(Mode)
    BY DEF WayOut
  <2> QED
    BY <2>1, <2>2, ApplyKeeps
<1>3. CASE Decide \/ Stopped \/ UNCHANGED vars
  <2>1. UNCHANGED <<overlays, work, search, selection, focus, quit>> /\ leaving' \in BOOLEAN
    BY <1>3 DEF Decide, Stopped, vars, SInv, TypeOK
  <2> QED
    BY <2>1 DEF SInv, TypeOK, Panes, NothingWaitsBehind, SampleIsOfItsTitle, SampleSearchIsShown,
                DiscoveryAndRunExclude, Stranded, Alone, overlays, work
<1>4. CASE DiscoveryFinished \/ InfoLoaded \/ SampleAnswers \/ RunGoesOn
  BY <1>4, AnswersKeep
<1> QED
  BY <1>1, <1>2, <1>3, <1>4 DEF Next

LEMMA SInvariance == Spec => []SInv
  BY SInvInit, SInvNext, PTL DEF Spec

(* At most one of the overlays that take the whole keyboard is open.       *)
LEMMA AloneIsOne ==
  ASSUME TypeOK, ~Stranded => Alone
  PROVE  OneOverlay
<1> SUFFICES ASSUME Alone PROVE Cardinality({o \in OpenOverlays : Priority[o] # "DiscoveryError"}) <= 1
  BY DEF OneOverlay, Alone
<1> DEFINE Whole == {o \in OpenOverlays : Priority[o] # "DiscoveryError"}
<1>1. Whole \subseteq 1..7
  BY PriorityIs DEF OpenOverlays
<1>2. \A i, j \in Whole : i = j
  <2> SUFFICES ASSUME NEW i \in Whole, NEW j \in Whole, i < j PROVE FALSE
    BY <1>1
  <2>1. i \in 1..7 /\ j \in 1..7 /\ Open(Priority[i]) /\ Open(Priority[j])
    BY <1>1 DEF OpenOverlays
  <2> QED
    BY <2>1, OpenIs DEF Alone
<1>3. Whole = {} \/ \E i : Whole = {i}
  BY <1>2
<1>4. Cardinality(Whole) \in {0, 1}
  BY <1>3, FS_EmptySet, FS_Singleton
<1> QED
  BY <1>4

(* The pane that a search is written in is the one its commands are about. *)
LEMMA SearchIsWritten ==
  ASSUME SInv
  PROVE  SearchKeysHaveSearch
<1> SUFFICES ASSUME ~Stranded, NEW state \in {"inline", "modal"}, Mode = SearchMode[state]
             PROVE  search[ActivePane] = state
  BY DEF SearchKeysHaveSearch
<1>1. SearchOnTop(state)
  BY ModeIs DEF SearchMode, SInv
<1> QED
  BY <1>1 DEF SearchOnTop, ActivePane, SInv, Alone, Stranded, XtasksOnTop, EventsOnTop, DetailsOnTop,
              Clear, SampleSearchIsShown, NothingWaitsBehind

(* What is on the screen and what takes the keys agree, and the answer of  *)
(* a sampling is that of the test in the title (command_context,           *)
(* apply_command, finish_test_stack_sample).                               *)
THEOREM ScreenIsInOrder == Spec => []ScreenInv
<1>1. SInv => ScreenInv
  BY AloneIsOne, SearchIsWritten DEF SInv, ScreenInv
<1> QED
  BY <1>1, SInvariance, PTL

(* The tests are not read anew while a run reports on them, whichever of   *)
(* the two was asked for first, and from whichever part of the screen.     *)
THEOREM NoReadDuringRun == Spec => []DiscoveryAndRunExclude
<1>1. SInv => DiscoveryAndRunExclude
  BY DEF SInv
<1> QED
  BY <1>1, SInvariance, PTL

-----------------------------------------------------------------------------
(***************************************************************************)
(* The tests tree: its shape, its rows, what its branches tell and the     *)
(* scope of its nodes, for any list of tests.                              *)
(*                                                                         *)
(* The model computes them by functions that are recursive over the tree.  *)
(* For each of them, <Name>At is what it is at a node in terms of what it  *)
(* is elsewhere, <Name>Exists shows that a function is so at every node,   *)
(* since children come after their parents, and <Name>Is or <Name>Are that *)
(* the model's function is.  What such a function means is then shown for  *)
(* the first or the last node at which it would not be so.                 *)
(***************************************************************************)
LEMMA Smallest ==
  ASSUME NEW S, S \subseteq Nat, S # {}
  PROVE  \E n \in S : \A m \in S : n <= m
<1>1. IsWellFoundedOn(OpToRel(<, Nat), Nat)
  BY NatLessThanWellFounded
<1>2. PICK n \in S : \A m \in S : ~(<<m, n>> \in OpToRel(<, Nat))
  BY <1>1, WFMin
<1>3. \A m \in S : m < n => <<m, n>> \in OpToRel(<, Nat)
  BY DEF OpToRel
<1>4. \A m \in S : ~(m < n) => n <= m
  OBVIOUS
<1> QED
  BY <1>2, <1>3, <1>4

LEMMA Greatest ==
  ASSUME NEW n \in Nat, NEW S, S \subseteq 1..n, S # {}
  PROVE  \E m \in S : \A k \in S : k <= m
<1> DEFINE D == {n - k : k \in S}
<1>1. D \subseteq Nat /\ D # {}
  <2>1. \A k \in S : n - k \in Nat
    OBVIOUS
  <2> QED
    BY <2>1
<1>2. PICK d \in D : \A e \in D : d <= e
  <2> HIDE DEF D
  <2> QED
    BY <1>1, Smallest
<1>3. PICK m \in S : d = n - m
  OBVIOUS
<1>4. \A k \in S : d <= n - k
  BY <1>2
<1>5. \A k \in S : k <= m
  BY <1>3, <1>4
<1> QED
  BY <1>5

LEMMA MinIs ==
  ASSUME NEW S, S \subseteq Nat, S # {}
  PROVE  Min(S) \in S /\ \A m \in S : Min(S) <= m
<1>1. \E n \in S : \A m \in S : n <= m
  BY Smallest
<1> QED
  BY <1>1, Zenon DEF Min

LEMMA MaxIs ==
  ASSUME NEW n \in Nat, NEW S, S \subseteq 1..n, S # {}
  PROVE  Max(S) \in S /\ \A m \in S : m <= Max(S)
<1>1. \E m \in S : \A k \in S : k <= m
  BY Greatest
<1>2. \A m \in S, k \in S : k <= m <=> m >= k
  OBVIOUS
<1>3. \E m \in S : \A k \in S : m >= k
  BY <1>1, <1>2
<1>4. Max(S) \in S /\ \A m \in S : Max(S) >= m
  BY <1>3, Zenon DEF Max
<1> QED
  BY <1>2, <1>4

-----------------------------------------------------------------------------
(* The shape of a tree: the root is first, and every other node comes      *)
(* after its parent.                                                       *)
Kinds == {"Workspace", "Package", "Binary", "Module", "Test"}
Node == [parent : Nat, label : STRING \union {"workspace"}, kind : Kinds, path : Seq(STRING),
         test : TestId \union {<<>>}]

Shape(tree) ==
  /\ tree \in Seq(Node) /\ Len(tree) >= 1
  /\ tree[1].kind = "Workspace" /\ tree[1].parent = 0
  /\ \A i \in 2..Len(tree) : tree[i].parent \in 1..(i - 1) /\ tree[i].kind # "Workspace"

LEMMA ShapeIs ==
  ASSUME NEW tree, Shape(tree)
  PROVE  /\ Len(tree) \in Nat \ {0} /\ DOMAIN tree = 1..Len(tree) /\ 1 \in DOMAIN tree
         /\ \A i \in DOMAIN tree : i \in Nat /\ tree[i] \in Node
         /\ \A i, j \in Nat : j \in ChildrenIn(tree, i) => j > i /\ j \in DOMAIN tree
         /\ \A i \in DOMAIN tree \ {1} : /\ tree[i].parent \in DOMAIN tree /\ tree[i].parent < i
                                         /\ i \in ChildrenIn(tree, tree[i].parent)
<1> USE DEF Shape
<1>1. Len(tree) \in Nat \ {0} /\ DOMAIN tree = 1..Len(tree) /\ 1 \in DOMAIN tree
  OBVIOUS
<1>2. \A i \in DOMAIN tree : i \in Nat /\ tree[i] \in Node
  OBVIOUS
<1>3. \A i \in DOMAIN tree \ {1} : tree[i].parent \in DOMAIN tree /\ tree[i].parent < i
  BY <1>1
<1>4. \A i, j \in Nat : j \in ChildrenIn(tree, i) => j > i /\ j \in DOMAIN tree
  <2> SUFFICES ASSUME NEW i \in Nat, NEW j \in Nat, j \in ChildrenIn(tree, i)
               PROVE  j > i /\ j \in DOMAIN tree
    OBVIOUS
  <2>1. j \in DOMAIN tree /\ tree[j].parent = i
    BY DEF ChildrenIn
  <2> QED
    BY <1>1, <1>3, <2>1
<1> QED
  BY <1>1, <1>2, <1>3, <1>4 DEF ChildrenIn

(* A recursion over the children has a solution.                           *)
StatusAt(tree, st, f, i) ==
  IF tree[i].kind = "Test" THEN st[i] ELSE MergeStatus({f[j] : j \in ChildrenIn(tree, i)})
StatusStage(tree, st, f) == [i \in Nat |-> StatusAt(tree, st, f, i)]

LEMMA StatusExists ==
  ASSUME NEW tree, Shape(tree), NEW st
  PROVE  \E f : f = StatusStage(tree, st, f)
<1> DEFINE G(f, i) == StatusAt(tree, st, f, i)
           Upto(m) == \E f : f = [i \in Nat |-> f[i]] /\ \A i \in Nat : i >= m => f[i] = G(f, i)
           good == {m \in Nat : Upto(m)}
<1>0. \A f, g, i : (\A j \in ChildrenIn(tree, i) : f[j] = g[j]) => G(f, i) = G(g, i)
  <2> SUFFICES ASSUME NEW f, NEW g, NEW i, \A j \in ChildrenIn(tree, i) : f[j] = g[j]
               PROVE  G(f, i) = G(g, i)
    OBVIOUS
  <2>1. {f[j] : j \in ChildrenIn(tree, i)} = {g[j] : j \in ChildrenIn(tree, i)}
    OBVIOUS
  <2> QED
    BY <2>1 DEF StatusAt
<1>s. \A i, j \in Nat : j \in ChildrenIn(tree, i) => j > i /\ j \in DOMAIN tree
  BY ShapeIs
<1>n. Len(tree) \in Nat /\ DOMAIN tree = 1..Len(tree) /\ \A i : ChildrenIn(tree, i) \subseteq DOMAIN tree
  BY ShapeIs DEF ChildrenIn
<1> HIDE DEF G
<1>1. Len(tree) + 1 \in good
  <2> DEFINE h == [i \in Nat |-> G(<<>>, i)]
  <2>1. \A i \in Nat : i >= Len(tree) + 1 => h[i] = G(h, i)
    <3> SUFFICES ASSUME NEW i \in Nat, i >= Len(tree) + 1
                 PROVE  G(<<>>, i) = G(h, i)
      OBVIOUS
    <3>1. ChildrenIn(tree, i) = {}
      BY <1>s, <1>n
    <3> QED
      BY <1>0, <3>1
  <2>2. h = [i \in Nat |-> h[i]]
    OBVIOUS
  <2> HIDE DEF h
  <2>3. Upto(Len(tree) + 1)
    BY <2>1, <2>2
  <2> QED
    BY <1>n, <2>3
<1>2. PICK m \in good : \A k \in good : m <= k
  <2>1. good \subseteq Nat /\ good # {}
    BY <1>1
  <2> HIDE DEF good
  <2> QED
    BY <2>1, Smallest
<1>3. PICK f : f = [i \in Nat |-> f[i]] /\ \A i \in Nat : i >= m => f[i] = G(f, i)
  OBVIOUS
<1>4. m = 0
  <2> SUFFICES ASSUME m # 0
               PROVE  FALSE
    OBVIOUS
  <2>1. m - 1 \in Nat /\ m \in Nat /\ ~(m <= m - 1)
    OBVIOUS
  <2> DEFINE h == [i \in Nat |-> IF i = m - 1 THEN G(f, i) ELSE f[i]]
  <2>2. \A i \in Nat : i >= m - 1 => h[i] = G(h, i)
    <3> SUFFICES ASSUME NEW i \in Nat, i >= m - 1
                 PROVE  h[i] = G(h, i)
      OBVIOUS
    <3>1. \A j \in ChildrenIn(tree, i) : f[j] = h[j]
      BY <1>s, <1>n, <2>1
    <3>2. G(h, i) = G(f, i)
      <4> HIDE DEF h
      <4> QED
        BY <1>0, <3>1
    <3>3. h[i] = G(f, i)
      BY <1>3, <2>1
    <3> QED
      BY <3>2, <3>3
  <2>3. h = [i \in Nat |-> h[i]]
    OBVIOUS
  <2> HIDE DEF h
  <2>4. m - 1 \in good
    BY <2>1, <2>2, <2>3
  <2> QED
    BY <1>2, <2>1, <2>4
<1>5. f = [i \in Nat |-> G(f, i)]
  <2>1. \A i \in Nat : f[i] = G(f, i)
    BY <1>3, <1>4
  <2>2. [i \in Nat |-> f[i]] = [i \in Nat |-> G(f, i)]
    BY <2>1
  <2> QED
    BY <1>3, <2>2
<1> QED
  BY <1>5, Zenon DEF G, StatusStage

LEMMA StatusIs ==
  ASSUME Shape(nodes)
  PROVE  \A i \in Nodes : StatusOf[i] = IF nodes[i].kind = "Test" THEN status[i]
                                       ELSE MergeStatus({StatusOf[j] : j \in ChildrenIn(nodes, i)})
<1> DEFINE s == CHOOSE f : f = StatusStage(nodes, status, f)
<1>1. s = StatusStage(nodes, status, s)
  BY StatusExists, Zenon
<1>2. StatusOf = s
  BY DEF StatusOf, StatusStage, StatusAt
<1> HIDE DEF s
<1>3. \A i \in Nodes : i \in Nat
  BY ShapeIs DEF Nodes
<1>4. \A i \in Nat : s[i] = StatusAt(nodes, status, s, i)
  BY <1>1, Zenon DEF StatusStage
<1> QED
  BY <1>2, <1>3, <1>4, Zenon DEF StatusAt

-----------------------------------------------------------------------------
VisibleAt(tree, st, hid, f, i) ==
  IF tree[i].kind = "Test" THEN st[i] \notin hid ELSE \E j \in ChildrenIn(tree, i) : f[j]
VisibleStage(tree, st, hid, f) == [i \in Nat |-> VisibleAt(tree, st, hid, f, i)]

LEMMA VisibleExists ==
  ASSUME NEW tree, Shape(tree), NEW st, NEW hid
  PROVE  \E f : f = VisibleStage(tree, st, hid, f)
<1> DEFINE G(f, i) == VisibleAt(tree, st, hid, f, i)
           Upto(m) == \E f : f = [i \in Nat |-> f[i]] /\ \A i \in Nat : i >= m => f[i] = G(f, i)
           good == {m \in Nat : Upto(m)}
<1>0. \A f, g, i : (\A j \in ChildrenIn(tree, i) : f[j] = g[j]) => G(f, i) = G(g, i)
  <2> SUFFICES ASSUME NEW f, NEW g, NEW i, \A j \in ChildrenIn(tree, i) : f[j] = g[j]
               PROVE  G(f, i) = G(g, i)
    OBVIOUS
  <2> QED
    BY Zenon DEF VisibleAt
<1>s. \A i, j \in Nat : j \in ChildrenIn(tree, i) => j > i /\ j \in DOMAIN tree
  BY ShapeIs
<1>n. Len(tree) \in Nat /\ DOMAIN tree = 1..Len(tree) /\ \A i : ChildrenIn(tree, i) \subseteq DOMAIN tree
  BY ShapeIs DEF ChildrenIn
<1> HIDE DEF G
<1>1. Len(tree) + 1 \in good
  <2> DEFINE h == [i \in Nat |-> G(<<>>, i)]
  <2>1. \A i \in Nat : i >= Len(tree) + 1 => h[i] = G(h, i)
    <3> SUFFICES ASSUME NEW i \in Nat, i >= Len(tree) + 1
                 PROVE  G(<<>>, i) = G(h, i)
      OBVIOUS
    <3>1. ChildrenIn(tree, i) = {}
      BY <1>s, <1>n
    <3> QED
      BY <1>0, <3>1
  <2>2. h = [i \in Nat |-> h[i]]
    OBVIOUS
  <2> HIDE DEF h
  <2>3. Upto(Len(tree) + 1)
    BY <2>1, <2>2
  <2> QED
    BY <1>n, <2>3
<1>2. PICK m \in good : \A k \in good : m <= k
  <2>1. good \subseteq Nat /\ good # {}
    BY <1>1
  <2> HIDE DEF good
  <2> QED
    BY <2>1, Smallest
<1>3. PICK f : f = [i \in Nat |-> f[i]] /\ \A i \in Nat : i >= m => f[i] = G(f, i)
  OBVIOUS
<1>4. m = 0
  <2> SUFFICES ASSUME m # 0
               PROVE  FALSE
    OBVIOUS
  <2>1. m - 1 \in Nat /\ m \in Nat /\ ~(m <= m - 1)
    OBVIOUS
  <2> DEFINE h == [i \in Nat |-> IF i = m - 1 THEN G(f, i) ELSE f[i]]
  <2>2. \A i \in Nat : i >= m - 1 => h[i] = G(h, i)
    <3> SUFFICES ASSUME NEW i \in Nat, i >= m - 1
                 PROVE  h[i] = G(h, i)
      OBVIOUS
    <3>1. \A j \in ChildrenIn(tree, i) : f[j] = h[j]
      BY <1>s, <1>n, <2>1
    <3>2. G(h, i) = G(f, i)
      <4> HIDE DEF h
      <4> QED
        BY <1>0, <3>1
    <3>3. h[i] = G(f, i)
      BY <1>3, <2>1
    <3> QED
      BY <3>2, <3>3
  <2>3. h = [i \in Nat |-> h[i]]
    OBVIOUS
  <2> HIDE DEF h
  <2>4. m - 1 \in good
    BY <2>1, <2>2, <2>3
  <2> QED
    BY <1>2, <2>1, <2>4
<1>5. f = [i \in Nat |-> G(f, i)]
  <2>1. \A i \in Nat : f[i] = G(f, i)
    BY <1>3, <1>4
  <2>2. [i \in Nat |-> f[i]] = [i \in Nat |-> G(f, i)]
    BY <2>1
  <2> QED
    BY <1>3, <2>2
<1> QED
  BY <1>5, Zenon DEF G, VisibleStage

LEMMA VisibleIs ==
  ASSUME Shape(nodes)
  PROVE  \A i \in Nodes :
           HasVisibleTests[i] <=> IF nodes[i].kind = "Test" THEN status[i] \notin hidden
                                  ELSE \E j \in ChildrenIn(nodes, i) : HasVisibleTests[j]
<1> DEFINE s == CHOOSE f : f = VisibleStage(nodes, status, hidden, f)
<1>1. s = VisibleStage(nodes, status, hidden, s)
  BY VisibleExists, Zenon
<1>2. HasVisibleTests = s
  BY DEF HasVisibleTests, VisibleStage, VisibleAt
<1> HIDE DEF s
<1>3. \A i \in Nodes : i \in Nat
  BY ShapeIs DEF Nodes
<1>4. \A i \in Nat : s[i] = VisibleAt(nodes, status, hidden, s, i)
  BY <1>1, Zenon DEF VisibleStage
<1> QED
  BY <1>2, <1>3, <1>4, Zenon DEF VisibleAt

-----------------------------------------------------------------------------
(* The rows of the children of a node, one after the other.                *)
BelowAt(tree, i, rows, g, k) ==
  IF k = 0 THEN <<>> ELSE IF tree[k].parent = i THEN g[k - 1] \o rows[k] ELSE g[k - 1]
BelowStage(tree, i, rows, g) == [k \in 0..Len(tree) |-> BelowAt(tree, i, rows, g, k)]
Below(tree, i, rows) == CHOOSE g : g = BelowStage(tree, i, rows, g)

LEMMA BelowExists ==
  ASSUME NEW tree, NEW i, NEW rows, Len(tree) \in Nat
  PROVE  /\ Below(tree, i, rows) = BelowStage(tree, i, rows, Below(tree, i, rows))
         /\ \A k \in 0..Len(tree) :
              Below(tree, i, rows)[k] = BelowAt(tree, i, rows, Below(tree, i, rows), k)
<1> DEFINE n == Len(tree)
           G(g, k) == BelowAt(tree, i, rows, g, k)
           Upto(m) == \E g : g = [k \in 0..n |-> g[k]] /\ \A k \in 0..m : g[k] = G(g, k)
           missing == {m \in 0..n : ~Upto(m)}
<1>0. \A g, h, k : k # 0 /\ g[k - 1] = h[k - 1] => G(g, k) = G(h, k)
  BY DEF BelowAt
<1>z. \A g, h : G(g, 0) = G(h, 0)
  BY DEF BelowAt
<1> HIDE DEF G, n
<1>n. n \in Nat
  BY DEF n
<1>1. missing = {}
  <2> SUFFICES ASSUME missing # {}
               PROVE  FALSE
    OBVIOUS
  <2>1. PICK m \in missing : \A k \in missing : m <= k
    <3>1. missing \subseteq Nat
      BY <1>n
    <3> HIDE DEF missing
    <3> QED
      BY <3>1, Smallest
  <2>2. m \in 0..n /\ ~Upto(m) /\ m \in Nat
    BY <1>n
  <2>3. m # 0
    <3> DEFINE h == [k \in 0..n |-> G(<<>>, k)]
    <3>1. h = [k \in 0..n |-> h[k]] /\ h[0] = G(<<>>, 0)
      BY <1>n
    <3> HIDE DEF h
    <3>2. \A k \in 0..0 : h[k] = G(h, k)
      BY <1>z, <3>1
    <3> QED
      BY <2>2, <3>1, <3>2
  <2>4. m - 1 \in 0..n /\ ~(m <= m - 1)
    BY <1>n, <2>2, <2>3
  <2>5. Upto(m - 1)
    BY <2>1, <2>4
  <2>6. PICK g : g = [k \in 0..n |-> g[k]] /\ \A k \in 0..(m - 1) : g[k] = G(g, k)
    BY <2>5
  <2> DEFINE h == [k \in 0..n |-> IF k = m THEN G(g, m) ELSE g[k]]
  <2>7. h = [k \in 0..n |-> h[k]]
    OBVIOUS
  <2>8. \A k \in 0..m : h[k] = G(h, k)
    <3> SUFFICES ASSUME NEW k \in 0..m
                 PROVE  h[k] = G(h, k)
      OBVIOUS
    <3>1. h[k] = G(g, k)
      <4>1. CASE k = m
        BY <2>2, <4>1
      <4>2. CASE k # m
        <5>1. k \in 0..(m - 1) /\ k \in 0..n
          BY <1>n, <2>2, <4>2
        <5> QED
          BY <2>6, <4>2, <5>1
      <4> QED
        BY <4>1, <4>2
    <3>2. k # 0 => h[k - 1] = g[k - 1]
      <4> SUFFICES ASSUME k # 0
                   PROVE  h[k - 1] = g[k - 1]
        OBVIOUS
      <4>1. k - 1 \in 0..n /\ k - 1 # m
        BY <1>n, <2>2
      <4> QED
        BY <4>1
    <3> HIDE DEF h
    <3>3. G(h, k) = G(g, k)
      BY <1>0, <1>z, <3>2
    <3> QED
      BY <3>1, <3>3
  <2> HIDE DEF h
  <2>9. Upto(m)
    BY <2>7, <2>8
  <2> QED
    BY <2>2, <2>9
<1>2. Upto(n)
  BY <1>1, <1>n
<1>3. PICK g : g = [k \in 0..n |-> g[k]] /\ \A k \in 0..n : g[k] = G(g, k)
  BY <1>2
<1>4. g = BelowStage(tree, i, rows, g)
  <2>1. [k \in 0..n |-> g[k]] = [k \in 0..n |-> G(g, k)]
    BY <1>3
  <2> QED
    BY <1>3, <2>1, Zenon DEF BelowStage, G, n
<1>5. Below(tree, i, rows) = BelowStage(tree, i, rows, Below(tree, i, rows))
  BY <1>4, Zenon DEF Below
<1> QED
  BY <1>5, Zenon DEF BelowStage

(* Only the rows of the children matter.                                   *)
LEMMA BelowSame ==
  ASSUME NEW tree, Shape(tree), NEW i, NEW f, NEW g, \A j \in ChildrenIn(tree, i) : f[j] = g[j]
  PROVE  Below(tree, i, f)[Len(tree)] = Below(tree, i, g)[Len(tree)]
<1> DEFINE n == Len(tree)
           b == Below(tree, i, f)
           c == Below(tree, i, g)
           differing == {k \in 0..n : b[k] # c[k]}
<1>n. n \in Nat
  BY ShapeIs
<1>1. \A k \in 0..n : b[k] = BelowAt(tree, i, f, b, k) /\ c[k] = BelowAt(tree, i, g, c, k)
  BY BelowExists, <1>n
<1>2. \A k \in 1..n : tree[k].parent = i => f[k] = g[k]
  BY ShapeIs DEF ChildrenIn
<1> HIDE DEF n, b, c
<1>3. differing = {}
  <2> SUFFICES ASSUME differing # {}
               PROVE  FALSE
    OBVIOUS
  <2>1. PICK m \in differing : \A k \in differing : m <= k
    <3>1. differing \subseteq Nat
      BY <1>n
    <3> HIDE DEF differing
    <3> QED
      BY <3>1, Smallest
  <2>2. m \in 0..n /\ b[m] # c[m]
    OBVIOUS
  <2>3. m # 0
    BY <1>1, <2>2 DEF BelowAt
  <2>4. m - 1 \in 0..n /\ m \in 1..n /\ ~(m <= m - 1)
    BY <1>n, <2>2, <2>3
  <2>5. b[m - 1] = c[m - 1]
    BY <2>1, <2>4
  <2> QED
    BY <1>1, <1>2, <2>2, <2>3, <2>4, <2>5, Zenon DEF BelowAt
<1>4. n \in 0..n
  BY <1>n
<1>5. b[n] = c[n]
  BY <1>3, <1>4
<1> QED
  BY <1>5 DEF b, c, n

RowsAt(tree, ex, vis, f, i) ==
  IF ~(i = Root \/ vis[i]) THEN <<>>
  ELSE <<i>> \o IF i \in ex THEN Below(tree, i, f)[Len(tree)] ELSE <<>>
RowsStage(tree, ex, vis, f) == [i \in Nat |-> RowsAt(tree, ex, vis, f, i)]

LEMMA RowsExist ==
  ASSUME NEW tree, Shape(tree), NEW ex, NEW vis
  PROVE  \E f : f = RowsStage(tree, ex, vis, f)
<1> DEFINE G(f, i) == RowsAt(tree, ex, vis, f, i)
           Upto(m) == \E f : f = [i \in Nat |-> f[i]] /\ \A i \in Nat : i >= m => f[i] = G(f, i)
           good == {m \in Nat : Upto(m)}
<1>0. \A f, g, i : (\A j \in ChildrenIn(tree, i) : f[j] = g[j]) => G(f, i) = G(g, i)
  <2> SUFFICES ASSUME NEW f, NEW g, NEW i, \A j \in ChildrenIn(tree, i) : f[j] = g[j]
               PROVE  G(f, i) = G(g, i)
    OBVIOUS
  <2> QED
    BY BelowSame, Zenon DEF RowsAt
<1>s. \A i, j \in Nat : j \in ChildrenIn(tree, i) => j > i /\ j \in DOMAIN tree
  BY ShapeIs
<1>n. Len(tree) \in Nat /\ DOMAIN tree = 1..Len(tree) /\ \A i : ChildrenIn(tree, i) \subseteq DOMAIN tree
  BY ShapeIs DEF ChildrenIn
<1> HIDE DEF G
<1>1. Len(tree) + 1 \in good
  <2> DEFINE h == [i \in Nat |-> G(<<>>, i)]
  <2>1. \A i \in Nat : i >= Len(tree) + 1 => h[i] = G(h, i)
    <3> SUFFICES ASSUME NEW i \in Nat, i >= Len(tree) + 1
                 PROVE  G(<<>>, i) = G(h, i)
      OBVIOUS
    <3>1. ChildrenIn(tree, i) = {}
      BY <1>s, <1>n
    <3> QED
      BY <1>0, <3>1
  <2>2. h = [i \in Nat |-> h[i]]
    OBVIOUS
  <2> HIDE DEF h
  <2>3. Upto(Len(tree) + 1)
    BY <2>1, <2>2
  <2> QED
    BY <1>n, <2>3
<1>2. PICK m \in good : \A k \in good : m <= k
  <2>1. good \subseteq Nat /\ good # {}
    BY <1>1
  <2> HIDE DEF good
  <2> QED
    BY <2>1, Smallest
<1>3. PICK f : f = [i \in Nat |-> f[i]] /\ \A i \in Nat : i >= m => f[i] = G(f, i)
  OBVIOUS
<1>4. m = 0
  <2> SUFFICES ASSUME m # 0
               PROVE  FALSE
    OBVIOUS
  <2>1. m - 1 \in Nat /\ m \in Nat /\ ~(m <= m - 1)
    OBVIOUS
  <2> DEFINE h == [i \in Nat |-> IF i = m - 1 THEN G(f, i) ELSE f[i]]
  <2>2. \A i \in Nat : i >= m - 1 => h[i] = G(h, i)
    <3> SUFFICES ASSUME NEW i \in Nat, i >= m - 1
                 PROVE  h[i] = G(h, i)
      OBVIOUS
    <3>1. \A j \in ChildrenIn(tree, i) : f[j] = h[j]
      BY <1>s, <1>n, <2>1
    <3>2. G(h, i) = G(f, i)
      <4> HIDE DEF h
      <4> QED
        BY <1>0, <3>1
    <3>3. h[i] = G(f, i)
      BY <1>3, <2>1
    <3> QED
      BY <3>2, <3>3
  <2>3. h = [i \in Nat |-> h[i]]
    OBVIOUS
  <2> HIDE DEF h
  <2>4. m - 1 \in good
    BY <2>1, <2>2, <2>3
  <2> QED
    BY <1>2, <2>1, <2>4
<1>5. f = [i \in Nat |-> G(f, i)]
  <2>1. \A i \in Nat : f[i] = G(f, i)
    BY <1>3, <1>4
  <2>2. [i \in Nat |-> f[i]] = [i \in Nat |-> G(f, i)]
    BY <2>1
  <2> QED
    BY <1>3, <2>2
<1> QED
  BY <1>5, Zenon DEF G, RowsStage

LEMMA RowsAre ==
  ASSUME Shape(nodes)
  PROVE  \A i \in Nat : RowsFrom[i] = RowsAt(nodes, expanded, HasVisibleTests, RowsFrom, i)
<1> DEFINE s == CHOOSE f : f = RowsStage(nodes, expanded, HasVisibleTests, f)
<1>1. s = RowsStage(nodes, expanded, HasVisibleTests, s)
  BY RowsExist, Zenon
<1>2. RowsFrom = s
  BY DEF RowsFrom, RowsStage, RowsAt, Below, BelowStage, BelowAt, Shown
<1> HIDE DEF s
<1>4. \A i \in Nat : s[i] = RowsAt(nodes, expanded, HasVisibleTests, s, i)
  BY <1>1, Zenon DEF RowsStage
<1> QED
  BY <1>2, <1>4, Zenon

LEMMA RowsAreNext ==
  ASSUME Shape(nodes')
  PROVE  \A i \in Nat : RowsFrom'[i] = RowsAt(nodes', expanded', HasVisibleTests', RowsFrom', i)
<1> DEFINE s == CHOOSE f : f = RowsStage(nodes', expanded', HasVisibleTests', f)
<1>1. s = RowsStage(nodes', expanded', HasVisibleTests', s)
  BY RowsExist, Zenon
<1>2. RowsFrom' = s
  BY DEF RowsFrom, RowsStage, RowsAt, Below, BelowStage, BelowAt, Shown
<1> HIDE DEF s
<1>4. \A i \in Nat : s[i] = RowsAt(nodes', expanded', HasVisibleTests', s, i)
  BY <1>1, Zenon DEF RowsStage
<1> QED
  BY <1>2, <1>4, Zenon

LEMMA ConcatHolds ==
  ASSUME NEW S, NEW a \in Seq(S), NEW b \in Seq(S)
  PROVE  /\ a \o b \in Seq(S)
         /\ \A x : IsVisible(x, a \o b) <=> IsVisible(x, a) \/ IsVisible(x, b)
<1>1. /\ a \o b \in Seq(S) /\ Len(a \o b) = Len(a) + Len(b) /\ Len(a) \in Nat /\ Len(b) \in Nat
      /\ DOMAIN a = 1..Len(a) /\ DOMAIN b = 1..Len(b) /\ DOMAIN (a \o b) = 1..(Len(a) + Len(b))
      /\ \A i \in 1..(Len(a) + Len(b)) :
           (a \o b)[i] = IF i <= Len(a) THEN a[i] ELSE b[i - Len(a)]
  BY ConcatProperties
<1> DEFINE c == a \o b
<1>2. \A i \in 1..Len(a) : i \in DOMAIN c /\ c[i] = a[i]
  BY <1>1
<1>3. \A i \in 1..Len(b) : Len(a) + i \in DOMAIN c /\ c[Len(a) + i] = b[i]
  <2> SUFFICES ASSUME NEW i \in 1..Len(b)
               PROVE  Len(a) + i \in DOMAIN c /\ c[Len(a) + i] = b[i]
    OBVIOUS
  <2>1. Len(a) + i \in 1..(Len(a) + Len(b)) /\ ~(Len(a) + i <= Len(a)) /\ (Len(a) + i) - Len(a) = i
    BY <1>1
  <2> QED
    BY <1>1, <2>1
<1>4. \A i \in DOMAIN c : (i \in DOMAIN a /\ c[i] = a[i])
                          \/ (i - Len(a) \in DOMAIN b /\ c[i] = b[i - Len(a)])
  BY <1>1
<1> HIDE DEF c
<1>5. \A x : IsVisible(x, c) <=> IsVisible(x, a) \/ IsVisible(x, b)
  <2> SUFFICES ASSUME NEW x
               PROVE  IsVisible(x, c) <=> IsVisible(x, a) \/ IsVisible(x, b)
    OBVIOUS
  <2>1. IsVisible(x, c) => IsVisible(x, a) \/ IsVisible(x, b)
    BY <1>4, Zenon DEF IsVisible
  <2>2. IsVisible(x, a) => IsVisible(x, c)
    BY <1>1, <1>2, Zenon DEF IsVisible
  <2>3. IsVisible(x, b) => IsVisible(x, c)
    BY <1>1, <1>3, Zenon DEF IsVisible
  <2> QED
    BY <2>1, <2>2, <2>3
<1> QED
  BY <1>1, <1>5 DEF c

LEMMA BelowHolds ==
  ASSUME NEW tree, Shape(tree), NEW i, NEW S, NEW rows,
         \A j \in ChildrenIn(tree, i) : rows[j] \in Seq(S)
  PROVE  /\ Below(tree, i, rows)[Len(tree)] \in Seq(S)
         /\ \A x : IsVisible(x, Below(tree, i, rows)[Len(tree)]) <=>
                   \E j \in ChildrenIn(tree, i) : IsVisible(x, rows[j])
<1> DEFINE n == Len(tree)
           b == Below(tree, i, rows)
           Upto(m) == /\ b[m] \in Seq(S)
                      /\ \A x : IsVisible(x, b[m]) <=>
                           \E j \in ChildrenIn(tree, i) : j <= m /\ IsVisible(x, rows[j])
           bad == {m \in 0..n : ~Upto(m)}
<1>n. n \in Nat /\ ChildrenIn(tree, i) = {j \in 1..n : tree[j].parent = i}
  BY ShapeIs DEF ChildrenIn
<1>1. \A k \in 0..n : b[k] = BelowAt(tree, i, rows, b, k)
  BY BelowExists, <1>n
<1> HIDE DEF n, b
<1>2. bad = {}
  <2> SUFFICES ASSUME bad # {}
               PROVE  FALSE
    OBVIOUS
  <2>1. PICK m \in bad : \A k \in bad : m <= k
    <3>1. bad \subseteq Nat
      BY <1>n
    <3> HIDE DEF bad
    <3> QED
      BY <3>1, Smallest
  <2>2. m \in 0..n /\ ~Upto(m) /\ m \in Nat
    BY <1>n
  <2>3. m # 0
    <3> SUFFICES ASSUME m = 0
                 PROVE  Upto(0)
      BY <2>2
    <3>1. b[0] = <<>>
      BY <1>1, <2>2 DEF BelowAt
    <3>2. \A x : ~IsVisible(x, <<>>)
      BY DEF IsVisible
    <3>3. \A j \in ChildrenIn(tree, i) : ~(j <= 0)
      BY <1>n
    <3> QED
      BY <3>1, <3>2, <3>3
  <2>4. m - 1 \in 0..n /\ m \in 1..n /\ ~(m <= m - 1)
    BY <1>n, <2>2, <2>3
  <2>5. Upto(m - 1)
    BY <2>1, <2>4
  <2>6. \A j \in ChildrenIn(tree, i) : j <= m <=> j <= m - 1 \/ j = m
    BY <1>n, <2>4
  <2>7. CASE m \in ChildrenIn(tree, i)
    <3>1. b[m] = b[m - 1] \o rows[m]
      BY <1>1, <1>n, <2>2, <2>3, <2>7, Zenon DEF BelowAt
    <3>2. b[m - 1] \in Seq(S) /\ rows[m] \in Seq(S)
      BY <2>5, <2>7
    <3>3. b[m] \in Seq(S) /\ \A x : IsVisible(x, b[m]) <=> IsVisible(x, b[m - 1]) \/ IsVisible(x, rows[m])
      BY <3>1, <3>2, ConcatHolds
    <3> QED
      BY <2>2, <2>5, <2>6, <2>7, <3>3, Zenon
  <2>8. CASE m \notin ChildrenIn(tree, i)
    <3>1. b[m] = b[m - 1]
      BY <1>1, <1>n, <2>2, <2>3, <2>4, <2>8, Zenon DEF BelowAt
    <3> QED
      BY <2>2, <2>5, <2>6, <2>8, <3>1, Zenon
  <2> QED
    BY <2>7, <2>8
<1>3. n \in 0..n /\ \A j \in ChildrenIn(tree, i) : j <= n
  BY <1>n
<1>4. Upto(n)
  BY <1>2, <1>3
<1>5. /\ b[n] \in Seq(S)
      /\ \A x : IsVisible(x, b[n]) <=> \E j \in ChildrenIn(tree, i) : IsVisible(x, rows[j])
  BY <1>3, <1>4, Zenon
<1> QED
  BY <1>5, Zenon DEF n, b

RowsUnder(tree, ex, vis, f, i) ==
  \A x : IsVisible(x, f[i]) <=>
          /\ i = Root \/ vis[i]
          /\ x = i \/ (i \in ex /\ \E j \in ChildrenIn(tree, i) : IsVisible(x, f[j]))

(* The rows are nodes, the root is the first, and below a node that is     *)
(* shown and open are those of its children.                               *)
LEMMA RowsHold ==
  ASSUME NEW tree, Shape(tree), NEW ex, NEW vis, NEW f,
         \A i \in Nat : f[i] = RowsAt(tree, ex, vis, f, i)
  PROVE  /\ \A i \in DOMAIN tree : f[i] \in Seq(DOMAIN tree) /\ RowsUnder(tree, ex, vis, f, i)
         /\ Len(f[Root]) >= 1 /\ f[Root][1] = Root /\ Root \in DOMAIN tree
<1> DEFINE N == DOMAIN tree
           n == Len(tree)
           Typed(i) == f[i] \in Seq(N)
           bad == {i \in 1..n : ~Typed(i)}
<1>n. n \in Nat /\ N = 1..n /\ 1 \in N /\ \A i \in N : i \in Nat
  BY ShapeIs
<1>s. \A i \in N : \A j \in ChildrenIn(tree, i) : j > i /\ j \in N
  <2>1. \A i \in N : \A j \in ChildrenIn(tree, i) : j \in N
    BY DEF ChildrenIn
  <2> QED
    BY <1>n, <2>1, ShapeIs
<1>1. \A i \in N : <<i>> \in Seq(N) /\ \A x : IsVisible(x, <<i>>) <=> x = i
  <2> SUFFICES ASSUME NEW i \in N
               PROVE  <<i>> \in Seq(N) /\ \A x : IsVisible(x, <<i>>) <=> x = i
    OBVIOUS
  <2>1. <<i>> \in Seq(N) /\ DOMAIN <<i>> = {1} /\ <<i>>[1] = i
    OBVIOUS
  <2> QED
    BY <2>1, Zenon DEF IsVisible
<1>e. <<>> \in Seq(N) /\ \A x : ~IsVisible(x, <<>>)
  BY DEF IsVisible
<1>2. ASSUME NEW i \in N, \A j \in ChildrenIn(tree, i) : Typed(j)
      PROVE  Typed(i) /\ RowsUnder(tree, ex, vis, f, i) /\ (i = Root => Len(f[i]) >= 1 /\ f[i][1] = i)
  <2> DEFINE b == Below(tree, i, f)[Len(tree)]
             c == IF i \in ex THEN b ELSE <<>>
  <2>1. b \in Seq(N) /\ \A x : IsVisible(x, b) <=> \E j \in ChildrenIn(tree, i) : IsVisible(x, f[j])
    BY <1>2, BelowHolds
  <2>2. f[i] = IF ~(i = Root \/ vis[i]) THEN <<>> ELSE <<i>> \o c
    BY <1>n, Zenon DEF RowsAt
  <2> HIDE DEF b
  <2>3. c \in Seq(N) /\ \A x : IsVisible(x, c) <=> i \in ex /\ \E j \in ChildrenIn(tree, i) : IsVisible(x, f[j])
    <3>1. CASE i \in ex
      BY <2>1, <3>1, Zenon
    <3>2. CASE i \notin ex
      BY <1>e, <3>2, Zenon
    <3> QED
      BY <3>1, <3>2
  <2> HIDE DEF c
  <2>4. /\ <<i>> \o c \in Seq(N)
        /\ \A x : IsVisible(x, <<i>> \o c) <=> IsVisible(x, <<i>>) \/ IsVisible(x, c)
    BY <1>1, <2>3, ConcatHolds
  <2>5. CASE i = Root \/ vis[i]
    <3>1. f[i] = <<i>> \o c
      BY <2>2, <2>5
    <3>2. Len(<<i>> \o c) >= 1 /\ (<<i>> \o c)[1] = i
      BY <1>1, <2>3
    <3> QED
      <4>1. Typed(i)
        BY <2>4, <3>1
      <4>2. RowsUnder(tree, ex, vis, f, i)
        BY <1>1, <2>3, <2>4, <2>5, <3>1, Zenon DEF RowsUnder
      <4> QED
        BY <3>1, <3>2, <4>1, <4>2
  <2>6. CASE ~(i = Root \/ vis[i])
    <3>1. f[i] = <<>>
      BY <2>2, <2>6
    <3> QED
      <4>1. Typed(i)
        BY <1>e, <3>1
      <4>2. RowsUnder(tree, ex, vis, f, i)
        BY <1>e, <2>6, <3>1, Zenon DEF RowsUnder
      <4> QED
        BY <2>6, <4>1, <4>2
  <2> QED
    BY <2>5, <2>6
<1>3. bad = {}
  <2> SUFFICES ASSUME bad # {}
               PROVE  FALSE
    OBVIOUS
  <2>1. PICK i \in bad : \A k \in bad : k <= i
    <3>1. bad \subseteq 1..n
      OBVIOUS
    <3> HIDE DEF bad
    <3> QED
      BY <1>n, <3>1, Greatest
  <2>2. \A j \in ChildrenIn(tree, i) : j \in 1..n /\ ~(j <= i)
    BY <1>n, <1>s
  <2>3. \A j \in ChildrenIn(tree, i) : Typed(j)
    BY <2>1, <2>2
  <2>4. i \in N /\ ~Typed(i)
    BY <1>n
  <2> QED
    BY <1>2, <2>3, <2>4
<1>4. \A i \in N : \A j \in ChildrenIn(tree, i) : Typed(j)
  BY <1>3, <1>n, <1>s
<1>5. Root \in N
  BY <1>n DEF Root
<1> HIDE DEF N, Typed
<1>6. \A i \in N : Typed(i) /\ RowsUnder(tree, ex, vis, f, i)
                   /\ (i = Root => Len(f[i]) >= 1 /\ f[i][1] = i)
  BY <1>2, <1>4
<1> QED
  BY <1>5, <1>6 DEF N, Typed

-----------------------------------------------------------------------------
(* The branches over a test, and what a node says of its place.            *)
BranchRecord == [label : STRING, kind : {"Package", "Binary", "Module"}, path : Seq(STRING)]

Offset(t) == IF t.kind = "test" THEN 2 ELSE 1

LEMMA LevelsAre ==
  ASSUME NEW t \in TestId
  PROVE  /\ Levels(t) \in Seq(BranchRecord) /\ Len(Levels(t)) = Offset(t) + Len(t.module)
         /\ Len(t.module) \in Nat /\ Len(Levels(t)) \in Nat /\ Len(Levels(t)) >= 1
         /\ DOMAIN Levels(t) = 1..Len(Levels(t))
         /\ Levels(t)[1] = Level(t.package, "Package", <<>>)
         /\ t.kind = "test" => Len(Levels(t)) >= 2 /\ Levels(t)[2] = Level(t.binary, "Binary", <<>>)
         /\ \A k \in 1..Len(t.module) :
              Levels(t)[Offset(t) + k] = Level(t.module[k], "Module", SubSeq(t.module, 1, k))
<1> DEFINE ms == [k \in DOMAIN t.module |-> Level(t.module[k], "Module", SubSeq(t.module, 1, k))]
           p == Level(t.package, "Package", <<>>)
           b == Level(t.binary, "Binary", <<>>)
           n == Len(t.module)
<1>1. /\ t.module \in Seq(STRING) /\ n \in Nat /\ DOMAIN t.module = 1..n
      /\ t.package \in STRING /\ t.binary \in STRING
  BY DEF TestId
<1>2. p \in BranchRecord /\ b \in BranchRecord
  BY <1>1 DEF BranchRecord, Level
<1>3. ms \in Seq(BranchRecord) /\ Len(ms) = n /\ \A k \in 1..n : ms[k] = Level(t.module[k], "Module", SubSeq(t.module, 1, k))
  <2>1. \A k \in 1..n : t.module[k] \in STRING /\ SubSeq(t.module, 1, k) \in Seq(STRING)
    BY <1>1
  <2>2. \A k \in 1..n : Level(t.module[k], "Module", SubSeq(t.module, 1, k)) \in BranchRecord
    BY <2>1 DEF BranchRecord, Level
  <2> QED
    BY <1>1, <2>2
<1> HIDE DEF ms, p, b, n
<1>4. CASE t.kind = "test"
  <2>1. Levels(t) = <<p>> \o <<b>> \o ms /\ Offset(t) = 2
    BY <1>4 DEF Levels, Offset, ms, p, b
  <2>2. /\ <<p>> \o <<b>> \o ms \in Seq(BranchRecord) /\ Len(<<p>> \o <<b>> \o ms) = 2 + n
        /\ (<<p>> \o <<b>> \o ms)[1] = p /\ (<<p>> \o <<b>> \o ms)[2] = b
        /\ \A k \in 1..n : (<<p>> \o <<b>> \o ms)[2 + k] = ms[k]
    BY <1>1, <1>2, <1>3
  <2>3. \A k \in 1..n : Levels(t)[Offset(t) + k] = Level(t.module[k], "Module", SubSeq(t.module, 1, k))
    BY <1>3, <2>1, <2>2
  <2>4. Levels(t) \in Seq(BranchRecord) /\ Len(Levels(t)) = 2 + n /\ Levels(t)[1] = p /\ Levels(t)[2] = b
    BY <2>1, <2>2
  <2>5. DOMAIN Levels(t) = 1..Len(Levels(t)) /\ Len(Levels(t)) \in Nat /\ Len(Levels(t)) >= 2
    BY <1>1, <2>4
  <2> QED
    BY <1>1, <2>1, <2>3, <2>4, <2>5 DEF p, b, n
<1>5. CASE t.kind # "test"
  <2>1. Levels(t) = <<p>> \o <<>> \o ms /\ Offset(t) = 1
    BY <1>5 DEF Levels, Offset, ms, p
  <2>2. /\ <<p>> \o <<>> \o ms \in Seq(BranchRecord) /\ Len(<<p>> \o <<>> \o ms) = 1 + n
        /\ (<<p>> \o <<>> \o ms)[1] = p
        /\ \A k \in 1..n : (<<p>> \o <<>> \o ms)[1 + k] = ms[k]
    BY <1>1, <1>2, <1>3
  <2>3. \A k \in 1..n : Levels(t)[Offset(t) + k] = Level(t.module[k], "Module", SubSeq(t.module, 1, k))
    BY <1>3, <2>1, <2>2
  <2>4. Levels(t) \in Seq(BranchRecord) /\ Len(Levels(t)) = 1 + n /\ Levels(t)[1] = p
    BY <2>1, <2>2
  <2>5. DOMAIN Levels(t) = 1..Len(Levels(t)) /\ Len(Levels(t)) \in Nat /\ Len(Levels(t)) >= 1
    BY <1>1, <2>4
  <2> QED
    BY <1>1, <1>5, <2>1, <2>3, <2>4, <2>5 DEF p, n
<1> QED
  BY <1>4, <1>5

LEMMA PlaceIs ==
  ASSUME NEW t \in TestId
  PROVE  /\ Place(t) \in Seq(STRING) /\ Len(Place(t)) = Len(Levels(t)) + 1
         /\ DOMAIN Place(t) = 1..(Len(Levels(t)) + 1)
         /\ \A k \in 1..Len(Levels(t)) : Place(t)[k] = Levels(t)[k].label /\ Levels(t)[k] \in BranchRecord
         /\ Place(t)[Len(Levels(t)) + 1] = t.name
<1> DEFINE ls == [k \in DOMAIN Levels(t) |-> Levels(t)[k].label]
           n == Len(Levels(t))
<1>1. n \in Nat /\ DOMAIN Levels(t) = 1..n /\ (\A k \in 1..n : Levels(t)[k] \in BranchRecord) /\ t.name \in STRING
  BY LevelsAre DEF TestId
<1>2. ls \in Seq(STRING) /\ Len(ls) = n /\ \A k \in 1..n : ls[k] = Levels(t)[k].label
  <2>1. \A k \in 1..n : Levels(t)[k].label \in STRING
    BY <1>1 DEF BranchRecord
  <2> QED
    BY <1>1, <2>1
<1>3. Place(t) = Append(ls, t.name)
  BY DEF Place
<1> HIDE DEF ls, n
<1>4. /\ Append(ls, t.name) \in Seq(STRING) /\ Len(Append(ls, t.name)) = n + 1
      /\ DOMAIN Append(ls, t.name) = 1..(n + 1)
      /\ \A k \in 1..n : Append(ls, t.name)[k] = ls[k]
      /\ Append(ls, t.name)[n + 1] = t.name
  BY <1>1, <1>2
<1> QED
  BY <1>1, <1>2, <1>3, <1>4 DEF n

(* How far a node is from the root.                                        *)
Rank(n) ==
  CASE n.kind = "Workspace" -> 0
    [] n.kind = "Package" -> 1
    [] n.kind = "Binary" -> 2
    [] n.kind = "Module" -> Offset(n.test) + Len(n.path)
    [] n.kind = "Test" -> Len(Levels(n.test)) + 1

(* A node that an insertion of test t makes.                               *)
MadeOf(n, t) ==
  /\ n.test = t
  /\ \/ n.kind = "Test" /\ n.label = t.name /\ n.path = <<>>
     \/ \E k \in 1..Len(Levels(t)) : [label |-> n.label, kind |-> n.kind, path |-> n.path] = Levels(t)[k]

LEMMA RankOfLevel ==
  ASSUME NEW t \in TestId, NEW k \in 1..Len(Levels(t)), NEW n, n.test = t,
         n.kind = Levels(t)[k].kind, n.path = Levels(t)[k].path
  PROVE  Rank(n) = k /\ n.kind \in {"Package", "Binary", "Module"}
<1>1. /\ Len(Levels(t)) = Offset(t) + Len(t.module) /\ Len(t.module) \in Nat
      /\ Levels(t)[1] = Level(t.package, "Package", <<>>)
      /\ t.kind = "test" => Levels(t)[2] = Level(t.binary, "Binary", <<>>)
      /\ \A j \in 1..Len(t.module) :
           Levels(t)[Offset(t) + j] = Level(t.module[j], "Module", SubSeq(t.module, 1, j))
  BY LevelsAre
<1>2. CASE k = 1
  BY <1>1, <1>2 DEF Level, Rank
<1>3. CASE k = 2 /\ t.kind = "test"
  BY <1>1, <1>3 DEF Level, Rank
<1>4. CASE k > Offset(t)
  <2>0. Offset(t) \in Nat /\ k \in Nat
    BY DEF Offset
  <2>1. k - Offset(t) \in 1..Len(t.module) /\ Offset(t) + (k - Offset(t)) = k
    BY <1>1, <1>4, <2>0
  <2>2. n.kind = "Module" /\ n.path = SubSeq(t.module, 1, k - Offset(t))
    <3>1. Levels(t)[k] = Level(t.module[k - Offset(t)], "Module", SubSeq(t.module, 1, k - Offset(t)))
      BY <1>1, <2>1
    <3> DEFINE nm == t.module[k - Offset(t)]
               pa == SubSeq(t.module, 1, k - Offset(t))
    <3> HIDE DEF nm, pa
    <3>2. Level(nm, "Module", pa).kind = "Module" /\ Level(nm, "Module", pa).path = pa
      BY DEF Level
    <3>3. Levels(t)[k] = Level(nm, "Module", pa)
      BY <3>1 DEF nm, pa
    <3>4. n.kind = "Module" /\ n.path = pa
      BY <3>2, <3>3
    <3> QED
      BY <3>4 DEF pa
  <2>3. Len(n.path) = k - Offset(t)
    BY <2>1, <2>2 DEF TestId
  <2> QED
    BY <2>1, <2>2, <2>3 DEF Rank
<1>5. k = 1 \/ (k = 2 /\ t.kind = "test") \/ k > Offset(t)
  BY DEF Offset
<1> QED
  BY <1>2, <1>3, <1>4, <1>5

LEMMA MadeIs ==
  ASSUME NEW t \in TestId, NEW n \in Node, MadeOf(n, t)
  PROVE  /\ Rank(n) \in 1..(Len(Levels(t)) + 1)
         /\ n.label = Place(t)[Rank(n)]
         /\ n.kind = "Test" <=> Rank(n) = Len(Levels(t)) + 1
         /\ n.kind # "Workspace"
         /\ n.kind # "Test" => /\ Rank(n) \in 1..Len(Levels(t))
                               /\ n.kind = Levels(t)[Rank(n)].kind
                               /\ n.path = Levels(t)[Rank(n)].path
<1>1. Len(Levels(t)) \in Nat
  BY LevelsAre
<1>2. CASE n.kind = "Test" /\ n.label = t.name
  <2>1. Rank(n) = Len(Levels(t)) + 1
    BY <1>2 DEF Rank, MadeOf
  <2> QED
    BY <1>1, <1>2, <2>1, PlaceIs
<1>3. CASE \E k \in 1..Len(Levels(t)) : [label |-> n.label, kind |-> n.kind, path |-> n.path] = Levels(t)[k]
  <2>1. PICK k \in 1..Len(Levels(t)) : [label |-> n.label, kind |-> n.kind, path |-> n.path] = Levels(t)[k]
    BY <1>3
  <2>2. n.label = Levels(t)[k].label /\ n.kind = Levels(t)[k].kind /\ n.path = Levels(t)[k].path /\ n.test = t
    BY <2>1 DEF MadeOf
  <2>3. Rank(n) = k /\ n.kind \in {"Package", "Binary", "Module"}
    BY <2>2, RankOfLevel
  <2>4. Place(t)[k] = Levels(t)[k].label
    BY PlaceIs
  <2> QED
    BY <1>1, <2>2, <2>3, <2>4
<1> QED
  BY <1>2, <1>3 DEF MadeOf

-----------------------------------------------------------------------------
(* A tree grows by a node.                                                 *)
Levelled == [label : STRING, kind : Kinds \ {"Workspace"}, path : Seq(STRING)]

GrownBy(tree, p, level, t, g) ==
  /\ Shape(g) /\ Len(g) = Len(tree) + 1
  /\ \A i \in DOMAIN tree : g[i] = tree[i]
  /\ g[Len(tree) + 1] = [parent |-> p, label |-> level.label, kind |-> level.kind,
                         path |-> level.path, test |-> t]
  /\ DOMAIN g = DOMAIN tree \union {Len(tree) + 1} /\ Len(tree) + 1 \notin DOMAIN tree
  /\ \A i : ChildrenIn(g, i) = ChildrenIn(tree, i) \union (IF i = p THEN {Len(tree) + 1} ELSE {})

LEMMA GrowIs ==
  ASSUME NEW tree, Shape(tree), NEW p \in DOMAIN tree, NEW level \in Levelled, NEW t \in TestId
  PROVE  GrownBy(tree, p, level, t, Grow(tree, p, level, t))
<1> DEFINE g == Grow(tree, p, level, t)
           n == Len(tree)
           new == [parent |-> p, label |-> level.label, kind |-> level.kind,
                   path |-> level.path, test |-> t]
<1>1. /\ tree \in Seq(Node) /\ n \in Nat \ {0} /\ DOMAIN tree = 1..n /\ p \in 1..n
      /\ tree[1].kind = "Workspace" /\ tree[1].parent = 0
      /\ \A i \in 2..n : tree[i].parent \in 1..(i - 1) /\ tree[i].kind # "Workspace"
  BY ShapeIs DEF Shape
<1>2. new \in Node /\ new.parent = p /\ new.kind # "Workspace"
  BY <1>1 DEF Levelled, Node, Kinds
<1>3. g = Append(tree, new)
  BY DEF Grow
<1> HIDE DEF new, n
<1>4. /\ Append(tree, new) \in Seq(Node) /\ Len(Append(tree, new)) = n + 1
      /\ (\A i \in 1..n : Append(tree, new)[i] = tree[i]) /\ Append(tree, new)[n + 1] = new
      /\ DOMAIN Append(tree, new) = 1..(n + 1)
  BY <1>1, <1>2 DEF n
<1> HIDE DEF g
<1>5. /\ g \in Seq(Node) /\ Len(g) = n + 1 /\ (\A i \in 1..n : g[i] = tree[i]) /\ g[n + 1] = new
      /\ DOMAIN g = 1..(n + 1)
  BY <1>3, <1>4
<1>6. Shape(g)
  <2>1. Len(g) >= 1 /\ 1 \in 1..n /\ g[1] = tree[1]
    BY <1>1, <1>5
  <2>2. ASSUME NEW i \in 2..Len(g)
        PROVE  g[i].parent \in 1..(i - 1) /\ g[i].kind # "Workspace"
    <3>1. CASE i = n + 1
      BY <1>1, <1>2, <1>5, <3>1
    <3>2. CASE i # n + 1
      <4>1. i \in 2..n /\ i \in 1..n
        BY <1>1, <1>5, <3>2
      <4> QED
        BY <1>1, <1>5, <4>1
    <3> QED
      BY <3>1, <3>2
  <2> QED
    BY <1>1, <1>5, <2>1, <2>2 DEF Shape
<1>7. DOMAIN g = DOMAIN tree \union {n + 1} /\ n + 1 \notin DOMAIN tree
  BY <1>1, <1>5
<1>8. ASSUME NEW i
      PROVE  ChildrenIn(g, i) = ChildrenIn(tree, i) \union (IF i = p THEN {n + 1} ELSE {})
  <2>1. \A j \in 1..n : g[j].parent = tree[j].parent
    BY <1>5
  <2>2. g[n + 1].parent = p
    BY <1>2, <1>5
  <2>3. ChildrenIn(tree, i) = {j \in 1..n : tree[j].parent = i} /\ DOMAIN tree = 1..n
    BY <1>1 DEF ChildrenIn
  <2>4. ChildrenIn(g, i) = {j \in (1..n) \union {n + 1} : g[j].parent = i}
    BY <1>7, <1>1 DEF ChildrenIn
  <2> QED
    BY <2>1, <2>2, <2>3, <2>4
<1> QED
  BY <1>1, <1>5, <1>6, <1>7, <1>8 DEF new, n, g, GrownBy

Agree(t, u, r) == \A e \in 1..r : Place(t)[e] = Place(u)[e]

(* What the nodes of a tree say of one another: they are made of the tests *)
(* of M, those without children of tests of T; each is a rank below a      *)
(* branch, whose labels it shares.                                         *)
LinkedAt(tree, M, T, i) ==
  LET n == tree[i]
      p == tree[n.parent]
  IN /\ n.test \in M /\ MadeOf(n, n.test)
     /\ n.kind = "Test" => n.test \in T
     /\ p.kind # "Test" /\ Rank(n) = Rank(p) + 1
     /\ n.parent # 1 => Agree(p.test, n.test, Rank(p))
Linked(tree, M, T) == \A i \in 2..Len(tree) : LinkedAt(tree, M, T, i)

Same(m, n) == m.kind # "Test" /\ n.kind # "Test" /\ Rank(m) = Rank(n) /\ Agree(m.test, n.test, Rank(m))

(* Branches of one place are one, and so are the nodes of one test.        *)
Unique(tree) ==
  \A i, j \in 2..Len(tree) :
    \/ Same(tree[i], tree[j])
    \/ tree[i].kind = "Test" /\ tree[j].kind = "Test" /\ tree[i].test = tree[j].test
    => i = j

(* No branch but the one at which the tree grows is empty.                 *)
Leaved(tree, at) ==
  \A i \in 2..Len(tree) : tree[i].kind # "Test" /\ i # at => ChildrenIn(tree, i) # {}

LEMMA RankIs ==
  ASSUME NEW tree, Shape(tree), NEW M, M \subseteq TestId, NEW T, Linked(tree, M, T)
  PROVE  /\ Rank(tree[1]) = 0
         /\ \A i \in 2..Len(tree) :
              /\ tree[i] \in Node /\ tree[i].test \in TestId /\ MadeOf(tree[i], tree[i].test)
              /\ Rank(tree[i]) \in Nat \ {0} /\ tree[i].label = Place(tree[i].test)[Rank(tree[i])]
              /\ tree[i].parent \in 1..Len(tree) /\ tree[i].parent < i
         /\ \A i \in DOMAIN tree : Rank(tree[i]) \in Nat /\ (Rank(tree[i]) = 0 => i = 1)
<1>1. Rank(tree[1]) = 0
  BY DEF Shape, Rank
<1>2. ASSUME NEW i \in 2..Len(tree)
      PROVE  /\ tree[i] \in Node /\ tree[i].test \in TestId /\ MadeOf(tree[i], tree[i].test)
             /\ Rank(tree[i]) \in Nat \ {0} /\ tree[i].label = Place(tree[i].test)[Rank(tree[i])]
             /\ tree[i].parent \in 1..Len(tree) /\ tree[i].parent < i
  <2>1. i \in DOMAIN tree /\ tree[i] \in Node /\ tree[i].parent \in 1..Len(tree) /\ tree[i].parent < i
    BY ShapeIs
  <2>2. tree[i].test \in TestId /\ MadeOf(tree[i], tree[i].test)
    BY DEF Linked, LinkedAt
  <2>3. Rank(tree[i]) \in 1..(Len(Levels(tree[i].test)) + 1) /\ tree[i].label = Place(tree[i].test)[Rank(tree[i])]
    BY <2>1, <2>2, MadeIs
  <2> QED
    BY <2>1, <2>2, <2>3
<1>3. \A i \in DOMAIN tree : i = 1 \/ i \in 2..Len(tree)
  BY ShapeIs
<1> QED
  BY <1>1, <1>2, <1>3

(* What a new node needs.                                                  *)
Fits(tree, p, n, t) ==
  /\ n.parent = p /\ p \in DOMAIN tree /\ MadeOf(n, t) /\ t \in TestId
  /\ tree[p].kind # "Test" /\ Rank(n) = Rank(tree[p]) + 1
  /\ p # 1 => Agree(tree[p].test, t, Rank(tree[p]))

LEMMA GrowLinked ==
  ASSUME NEW tree, Shape(tree), NEW p, NEW level \in Levelled, NEW t \in TestId,
         NEW M, NEW T, NEW T2, T \subseteq T2, t \in M, Linked(tree, M, T),
         Fits(tree, p, Grow(tree, p, level, t)[Len(tree) + 1], t),
         level.kind = "Test" => t \in T2
  PROVE  Linked(Grow(tree, p, level, t), M, T2)
<1> DEFINE g == Grow(tree, p, level, t)
           n == Len(tree)
<1>p. p \in DOMAIN tree
  BY DEF Fits
<1>g. GrownBy(tree, p, level, t, g)
  BY <1>p, GrowIs
<1>1. /\ n \in Nat \ {0} /\ DOMAIN tree = 1..n /\ Len(g) = n + 1 /\ \A i \in 1..n : g[i] = tree[i]
      /\ g[n + 1] = [parent |-> p, label |-> level.label, kind |-> level.kind,
                     path |-> level.path, test |-> t]
  BY <1>g, ShapeIs DEF GrownBy
<1>2. g[n + 1].kind = level.kind /\ g[n + 1].test = t /\ g[n + 1].parent = p
  BY <1>1
<1>3. \A i \in 2..n : tree[i].parent \in 1..n
  BY ShapeIs, <1>1
<1>f. Fits(tree, p, g[n + 1], t)
  OBVIOUS
<1> HIDE DEF g, n
<1>4. ASSUME NEW i \in 2..Len(g)
      PROVE  LinkedAt(g, M, T2, i)
  <2>1. CASE i = n + 1
    <3>1. g[p] = tree[p]
      BY <1>1, <1>p
    <3> QED
      BY <1>2, <1>f, <2>1, <3>1 DEF LinkedAt, Fits
  <2>2. CASE i # n + 1
    <3>1. i \in 2..n /\ i \in 1..n
      BY <1>1, <2>2
    <3>2. g[i] = tree[i] /\ g[tree[i].parent] = tree[tree[i].parent]
      BY <1>1, <1>3, <3>1
    <3>3. LinkedAt(tree, M, T, i)
      BY <3>1 DEF Linked, n
    <3> QED
      BY <3>2, <3>3 DEF LinkedAt
  <2> QED
    BY <2>1, <2>2
<1> QED
  BY <1>4 DEF Linked, g

LEMMA AgreeFacts ==
  ASSUME NEW t, NEW u, NEW r
  PROVE  /\ Agree(t, t, r) /\ (Agree(t, u, r) => Agree(u, t, r))
         /\ \A v : Agree(t, u, r) /\ Agree(u, v, r) => Agree(t, v, r)
         /\ r \in Nat => (Agree(t, u, r + 1) <=> Agree(t, u, r) /\ Place(t)[r + 1] = Place(u)[r + 1])
<1>1. r \in Nat => 1..(r + 1) = (1..r) \union {r + 1}
  OBVIOUS
<1>2. r \in Nat => (Agree(t, u, r + 1) <=> Agree(t, u, r) /\ Place(t)[r + 1] = Place(u)[r + 1])
  BY <1>1 DEF Agree
<1> QED
  BY <1>2 DEF Agree

(* A branch may be added where no child bears its label, a test where none *)
(* is of it.                                                               *)
LEMMA GrowUnique ==
  ASSUME NEW tree, Shape(tree), NEW p, NEW level \in Levelled, NEW t \in TestId,
         NEW M, M \subseteq TestId, NEW T, Linked(tree, M, T), Unique(tree),
         Fits(tree, p, Grow(tree, p, level, t)[Len(tree) + 1], t),
         level.kind = "Test" => t \notin T,
         level.kind # "Test" => ~\E j \in ChildrenIn(tree, p) : tree[j].label = level.label /\ tree[j].kind # "Test"
  PROVE  Unique(Grow(tree, p, level, t))
<1> DEFINE g == Grow(tree, p, level, t)
           n == Len(tree)
           new == g[n + 1]
<1>p. p \in DOMAIN tree
  BY DEF Fits
<1>g. GrownBy(tree, p, level, t, g)
  BY <1>p, GrowIs
<1>1. /\ n \in Nat \ {0} /\ DOMAIN tree = 1..n /\ Len(g) = n + 1 /\ (\A i \in 1..n : g[i] = tree[i]) /\ Shape(g)
      /\ new = [parent |-> p, label |-> level.label, kind |-> level.kind,
                path |-> level.path, test |-> t]
  BY <1>g, ShapeIs DEF GrownBy
<1>2. new.kind = level.kind /\ new.test = t /\ new.parent = p /\ new.label = level.label /\ new \in Node
  <2>1. new.kind = level.kind /\ new.test = t /\ new.parent = p /\ new.label = level.label
    BY <1>1
  <2>2. n + 1 \in DOMAIN g
    BY <1>1, ShapeIs
  <2> QED
    BY <1>1, <2>1, <2>2, ShapeIs
<1>f. Fits(tree, p, new, t)
  OBVIOUS
<1> HIDE DEF g, n, new
<1>r. Rank(new) = Rank(tree[p]) + 1 /\ Rank(tree[p]) \in Nat /\ new.label = Place(t)[Rank(new)]
      /\ (p # 1 => Agree(tree[p].test, t, Rank(tree[p]))) /\ tree[p].kind # "Test"
  <2>1. Rank(tree[p]) \in Nat
    BY <1>p, RankIs
  <2>2. new.label = Place(t)[Rank(new)]
    BY <1>2, <1>f, MadeIs DEF Fits
  <2> QED
    BY <1>f, <2>1, <2>2 DEF Fits
<1>3. ASSUME NEW i \in 2..n, Same(tree[i], new)
      PROVE  FALSE
  <2> DEFINE q == tree[i].parent
             r == Rank(tree[p])
  <2>0. tree[i].kind # "Test" /\ new.kind # "Test" /\ Rank(tree[i]) = r + 1 /\ Agree(tree[i].test, t, r + 1)
    BY <1>2, <1>3, <1>r DEF Same
  <2>1. LinkedAt(tree, M, T, i) /\ i \in 1..n
    BY <1>1 DEF Linked, n
  <2>2. /\ q \in 1..n /\ Rank(tree[i]) = Rank(tree[q]) + 1 /\ tree[q].kind # "Test" /\ Rank(tree[q]) \in Nat
        /\ q # 1 => Agree(tree[q].test, tree[i].test, Rank(tree[q]))
    <3>1. q \in 1..n
      BY RankIs DEF n
    <3> QED
      BY <1>1, <2>1, <3>1, RankIs DEF LinkedAt
  <2>3. Rank(tree[q]) = r /\ r \in Nat
    BY <1>r, <2>0, <2>2
  <2>4. q = p
    <3>1. CASE r = 0
      <4>1. q = 1 /\ p = 1
        BY <1>1, <1>p, <2>2, <2>3, <3>1, RankIs
      <4> QED
        BY <4>1
    <3>2. CASE r # 0
      <4>1. q # 1 /\ p # 1
        BY <2>3, <3>2, RankIs
      <4>2. Agree(tree[q].test, tree[i].test, r) /\ Agree(tree[i].test, t, r) /\ Agree(tree[p].test, t, r)
        BY <1>r, <2>0, <2>2, <2>3, <4>1, AgreeFacts
      <4>3. Agree(tree[q].test, tree[p].test, r)
        BY <4>2, Zenon DEF Agree
      <4>4. Same(tree[q], tree[p])
        BY <1>r, <2>2, <2>3, <4>3 DEF Same
      <4>5. q \in 2..n /\ p \in 2..n
        BY <1>1, <1>p, <2>2, <4>1
      <4> QED
        BY <4>4, <4>5 DEF Unique, n
    <3> QED
      BY <3>1, <3>2
  <2>5. tree[i].label = new.label
    <3>1. tree[i].label = Place(tree[i].test)[Rank(tree[i])]
      BY RankIs DEF n
    <3>2. Place(tree[i].test)[r + 1] = Place(t)[r + 1]
      BY <2>0, <2>3, AgreeFacts
    <3> QED
      BY <1>r, <2>0, <3>1, <3>2
  <2>6. i \in ChildrenIn(tree, p)
    BY <1>1, <2>1, <2>4 DEF ChildrenIn
  <2> QED
    BY <1>2, <2>0, <2>5, <2>6
<1>4. ASSUME NEW i \in 2..n, tree[i].kind = "Test", new.kind = "Test", tree[i].test = t
      PROVE  FALSE
  BY <1>2, <1>4 DEF Linked, LinkedAt, n
<1>5. \A i \in 2..Len(g) : (i = n + 1 /\ g[i] = new) \/ (i \in 2..n /\ g[i] = tree[i])
  <2>1. \A i \in 2..Len(g) : i = n + 1 \/ (i \in 2..n /\ i \in 1..n)
    BY <1>1
  <2> QED
    BY <1>1, <2>1 DEF new
<1>6. \A m : Same(m, new) <=> Same(new, m)
  BY AgreeFacts DEF Same
<1> QED
  <2> SUFFICES ASSUME NEW i \in 2..Len(g), NEW j \in 2..Len(g),
                      \/ Same(g[i], g[j])
                      \/ g[i].kind = "Test" /\ g[j].kind = "Test" /\ g[i].test = g[j].test
               PROVE  i = j
    BY DEF Unique, g
  <2>1. CASE i = n + 1 /\ j = n + 1
    BY <2>1
  <2>2. CASE i \in 2..n /\ g[i] = tree[i] /\ j \in 2..n /\ g[j] = tree[j]
    BY <2>2 DEF Unique, n
  <2>3. CASE i = n + 1 /\ g[i] = new /\ j \in 2..n /\ g[j] = tree[j]
    BY <1>2, <1>3, <1>4, <1>6, <2>3
  <2>4. CASE j = n + 1 /\ g[j] = new /\ i \in 2..n /\ g[i] = tree[i]
    BY <1>2, <1>3, <1>4, <1>6, <2>4
  <2> QED
    BY <1>5, <2>1, <2>2, <2>3, <2>4

-----------------------------------------------------------------------------
(* One step down the levels of a test.                                     *)
LEMMA BranchLevelled == BranchRecord \subseteq Levelled
<1>1. {"Package", "Binary", "Module"} \subseteq Kinds \ {"Workspace"}
  BY DEF Kinds
<1> QED
  BY <1>1 DEF BranchRecord, Levelled

Way(tree, node) == Shape(tree) /\ node \in DOMAIN tree

LEMMA DescendWay ==
  ASSUME NEW at, Way(at.tree, at.node), NEW level \in Levelled, NEW t \in TestId
  PROVE  Way(Descend(at, level, t).tree, Descend(at, level, t).node)
<1> DEFINE alike == {j \in ChildrenIn(at.tree, at.node) : at.tree[j].label = level.label}
           tree == at.tree
           p == at.node
<1>1. Shape(tree) /\ p \in DOMAIN tree
  BY DEF Way
<1>2. CASE alike # {}
  <2>1. Descend(at, level, t).tree = tree /\ Descend(at, level, t).node = Min(alike)
    BY <1>2 DEF Descend
  <2>2. alike \subseteq DOMAIN tree /\ DOMAIN tree \subseteq Nat
    BY <1>1, ShapeIs DEF ChildrenIn
  <2> HIDE DEF alike
  <2>3. Min(alike) \in alike
    BY <1>2, <2>2, MinIs
  <2> QED
    BY <1>1, <2>1, <2>2, <2>3 DEF Way
<1>3. CASE alike = {}
  <2>1. /\ Descend(at, level, t).tree = Grow(tree, p, level, t)
        /\ Descend(at, level, t).node = Len(tree) + 1
    BY <1>3 DEF Descend
  <2>2. GrownBy(tree, p, level, t, Grow(tree, p, level, t))
    BY <1>1, GrowIs
  <2> QED
    BY <2>1, <2>2 DEF Way, GrownBy
<1> QED
  BY <1>2, <1>3

Apart(T, u) == \A v \in T : ~IsPrefix(Place(v), Place(u)) /\ ~IsPrefix(Place(u), Place(v))

Marked(tree, node, T, u, k) ==
  /\ Way(tree, node)
  /\ Linked(tree, T \union {u}, T) /\ Unique(tree) /\ Leaved(tree, node)
  /\ Rank(tree[node]) = k /\ tree[node].kind # "Test"
  /\ node # 1 => Agree(tree[node].test, u, k)

LEMMA PrefixMeans ==
  ASSUME NEW S, NEW a \in Seq(S), NEW b \in Seq(S)
  PROVE  IsPrefix(a, b) <=> Len(a) <= Len(b) /\ \A e \in 1..Len(a) : a[e] = b[e]
<1> DEFINE n == Len(a)
           c == SubSeq(b, 1, n)
<1>1. n \in Nat /\ Len(b) \in Nat /\ DOMAIN a = 1..n
  OBVIOUS
<1>2. SubSeq(a, 1, n) = a
  OBVIOUS
<1>3. IsPrefix(a, b) <=> n <= Len(b) /\ a = c
  BY <1>2, Zenon DEF IsPrefix
<1>4. ASSUME n <= Len(b)
      PROVE  a = c <=> \A e \in 1..n : a[e] = b[e]
  <2>1. c = [e \in 1..n |-> b[e]]
    BY <1>1, <1>4
  <2>2. a = [e \in 1..n |-> a[e]]
    BY <1>1
  <2> HIDE DEF c, n
  <2> QED
    BY <2>1, <2>2
<1> QED
  BY <1>3, <1>4

LEMMA PrefixIs ==
  ASSUME NEW t \in TestId, NEW u \in TestId, Len(Levels(t)) <= Len(Levels(u)),
         Agree(t, u, Len(Levels(t)) + 1)
  PROVE  IsPrefix(Place(t), Place(u))
<1>1. /\ Len(Place(t)) = Len(Levels(t)) + 1 /\ Len(Place(u)) = Len(Levels(u)) + 1
      /\ Len(Levels(t)) \in Nat /\ Len(Levels(u)) \in Nat
  BY PlaceIs, LevelsAre
<1>2. Place(t) \in Seq(STRING) /\ Place(u) \in Seq(STRING)
  BY PlaceIs
<1>3. Len(Place(t)) <= Len(Place(u)) /\ \A i \in 1..Len(Place(t)) : Place(t)[i] = Place(u)[i]
  BY <1>1 DEF Agree
<1> QED
  BY <1>2, <1>3, PrefixMeans

(* The branch under which the rest of a test belongs is found or made; a   *)
(* test is never taken for one, for no other test has its name.            *)
LEMMA DescendMarked ==
  ASSUME NEW T, T \subseteq TestId, NEW u \in TestId, Apart(T, u), NEW k \in 1..Len(Levels(u)),
         NEW at, Marked(at.tree, at.node, T, u, k - 1)
  PROVE  Marked(Descend(at, Levels(u)[k], u).tree, Descend(at, Levels(u)[k], u).node, T, u, k)
<1> DEFINE tree == at.tree
           p == at.node
           level == Levels(u)[k]
           alike == {j \in ChildrenIn(at.tree, at.node) : at.tree[j].label = level.label}
           M == T \union {u}
           d == Descend(at, level, u)
<1>l. /\ level \in BranchRecord /\ level \in Levelled /\ level.label = Place(u)[k] /\ k \in Nat /\ k - 1 \in Nat
      /\ (k - 1) + 1 = k /\ level.kind # "Test" /\ Len(Levels(u)) \in Nat
  <2>1. level \in BranchRecord /\ level.label = Place(u)[k]
    BY PlaceIs
  <2>2. level.kind # "Test"
    BY <2>1 DEF BranchRecord
  <2>3. Len(Levels(u)) \in Nat
    BY LevelsAre
  <2> QED
    BY <2>1, <2>2, <2>3, BranchLevelled
<1>m. /\ Shape(tree) /\ p \in DOMAIN tree /\ Linked(tree, M, T) /\ Unique(tree) /\ Leaved(tree, p)
      /\ Rank(tree[p]) = k - 1 /\ tree[p].kind # "Test" /\ (p # 1 => Agree(tree[p].test, u, k - 1))
      /\ M \subseteq TestId
  BY DEF Marked, Way
<1>n. Len(tree) \in Nat \ {0} /\ DOMAIN tree = 1..Len(tree) /\ DOMAIN tree \subseteq Nat
  BY <1>m, ShapeIs
<1>c. \A j \in ChildrenIn(tree, p) : j \in 2..Len(tree) /\ j \in DOMAIN tree /\ tree[j].parent = p
  <2>1. \A j \in ChildrenIn(tree, p) : j \in DOMAIN tree /\ tree[j].parent = p
    BY DEF ChildrenIn
  <2>2. p \in Nat /\ p # 0 /\ tree[1].parent = 0
    BY <1>m, <1>n DEF Shape
  <2> QED
    BY <1>n, <2>1, <2>2
<1> HIDE DEF tree, p, level, M
<1>1. CASE alike # {}
  <2> DEFINE j == Min(alike)
  <2>1. d.tree = tree /\ d.node = j
    BY <1>1 DEF Descend, tree, p
  <2>2. alike \subseteq DOMAIN tree
    BY DEF ChildrenIn, tree
  <2>3. j \in alike
    <3> HIDE DEF alike
    <3> QED
      BY <1>1, <1>n, <2>2, MinIs
  <2>4. j \in ChildrenIn(tree, p) /\ tree[j].label = level.label
    BY <2>3 DEF tree, p
  <2> HIDE DEF alike, j, d
  <2>5. j \in 2..Len(tree) /\ j \in DOMAIN tree /\ tree[j].parent = p
    BY <1>c, <2>4
  <2>6. /\ LinkedAt(tree, M, T, j) /\ tree[j].test \in TestId /\ tree[j] \in Node /\ MadeOf(tree[j], tree[j].test)
        /\ tree[j].label = Place(tree[j].test)[Rank(tree[j])]
    BY <1>m, <2>5, RankIs DEF Linked
  <2>7. Rank(tree[j]) = k /\ (p # 1 => Agree(tree[p].test, tree[j].test, k - 1))
        /\ (tree[j].kind = "Test" => tree[j].test \in T)
    BY <1>l, <1>m, <2>5, <2>6 DEF LinkedAt
  <2>8. Agree(tree[j].test, u, k)
    <3>1. Place(tree[j].test)[k] = Place(u)[k]
      BY <1>l, <2>4, <2>6, <2>7
    <3>2. Agree(tree[j].test, u, k - 1)
      <4>1. CASE p = 1
        <5>1. k - 1 = 0
          BY <1>m, <4>1, RankIs
        <5> QED
          BY <5>1 DEF Agree
      <4>2. CASE p # 1
        BY <1>m, <2>7, <4>2, Zenon DEF Agree
      <4> QED
        BY <4>1, <4>2
    <3>3. 1..k = (1..(k - 1)) \union {k}
      BY <1>l
    <3> QED
      BY <3>1, <3>2, <3>3, Zenon DEF Agree
  <2>9. tree[j].kind # "Test"
    <3> SUFFICES ASSUME tree[j].kind = "Test"
                 PROVE  FALSE
      OBVIOUS
    <3>1. Len(Levels(tree[j].test)) + 1 = k
      BY <2>7 DEF Rank
    <3>2. Len(Levels(tree[j].test)) \in Nat /\ k <= Len(Levels(u))
      BY <1>l, <2>6, LevelsAre
    <3>3. IsPrefix(Place(tree[j].test), Place(u))
      BY <1>l, <2>6, <2>8, <3>1, <3>2, PrefixIs
    <3> QED
      BY <2>7, <3>3 DEF Apart
  <2>10. Leaved(tree, j)
    BY <1>m, <2>4 DEF Leaved
  <2> QED
    BY <1>m, <2>1, <2>5, <2>7, <2>8, <2>9, <2>10 DEF Marked, Way, M, d, level
<1>2. CASE alike = {}
  <2> DEFINE g == Grow(tree, p, level, u)
             n == Len(tree)
  <2>1. d.tree = g /\ d.node = n + 1
    BY <1>2 DEF Descend, tree, p
  <2>2. GrownBy(tree, p, level, u, g)
    BY <1>l, <1>m, GrowIs
  <2>3. /\ Shape(g) /\ n + 1 \in DOMAIN g /\ Len(g) = n + 1 /\ (\A i \in 1..n : g[i] = tree[i])
        /\ g[n + 1] = [parent |-> p, label |-> level.label, kind |-> level.kind,
                       path |-> level.path, test |-> u]
        /\ \A i : ChildrenIn(g, i) = ChildrenIn(tree, i) \union (IF i = p THEN {n + 1} ELSE {})
    BY <1>n, <2>2 DEF GrownBy
  <2>4. /\ g[n + 1].parent = p /\ g[n + 1].label = level.label /\ g[n + 1].kind = level.kind
        /\ g[n + 1].path = level.path /\ g[n + 1].test = u
    BY <2>3
  <2> HIDE DEF g
  <2>5. MadeOf(g[n + 1], u)
    <3>1. [label |-> level.label, kind |-> level.kind, path |-> level.path] = level
      BY <1>l DEF BranchRecord
    <3>2. [label |-> g[n + 1].label, kind |-> g[n + 1].kind, path |-> g[n + 1].path] = Levels(u)[k]
      BY <2>4, <3>1 DEF level
    <3> QED
      BY <2>4, <3>2 DEF MadeOf
  <2>6. Rank(g[n + 1]) = k
    BY <2>4, RankOfLevel DEF level
  <2>7. Fits(tree, p, g[n + 1], u)
    BY <1>l, <1>m, <2>4, <2>5, <2>6 DEF Fits
  <2>8. Linked(g, M, T)
    <3>1. u \in M
      BY DEF M
    <3> QED
      BY <1>l, <1>m, <2>7, <3>1, GrowLinked DEF g
  <2>9. Unique(g)
    <3>1. ~\E j \in ChildrenIn(tree, p) : tree[j].label = level.label /\ tree[j].kind # "Test"
      BY <1>2 DEF tree, p
    <3> QED
      BY <1>l, <1>m, <2>7, <3>1, GrowUnique DEF g
  <2>10. Leaved(g, n + 1)
    <3> SUFFICES ASSUME NEW i \in 2..Len(g), g[i].kind # "Test", i # n + 1
                 PROVE  ChildrenIn(g, i) # {}
      BY DEF Leaved
    <3>1. i \in 2..n /\ i \in 1..n /\ g[i] = tree[i]
      BY <1>n, <2>3
    <3>2. CASE i = p
      BY <2>3, <3>2
    <3>3. CASE i # p
      <4>1. ChildrenIn(tree, i) # {}
        BY <1>m, <3>1, <3>3 DEF Leaved
      <4> QED
        BY <2>3, <4>1
    <3> QED
      BY <3>2, <3>3
  <2>11. g[n + 1].kind # "Test" /\ Agree(g[n + 1].test, u, k)
    BY <1>l, <2>4 DEF Agree
  <2> HIDE DEF n
  <2>12. Marked(g, n + 1, T, u, k)
    BY <2>3, <2>6, <2>8, <2>9, <2>10, <2>11 DEF Marked, Way, M
  <2> QED
    BY <2>1, <2>12 DEF level
<1> QED
  BY <1>1, <1>2

-----------------------------------------------------------------------------
(* The steps of an insertion.                                              *)
WalkAt(tree, t, g, k) ==
  IF k = 0 THEN [tree |-> tree, node |-> Root] ELSE Descend(g[k - 1], Levels(t)[k], t)
WalkStage(tree, t, g) == [k \in 0..Len(Levels(t)) |-> WalkAt(tree, t, g, k)]
Walk(tree, t) == CHOOSE g : g = WalkStage(tree, t, g)

LEMMA WalkExists ==
  ASSUME NEW tree, NEW t, Len(Levels(t)) \in Nat
  PROVE  /\ Walk(tree, t) = WalkStage(tree, t, Walk(tree, t))
         /\ \A k \in 0..Len(Levels(t)) :
              Walk(tree, t)[k] = WalkAt(tree, t, Walk(tree, t), k)
<1> DEFINE n == Len(Levels(t))
           G(g, k) == WalkAt(tree, t, g, k)
           Upto(m) == \E g : g = [k \in 0..n |-> g[k]] /\ \A k \in 0..m : g[k] = G(g, k)
           missing == {m \in 0..n : ~Upto(m)}
<1>0. \A g, h, k : k # 0 /\ g[k - 1] = h[k - 1] => G(g, k) = G(h, k)
  BY DEF WalkAt
<1>z. \A g, h : G(g, 0) = G(h, 0)
  BY DEF WalkAt
<1> HIDE DEF G, n
<1>n. n \in Nat
  BY DEF n
<1>1. missing = {}
  <2> SUFFICES ASSUME missing # {}
               PROVE  FALSE
    OBVIOUS
  <2>1. PICK m \in missing : \A k \in missing : m <= k
    <3>1. missing \subseteq Nat
      BY <1>n
    <3> HIDE DEF missing
    <3> QED
      BY <3>1, Smallest
  <2>2. m \in 0..n /\ ~Upto(m) /\ m \in Nat
    BY <1>n
  <2>3. m # 0
    <3> DEFINE h == [k \in 0..n |-> G(<<>>, k)]
    <3>1. h = [k \in 0..n |-> h[k]] /\ h[0] = G(<<>>, 0)
      BY <1>n
    <3> HIDE DEF h
    <3>2. \A k \in 0..0 : h[k] = G(h, k)
      BY <1>z, <3>1
    <3> QED
      BY <2>2, <3>1, <3>2
  <2>4. m - 1 \in 0..n /\ ~(m <= m - 1)
    BY <1>n, <2>2, <2>3
  <2>5. Upto(m - 1)
    BY <2>1, <2>4
  <2>6. PICK g : g = [k \in 0..n |-> g[k]] /\ \A k \in 0..(m - 1) : g[k] = G(g, k)
    BY <2>5
  <2> DEFINE h == [k \in 0..n |-> IF k = m THEN G(g, m) ELSE g[k]]
  <2>7. h = [k \in 0..n |-> h[k]]
    OBVIOUS
  <2>8. \A k \in 0..m : h[k] = G(h, k)
    <3> SUFFICES ASSUME NEW k \in 0..m
                 PROVE  h[k] = G(h, k)
      OBVIOUS
    <3>1. h[k] = G(g, k)
      <4>1. CASE k = m
        BY <2>2, <4>1
      <4>2. CASE k # m
        <5>1. k \in 0..(m - 1) /\ k \in 0..n
          BY <1>n, <2>2, <4>2
        <5> QED
          BY <2>6, <4>2, <5>1
      <4> QED
        BY <4>1, <4>2
    <3>2. k # 0 => h[k - 1] = g[k - 1]
      <4> SUFFICES ASSUME k # 0
                   PROVE  h[k - 1] = g[k - 1]
        OBVIOUS
      <4>1. k - 1 \in 0..n /\ k - 1 # m
        BY <1>n, <2>2
      <4> QED
        BY <4>1
    <3> HIDE DEF h
    <3>3. G(h, k) = G(g, k)
      BY <1>0, <1>z, <3>2
    <3> QED
      BY <3>1, <3>3
  <2> HIDE DEF h
  <2>9. Upto(m)
    BY <2>7, <2>8
  <2> QED
    BY <2>2, <2>9
<1>2. Upto(n)
  BY <1>1, <1>n
<1>3. PICK g : g = [k \in 0..n |-> g[k]] /\ \A k \in 0..n : g[k] = G(g, k)
  BY <1>2
<1>4. g = WalkStage(tree, t, g)
  <2>1. [k \in 0..n |-> g[k]] = [k \in 0..n |-> G(g, k)]
    BY <1>3
  <2> QED
    BY <1>3, <2>1, Zenon DEF WalkStage, G, n
<1>5. Walk(tree, t) = WalkStage(tree, t, Walk(tree, t))
  BY <1>4, Zenon DEF Walk
<1> QED
  BY <1>5, Zenon DEF WalkStage

LEMMA InsertIs ==
  ASSUME NEW tree, NEW t
  PROVE  Insert(tree, t) = Grow(Walk(tree, t)[Len(Levels(t))].tree, Walk(tree, t)[Len(Levels(t))].node,
                                Level(t.name, "Test", <<>>), t)
BY DEF Insert, Walk, WalkStage, WalkAt

(* The steps of the construction of a tree.                                *)
GrownAt(tests, g, k) == IF k = 0 THEN Bare ELSE Insert(g[k - 1], tests[k])
GrownStage(tests, g) == [k \in 0..Len(tests) |-> GrownAt(tests, g, k)]
Grown(tests) == CHOOSE g : g = GrownStage(tests, g)

LEMMA GrownExists ==
  ASSUME NEW tests, Len(tests) \in Nat
  PROVE  /\ Grown(tests) = GrownStage(tests, Grown(tests))
         /\ \A k \in 0..Len(tests) :
              Grown(tests)[k] = GrownAt(tests, Grown(tests), k)
<1> DEFINE n == Len(tests)
           G(g, k) == GrownAt(tests, g, k)
           Upto(m) == \E g : g = [k \in 0..n |-> g[k]] /\ \A k \in 0..m : g[k] = G(g, k)
           missing == {m \in 0..n : ~Upto(m)}
<1>0. \A g, h, k : k # 0 /\ g[k - 1] = h[k - 1] => G(g, k) = G(h, k)
  BY DEF GrownAt
<1>z. \A g, h : G(g, 0) = G(h, 0)
  BY DEF GrownAt
<1> HIDE DEF G, n
<1>n. n \in Nat
  BY DEF n
<1>1. missing = {}
  <2> SUFFICES ASSUME missing # {}
               PROVE  FALSE
    OBVIOUS
  <2>1. PICK m \in missing : \A k \in missing : m <= k
    <3>1. missing \subseteq Nat
      BY <1>n
    <3> HIDE DEF missing
    <3> QED
      BY <3>1, Smallest
  <2>2. m \in 0..n /\ ~Upto(m) /\ m \in Nat
    BY <1>n
  <2>3. m # 0
    <3> DEFINE h == [k \in 0..n |-> G(<<>>, k)]
    <3>1. h = [k \in 0..n |-> h[k]] /\ h[0] = G(<<>>, 0)
      BY <1>n
    <3> HIDE DEF h
    <3>2. \A k \in 0..0 : h[k] = G(h, k)
      BY <1>z, <3>1
    <3> QED
      BY <2>2, <3>1, <3>2
  <2>4. m - 1 \in 0..n /\ ~(m <= m - 1)
    BY <1>n, <2>2, <2>3
  <2>5. Upto(m - 1)
    BY <2>1, <2>4
  <2>6. PICK g : g = [k \in 0..n |-> g[k]] /\ \A k \in 0..(m - 1) : g[k] = G(g, k)
    BY <2>5
  <2> DEFINE h == [k \in 0..n |-> IF k = m THEN G(g, m) ELSE g[k]]
  <2>7. h = [k \in 0..n |-> h[k]]
    OBVIOUS
  <2>8. \A k \in 0..m : h[k] = G(h, k)
    <3> SUFFICES ASSUME NEW k \in 0..m
                 PROVE  h[k] = G(h, k)
      OBVIOUS
    <3>1. h[k] = G(g, k)
      <4>1. CASE k = m
        BY <2>2, <4>1
      <4>2. CASE k # m
        <5>1. k \in 0..(m - 1) /\ k \in 0..n
          BY <1>n, <2>2, <4>2
        <5> QED
          BY <2>6, <4>2, <5>1
      <4> QED
        BY <4>1, <4>2
    <3>2. k # 0 => h[k - 1] = g[k - 1]
      <4> SUFFICES ASSUME k # 0
                   PROVE  h[k - 1] = g[k - 1]
        OBVIOUS
      <4>1. k - 1 \in 0..n /\ k - 1 # m
        BY <1>n, <2>2
      <4> QED
        BY <4>1
    <3> HIDE DEF h
    <3>3. G(h, k) = G(g, k)
      BY <1>0, <1>z, <3>2
    <3> QED
      BY <3>1, <3>3
  <2> HIDE DEF h
  <2>9. Upto(m)
    BY <2>7, <2>8
  <2> QED
    BY <2>2, <2>9
<1>2. Upto(n)
  BY <1>1, <1>n
<1>3. PICK g : g = [k \in 0..n |-> g[k]] /\ \A k \in 0..n : g[k] = G(g, k)
  BY <1>2
<1>4. g = GrownStage(tests, g)
  <2>1. [k \in 0..n |-> g[k]] = [k \in 0..n |-> G(g, k)]
    BY <1>3
  <2> QED
    BY <1>3, <2>1, Zenon DEF GrownStage, G, n
<1>5. Grown(tests) = GrownStage(tests, Grown(tests))
  BY <1>4, Zenon DEF Grown
<1> QED
  BY <1>5, Zenon DEF GrownStage

LEMMA FromTestsIs ==
  ASSUME NEW tests
  PROVE  FromTests(tests) = Grown(tests)[Len(tests)]
BY DEF FromTests, Grown, GrownStage, GrownAt

(* What is true before the first step and kept by each is true after all.  *)
LEMMA InsertShape ==
  ASSUME NEW tree, Shape(tree), NEW t \in TestId
  PROVE  Shape(Insert(tree, t))
<1> DEFINE n == Len(Levels(t))
           w == Walk(tree, t)
           bad == {k \in 0..n : ~Way(w[k].tree, w[k].node)}
<1>n. n \in Nat /\ (\A k \in 1..n : Levels(t)[k] \in Levelled)
  BY PlaceIs, LevelsAre, BranchLevelled
<1>1. \A k \in 0..n : w[k] = WalkAt(tree, t, w, k)
  BY <1>n, WalkExists
<1> HIDE DEF n, w
<1>2. bad = {}
  <2> SUFFICES ASSUME bad # {}
               PROVE  FALSE
    OBVIOUS
  <2>1. PICK m \in bad : \A k \in bad : m <= k
    <3>1. bad \subseteq Nat
      BY <1>n
    <3> HIDE DEF bad
    <3> QED
      BY <3>1, Smallest
  <2>2. m \in 0..n /\ ~Way(w[m].tree, w[m].node) /\ m \in Nat
    BY <1>n
  <2>3. m # 0
    <3> SUFFICES ASSUME m = 0
                 PROVE  Way(w[0].tree, w[0].node)
      BY <2>2
    <3>1. w[0] = [tree |-> tree, node |-> Root]
      BY <1>1, <2>2 DEF WalkAt
    <3> QED
      BY <3>1, ShapeIs DEF Way, Root
  <2>4. m - 1 \in 0..n /\ m \in 1..n /\ ~(m <= m - 1)
    BY <1>n, <2>2, <2>3
  <2>5. Way(w[m - 1].tree, w[m - 1].node)
    BY <2>1, <2>4
  <2>6. w[m] = Descend(w[m - 1], Levels(t)[m], t)
    BY <1>1, <2>2, <2>3 DEF WalkAt
  <2> QED
    BY <1>n, <2>2, <2>4, <2>5, <2>6, DescendWay
<1>3. n \in 0..n
  BY <1>n
<1>4. Way(w[n].tree, w[n].node)
  BY <1>2, <1>3
<1>5. Insert(tree, t) = Grow(w[n].tree, w[n].node, Level(t.name, "Test", <<>>), t)
  BY InsertIs DEF n, w
<1>6. Level(t.name, "Test", <<>>) \in Levelled
  BY DEF Level, Levelled, Kinds, TestId
<1>7. GrownBy(w[n].tree, w[n].node, Level(t.name, "Test", <<>>), t, Insert(tree, t))
  BY <1>4, <1>5, <1>6, GrowIs DEF Way
<1> QED
  BY <1>7 DEF GrownBy

(* The tree of the tests T.                                                *)
Planted(tree, T) == Shape(tree) /\ Linked(tree, T, T) /\ Unique(tree) /\ Leaved(tree, Root)

LEMMA InsertPlanted ==
  ASSUME NEW tree, NEW T, T \subseteq TestId, NEW u \in TestId, Apart(T, u), Planted(tree, T)
  PROVE  Planted(Insert(tree, u), T \union {u})
<1> DEFINE n == Len(Levels(u))
           w == Walk(tree, u)
           level == Level(u.name, "Test", <<>>)
           bad == {k \in 0..n : ~Marked(w[k].tree, w[k].node, T, u, k)}
<1>n. n \in Nat /\ (\A k \in 1..n : Levels(u)[k] \in Levelled)
  BY PlaceIs, LevelsAre, BranchLevelled
<1>1. \A k \in 0..n : w[k] = WalkAt(tree, u, w, k)
  BY <1>n, WalkExists
<1>t. Shape(tree) /\ Linked(tree, T, T) /\ Unique(tree) /\ Leaved(tree, Root)
  BY DEF Planted
<1>0. Marked(tree, Root, T, u, 0)
  <2>1. Linked(tree, T \union {u}, T)
    BY <1>t DEF Linked, LinkedAt
  <2>2. Root = 1 /\ 1 \in DOMAIN tree /\ Rank(tree[1]) = 0 /\ tree[1].kind # "Test"
    BY <1>t, ShapeIs, RankIs DEF Root, Shape
  <2> QED
    BY <1>t, <2>1, <2>2 DEF Marked, Way
<1> HIDE DEF w, level
<1>2. bad = {}
  <2> SUFFICES ASSUME bad # {}
               PROVE  FALSE
    OBVIOUS
  <2>1. PICK m \in bad : \A k \in bad : m <= k
    <3>1. bad \subseteq Nat
      BY <1>n
    <3> HIDE DEF bad
    <3> QED
      BY <3>1, Smallest
  <2>2. m \in 0..n /\ ~Marked(w[m].tree, w[m].node, T, u, m) /\ m \in Nat
    BY <1>n
  <2>3. m # 0
    <3> SUFFICES ASSUME m = 0
                 PROVE  Marked(w[0].tree, w[0].node, T, u, 0)
      BY <2>2
    <3>1. w[0] = [tree |-> tree, node |-> Root]
      BY <1>1, <2>2 DEF WalkAt
    <3> QED
      BY <1>0, <3>1
  <2>4. m - 1 \in 0..n /\ m \in 1..n /\ ~(m <= m - 1)
    BY <1>n, <2>2, <2>3
  <2>5. Marked(w[m - 1].tree, w[m - 1].node, T, u, m - 1)
    BY <2>1, <2>4
  <2>6. w[m] = Descend(w[m - 1], Levels(u)[m], u)
    BY <1>1, <2>2, <2>3 DEF WalkAt
  <2> QED
    BY <2>2, <2>4, <2>5, <2>6, DescendMarked
<1>3. n \in 0..n
  BY <1>n
<1> DEFINE at == w[n].tree
           p == w[n].node
           g == Grow(at, p, level, u)
<1>4. Marked(at, p, T, u, n)
  BY <1>2, <1>3
<1>5. Insert(tree, u) = g
  BY InsertIs DEF w, level
<1>6. level \in Levelled /\ level.kind = "Test" /\ level.label = u.name /\ level.path = <<>>
  BY DEF Level, Levelled, Kinds, TestId, level
<1>m. /\ Shape(at) /\ p \in DOMAIN at /\ Linked(at, T \union {u}, T) /\ Unique(at) /\ Leaved(at, p)
      /\ Rank(at[p]) = n /\ at[p].kind # "Test" /\ (p # 1 => Agree(at[p].test, u, n))
  BY <1>4 DEF Marked, Way
<1> HIDE DEF at, p, bad
<1>7. GrownBy(at, p, level, u, g)
  BY <1>6, <1>m, GrowIs
<1> DEFINE new == g[Len(at) + 1]
<1>8. /\ new.parent = p /\ new.label = level.label /\ new.kind = "Test" /\ new.path = <<>> /\ new.test = u
  <2>1. new = [parent |-> p, label |-> level.label, kind |-> level.kind, path |-> level.path, test |-> u]
    BY <1>7 DEF GrownBy
  <2> QED
    BY <1>6, <2>1
<1> HIDE DEF g, new
<1>9. Fits(at, p, new, u)
  <2>1. MadeOf(new, u) /\ Rank(new) = n + 1
    BY <1>6, <1>8 DEF MadeOf, Rank
  <2> QED
    BY <1>8, <1>m, <2>1 DEF Fits
<1>10. u \notin T
  <2>1. IsPrefix(Place(u), Place(u))
    BY PlaceIs, LevelsAre DEF IsPrefix
  <2> QED
    BY <2>1 DEF Apart
<1>11. Linked(g, T \union {u}, T \union {u})
  BY <1>6, <1>9, <1>m, GrowLinked DEF g, new
<1>12. Unique(g)
  BY <1>6, <1>9, <1>10, <1>m, GrowUnique DEF g, new
<1>13. Leaved(g, Root)
  <2> SUFFICES ASSUME NEW i \in 2..Len(g), g[i].kind # "Test"
               PROVE  ChildrenIn(g, i) # {}
    BY DEF Leaved
  <2>1. /\ Len(at) \in Nat /\ Len(g) = Len(at) + 1 /\ DOMAIN at = 1..Len(at)
        /\ \A j \in DOMAIN at : g[j] = at[j]
        /\ \A j : ChildrenIn(g, j) = ChildrenIn(at, j) \union (IF j = p THEN {Len(at) + 1} ELSE {})
    BY <1>7, <1>m, ShapeIs DEF GrownBy
  <2>2. i # Len(at) + 1
    BY <1>8 DEF new
  <2>3. i \in 2..Len(at) /\ g[i] = at[i]
    BY <2>1, <2>2
  <2>4. CASE i = p
    BY <2>1, <2>4
  <2>5. CASE i # p
    <3>1. ChildrenIn(at, i) # {}
      BY <1>m, <2>3, <2>5 DEF Leaved
    <3> QED
      BY <2>1, <3>1
  <2> QED
    BY <2>4, <2>5
<1>14. Shape(g)
  BY <1>7 DEF GrownBy
<1> QED
  BY <1>5, <1>11, <1>12, <1>13, <1>14 DEF Planted

LEMMA BareShape == Shape(Bare) /\ Len(Bare) = 1
<1> DEFINE root == [parent |-> 0, label |-> "workspace", kind |-> "Workspace", path |-> <<>>, test |-> <<>>]
           none == <<>>
           Ids == TestId \union {<<>>}
           Paths == Seq(STRING)
<1>0. none \in Ids /\ none \in Paths
  OBVIOUS
<1>1. root \in Node /\ root.kind = "Workspace" /\ root.parent = 0
  <2> HIDE DEF none, Ids, Paths
  <2>1. [parent |-> 0, label |-> "workspace", kind |-> "Workspace", path |-> none, test |-> none]
          \in [parent : Nat, label : STRING \union {"workspace"}, kind : Kinds, path : Paths, test : Ids]
    <3>1. 0 \in Nat /\ "Workspace" \in Kinds /\ "workspace" \in STRING \union {"workspace"}
      BY DEF Kinds
    <3> QED
      BY <1>0, <3>1, Zenon
  <2>2. root \in Node
    BY <2>1 DEF Node, none, Ids, Paths
  <2> QED
    BY <2>2
<1>2. Bare = <<root>>
  BY DEF Bare
<1> HIDE DEF root
<1>3. Bare \in Seq(Node) /\ Len(Bare) = 1 /\ Bare[1] = root
  BY <1>1, <1>2
<1> QED
  BY <1>1, <1>3 DEF Shape

LEMMA FromTestsShape ==
  ASSUME NEW tests \in Seq(TestId)
  PROVE  Shape(FromTests(tests))
<1> DEFINE n == Len(tests)
           g == Grown(tests)
           bad == {k \in 0..n : ~Shape(g[k])}
<1>n. n \in Nat /\ \A k \in 1..n : tests[k] \in TestId
  OBVIOUS
<1>1. \A k \in 0..n : g[k] = GrownAt(tests, g, k)
  BY <1>n, GrownExists
<1> HIDE DEF n, g
<1>2. bad = {}
  <2> SUFFICES ASSUME bad # {}
               PROVE  FALSE
    OBVIOUS
  <2>1. PICK m \in bad : \A k \in bad : m <= k
    <3>1. bad \subseteq Nat
      BY <1>n
    <3> HIDE DEF bad
    <3> QED
      BY <3>1, Smallest
  <2>2. m \in 0..n /\ ~Shape(g[m]) /\ m \in Nat
    BY <1>n
  <2>3. m # 0
    BY <1>1, <2>2, BareShape DEF GrownAt
  <2>4. m - 1 \in 0..n /\ m \in 1..n /\ ~(m <= m - 1)
    BY <1>n, <2>2, <2>3
  <2>5. Shape(g[m - 1])
    BY <2>1, <2>4
  <2>6. g[m] = Insert(g[m - 1], tests[m])
    BY <1>1, <2>2, <2>3 DEF GrownAt
  <2> QED
    BY <1>n, <2>2, <2>4, <2>5, <2>6, InsertShape
<1>3. n \in 0..n
  BY <1>n
<1> QED
  BY <1>2, <1>3, FromTestsIs DEF n, g

LEMMA FromTestsPlanted ==
  ASSUME NEW tests \in Seq(TestId),
         \A k, l \in DOMAIN tests : k # l => ~IsPrefix(Place(tests[k]), Place(tests[l]))
  PROVE  Planted(FromTests(tests), {tests[k] : k \in DOMAIN tests})
<1> DEFINE n == Len(tests)
           g == Grown(tests)
           Upto(m) == {tests[k] : k \in 1..m}
           bad == {k \in 0..n : ~Planted(g[k], Upto(k))}
<1>n. n \in Nat /\ (\A k \in 1..n : tests[k] \in TestId) /\ DOMAIN tests = 1..n
  OBVIOUS
<1>1. \A k \in 0..n : g[k] = GrownAt(tests, g, k)
  BY <1>n, GrownExists
<1>0. Planted(Bare, Upto(0))
  <2>1. 2..Len(Bare) = {} /\ Shape(Bare) /\ Upto(0) = {}
    BY BareShape
  <2> QED
    BY <2>1 DEF Planted, Linked, Unique, Leaved
<1> HIDE DEF n, g
<1>2. bad = {}
  <2> SUFFICES ASSUME bad # {}
               PROVE  FALSE
    OBVIOUS
  <2>1. PICK m \in bad : \A k \in bad : m <= k
    <3>1. bad \subseteq Nat
      BY <1>n
    <3> HIDE DEF bad
    <3> QED
      BY <3>1, Smallest
  <2>2. m \in 0..n /\ ~Planted(g[m], Upto(m)) /\ m \in Nat
    BY <1>n
  <2>3. m # 0
    <3> SUFFICES ASSUME m = 0
                 PROVE  FALSE
      OBVIOUS
    <3>1. g[0] = Bare
      BY <1>1, <2>2 DEF GrownAt
    <3> QED
      BY <1>0, <2>2, <3>1
  <2>4. m - 1 \in 0..n /\ m \in 1..n /\ ~(m <= m - 1) /\ 1..m = (1..(m - 1)) \union {m}
    BY <1>n, <2>2, <2>3
  <2>5. Planted(g[m - 1], Upto(m - 1))
    BY <2>1, <2>4
  <2>6. g[m] = Insert(g[m - 1], tests[m])
    BY <1>1, <2>2, <2>3 DEF GrownAt
  <2>7. Apart(Upto(m - 1), tests[m])
    <3>1. \A k \in 1..(m - 1) : k \in DOMAIN tests /\ k # m
      BY <1>n, <2>2
    <3>2. m \in DOMAIN tests
      BY <1>n, <2>4
    <3> QED
      BY <3>1, <3>2 DEF Apart
  <2>8. Upto(m - 1) \subseteq TestId /\ tests[m] \in TestId
    BY <1>n, <2>4
  <2>9. Upto(m) = Upto(m - 1) \union {tests[m]}
    BY <2>4
  <2> HIDE DEF Upto
  <2> QED
    BY <2>2, <2>5, <2>6, <2>7, <2>8, <2>9, InsertPlanted
<1>3. n \in 0..n
  BY <1>n
<1>4. Planted(g[n], Upto(n)) /\ FromTests(tests) = g[n]
  BY <1>2, <1>3, FromTestsIs DEF n, g
<1> QED
  BY <1>4, <1>n DEF n

-----------------------------------------------------------------------------
(* The branches over a node.                                               *)
OverAt(tree, f, i) == IF i = Root THEN {} ELSE {tree[i].parent} \union f[tree[i].parent]
OverStage(tree, f) == [i \in DOMAIN tree |-> OverAt(tree, f, i)]

LEMMA OverExists ==
  ASSUME NEW tree, Shape(tree)
  PROVE  \E f : f = OverStage(tree, f)
<1> DEFINE n == Len(tree)
           G(g, k) == OverAt(tree, g, k)
           Upto(m) == \E g : g = [k \in 1..n |-> g[k]] /\ \A k \in 1..m : g[k] = G(g, k)
           missing == {m \in 0..n : ~Upto(m)}
<1>n. n \in Nat /\ DOMAIN tree = 1..n /\ \A k \in 1..n : k = Root \/ (tree[k].parent \in 1..n /\ tree[k].parent < k)
  BY ShapeIs DEF Root
<1>0. \A g, h, k : (k # Root => g[tree[k].parent] = h[tree[k].parent]) => G(g, k) = G(h, k)
  BY DEF OverAt
<1> HIDE DEF G, n
<1>1. missing = {}
  <2> SUFFICES ASSUME missing # {}
               PROVE  FALSE
    OBVIOUS
  <2>1. PICK m \in missing : \A k \in missing : m <= k
    <3>1. missing \subseteq Nat
      BY <1>n
    <3> HIDE DEF missing
    <3> QED
      BY <3>1, Smallest
  <2>2. m \in 0..n /\ ~Upto(m) /\ m \in Nat
    BY <1>n
  <2>3. m # 0
    <3> DEFINE h == [k \in 1..n |-> k]
    <3>1. h = [k \in 1..n |-> h[k]]
      OBVIOUS
    <3> HIDE DEF h
    <3>2. \A k \in 1..0 : h[k] = G(h, k)
      OBVIOUS
    <3> QED
      BY <2>2, <3>1, <3>2
  <2>4. m - 1 \in 0..n /\ ~(m <= m - 1) /\ m \in 1..n
    BY <1>n, <2>2, <2>3
  <2>5. Upto(m - 1)
    BY <2>1, <2>4
  <2>6. PICK g : g = [k \in 1..n |-> g[k]] /\ \A k \in 1..(m - 1) : g[k] = G(g, k)
    BY <2>5
  <2> DEFINE h == [k \in 1..n |-> IF k = m THEN G(g, m) ELSE g[k]]
  <2>7. h = [k \in 1..n |-> h[k]]
    OBVIOUS
  <2>8. \A k \in 1..m : h[k] = G(h, k)
    <3> SUFFICES ASSUME NEW k \in 1..m
                 PROVE  h[k] = G(h, k)
      OBVIOUS
    <3>1. h[k] = G(g, k)
      <4>1. CASE k = m
        BY <2>4, <4>1
      <4>2. CASE k # m
        <5>1. k \in 1..(m - 1) /\ k \in 1..n
          BY <1>n, <2>2, <4>2
        <5> QED
          BY <2>6, <4>2, <5>1
      <4> QED
        BY <4>1, <4>2
    <3>2. k # Root => h[tree[k].parent] = g[tree[k].parent]
      <4> SUFFICES ASSUME k # Root
                   PROVE  h[tree[k].parent] = g[tree[k].parent]
        OBVIOUS
      <4>1. k \in 1..n /\ k <= m
        BY <1>n, <2>2
      <4>2. tree[k].parent \in 1..n /\ tree[k].parent # m
        BY <1>n, <2>2, <4>1
      <4> QED
        BY <4>2
    <3> HIDE DEF h
    <3>3. G(h, k) = G(g, k)
      BY <1>0, <3>2
    <3> QED
      BY <3>1, <3>3
  <2> HIDE DEF h
  <2>9. Upto(m)
    BY <2>7, <2>8
  <2> QED
    BY <2>2, <2>9
<1>2. Upto(n)
  BY <1>1, <1>n
<1>3. PICK g : g = [k \in 1..n |-> g[k]] /\ \A k \in 1..n : g[k] = G(g, k)
  BY <1>2
<1>4. g = OverStage(tree, g)
  <2>1. [k \in 1..n |-> g[k]] = [k \in 1..n |-> G(g, k)]
    BY <1>3
  <2>2. OverStage(tree, g) = [k \in 1..n |-> G(g, k)]
    BY <1>n, Zenon DEF OverStage, G
  <2> QED
    BY <1>3, <2>1, <2>2, Zenon
<1> QED
  BY <1>4, Zenon

LEMMA OverIs ==
  ASSUME Shape(nodes)
  PROVE  \A i \in Nodes : Over[i] = IF i = Root THEN {} ELSE {nodes[i].parent} \union Over[nodes[i].parent]
<1> DEFINE f == CHOOSE f : f = OverStage(nodes, f)
<1>1. f = OverStage(nodes, f)
  BY OverExists, Zenon
<1>2. Over = f
  BY DEF Over, OverStage, OverAt, Nodes
<1> HIDE DEF f
<1>3. \A i \in Nodes : f[i] = OverAt(nodes, f, i)
  BY <1>1, Zenon DEF OverStage, Nodes
<1> QED
  BY <1>2, <1>3, Zenon DEF OverAt

(* A node is over another if that is one of its children or under one.     *)
LEMMA OverHolds ==
  ASSUME Shape(nodes)
  PROVE  /\ \A j \in Nodes : Over[j] \subseteq 1..(j - 1)
         /\ \A i, j \in Nodes : i \in Over[j] <=> \E c \in ChildrenIn(nodes, i) : c = j \/ c \in Over[j]
         /\ \A i \in Nodes : \A c \in ChildrenIn(nodes, i) : c \in Nodes /\ c # Root /\ Over[c] = {i} \union Over[i]
         /\ \A j \in Nodes \ {Root} : Root \in Over[j]
         /\ Over[Root] = {}
<1> DEFINE n == Len(nodes)
           Low(j) == Over[j] \subseteq 1..(j - 1)
           Split(j) == \A i \in Nodes : i \in Over[j] <=> \E c \in ChildrenIn(nodes, i) : c = j \/ c \in Over[j]
           Good(j) == Low(j) /\ Split(j) /\ (j # Root => Root \in Over[j])
           bad == {j \in 1..n : ~Good(j)}
<1>n. /\ n \in Nat /\ Nodes = 1..n /\ 1 \in Nodes
      /\ \A j \in Nodes \ {Root} : nodes[j].parent \in Nodes /\ nodes[j].parent < j
  BY ShapeIs DEF Nodes, Root
<1>o. \A i \in Nodes : Over[i] = IF i = Root THEN {} ELSE {nodes[i].parent} \union Over[nodes[i].parent]
  BY OverIs
<1>c. \A i \in Nodes : \A c \in ChildrenIn(nodes, i) : c \in Nodes /\ c # Root /\ nodes[c].parent = i
  <2>1. \A i \in Nodes : \A c \in ChildrenIn(nodes, i) : c \in Nodes /\ nodes[c].parent = i
    BY DEF ChildrenIn, Nodes
  <2>2. nodes[1].parent = 0 /\ 0 \notin Nodes
    BY <1>n DEF Shape
  <2> QED
    BY <2>1, <2>2 DEF Root
<1>k. \A j \in Nodes \ {Root} : j \in ChildrenIn(nodes, nodes[j].parent)
  BY DEF ChildrenIn, Nodes
<1> HIDE DEF n
<1>1. bad = {}
  <2> SUFFICES ASSUME bad # {}
               PROVE  FALSE
    OBVIOUS
  <2>1. PICK j \in bad : \A k \in bad : j <= k
    <3>1. bad \subseteq Nat
      BY <1>n
    <3> HIDE DEF bad
    <3> QED
      BY <3>1, Smallest
  <2>2. j \in Nodes /\ ~Good(j) /\ j \in Nat
    BY <1>n
  <2>3. CASE j = Root
    <3>1. Over[j] = {}
      BY <1>o, <2>2, <2>3
    <3>2. Split(j)
      BY <1>c, <2>3, <3>1
    <3> QED
      BY <2>2, <2>3, <3>1, <3>2
  <2>4. CASE j # Root
    <3> DEFINE p == nodes[j].parent
    <3>1. p \in Nodes /\ p < j /\ Over[j] = {p} \union Over[p] /\ p \in 1..n
      BY <1>n, <1>o, <2>2, <2>4
    <3>2. Good(p)
      <4>1. ~(j <= p)
        BY <1>n, <2>2, <3>1
      <4> QED
        BY <2>1, <3>1, <4>1
    <3>3. Low(j)
      <4>1. Over[p] \subseteq 1..(p - 1) /\ p \in Nat
        BY <1>n, <3>1, <3>2
      <4> QED
        BY <2>2, <3>1, <4>1
    <3>4. Split(j)
      <4> SUFFICES ASSUME NEW i \in Nodes
                   PROVE  i \in Over[j] <=> \E c \in ChildrenIn(nodes, i) : c = j \/ c \in Over[j]
        OBVIOUS
      <4>1. i \in Over[p] <=> \E c \in ChildrenIn(nodes, i) : c = p \/ c \in Over[p]
        BY <3>2
      <4>2. i = p <=> j \in ChildrenIn(nodes, i)
        BY <1>c, <1>k, <2>2, <2>4
      <4> HIDE DEF p, Good
      <4> QED
        BY <3>1, <4>1, <4>2, Zenon
    <3>5. Root \in Over[j]
      BY <3>1, <3>2
    <3> QED
      BY <2>2, <3>3, <3>4, <3>5
  <2> QED
    BY <2>3, <2>4
<1>2. \A j \in Nodes : Good(j)
  BY <1>1, <1>n
<1>3. \A i \in Nodes : \A c \in ChildrenIn(nodes, i) : Over[c] = {i} \union Over[i]
  BY <1>c, <1>o
<1>4. Over[Root] = {}
  BY <1>o, <1>n DEF Root
<1> HIDE DEF bad
<1> QED
  BY <1>2, <1>3, <1>4, <1>c

(* A tree without empty branches and without nodes below a test.           *)
Trim ==
  /\ Shape(nodes) /\ Leaved(nodes, Root)
  /\ \A i \in Leaves : ChildrenIn(nodes, i) = {}

LEMMA PlantedTrim ==
  ASSUME NEW T, Planted(nodes, T)
  PROVE  Trim
<1>1. Shape(nodes) /\ Leaved(nodes, Root) /\ Linked(nodes, T, T)
  BY DEF Planted
<1>2. ASSUME NEW i \in Leaves, ChildrenIn(nodes, i) # {}
      PROVE  FALSE
  <2>1. PICK c \in ChildrenIn(nodes, i) : TRUE
    BY <1>2
  <2>2. c \in DOMAIN nodes /\ nodes[c].parent = i /\ i \in Nat /\ i # 0 /\ nodes[i].kind = "Test"
    BY <1>1, ShapeIs DEF ChildrenIn, Leaves, Nodes
  <2>3. c \in 2..Len(nodes)
    BY <1>1, <2>2, ShapeIs DEF Shape
  <2> QED
    BY <1>1, <2>2, <2>3 DEF Linked, LinkedAt
<1> QED
  BY <1>1, <1>2 DEF Trim

(* The tests under a branch are those under its children, and there is one *)
(* under every node but an empty workspace.                                *)
LEMMA UnderHolds ==
  ASSUME Trim
  PROVE  /\ \A i \in Leaves : Under(i) = {i}
         /\ \A i \in Nodes \ Leaves : \A j : j \in Under(i) <=> \E c \in ChildrenIn(nodes, i) : j \in Under(c)
         /\ \A i \in Nodes \ {Root} : Under(i) # {}
         /\ Under(Root) = Leaves /\ Root \in Nodes \ Leaves
<1>1. /\ Shape(nodes) /\ Leaved(nodes, Root) /\ Leaves \subseteq Nodes
      /\ \A i \in Leaves : ChildrenIn(nodes, i) = {}
  BY DEF Trim, Leaves
<1>2. /\ \A i, j \in Nodes : i \in Over[j] <=> \E c \in ChildrenIn(nodes, i) : c = j \/ c \in Over[j]
      /\ \A i \in Nodes : \A c \in ChildrenIn(nodes, i) : c \in Nodes
      /\ \A j \in Nodes \ {Root} : Root \in Over[j]
  BY <1>1, OverHolds
<1>3. ASSUME NEW i \in Leaves
      PROVE  Under(i) = {i}
  <2>1. \A j \in Leaves : i \notin Over[j]
    BY <1>1, <1>2
  <2> QED
    BY <2>1 DEF Under
<1>4. \A i \in Nodes \ Leaves : \A j : j \in Under(i) <=> \E c \in ChildrenIn(nodes, i) : j \in Under(c)
  BY <1>1, <1>2, Zenon DEF Under
<1>5. Root \in Nodes \ Leaves
  BY <1>1, ShapeIs DEF Shape, Root, Nodes, Leaves
<1>6. Under(Root) = Leaves
  <2>1. \A j \in Leaves : Root \in Over[j]
    BY <1>1, <1>2, <1>5
  <2> QED
    BY <2>1 DEF Under
<1>7. \A i \in Nodes \ {Root} : Under(i) # {}
  <2> DEFINE n == Len(nodes)
             bad == {i \in 1..n : i # Root /\ Under(i) = {}}
  <2>n. n \in Nat /\ Nodes = 1..n
    BY <1>1, ShapeIs DEF Nodes
  <2> HIDE DEF n
  <2>1. bad = {}
    <3> SUFFICES ASSUME bad # {}
                 PROVE  FALSE
      OBVIOUS
    <3>1. PICK i \in bad : \A k \in bad : k <= i
      <4>1. bad \subseteq 1..n
        OBVIOUS
      <4> HIDE DEF bad
      <4> QED
        BY <2>n, <4>1, Greatest
    <3>2. i \in Nodes /\ i # Root /\ Under(i) = {} /\ i \in Nat
      BY <2>n
    <3>3. i \notin Leaves
      BY <1>3, <3>2
    <3>4. ChildrenIn(nodes, i) # {}
      <4>1. i \in 2..Len(nodes) /\ nodes[i].kind # "Test"
        BY <2>n, <3>2, <3>3 DEF Root, Leaves, n
      <4> QED
        BY <1>1, <3>2, <4>1 DEF Leaved
    <3>5. PICK c \in ChildrenIn(nodes, i) : TRUE
      BY <3>4
    <3>6. c \in Nodes /\ c \in Nat /\ c > i
      BY <1>1, <1>2, <2>n, <3>2, <3>5, ShapeIs
    <3>7. Under(c) = {}
      BY <1>4, <3>2, <3>3, <3>5
    <3>8. c \in bad /\ ~(c <= i)
      BY <2>n, <3>2, <3>6, <3>7 DEF Root
    <3> QED
      BY <3>1, <3>8
  <2> QED
    BY <2>1, <2>n
<1> QED
  BY <1>3, <1>4, <1>5, <1>6, <1>7

-----------------------------------------------------------------------------
(* The rows are what the filter shows.                                     *)
LEMMA VisibleMeans ==
  ASSUME Trim
  PROVE  \A i \in Nodes : HasVisibleTests[i] <=> \E j \in Under(i) : status[j] \notin hidden
<1> DEFINE n == Len(nodes)
           Good(i) == HasVisibleTests[i] <=> \E j \in Under(i) : status[j] \notin hidden
           bad == {i \in 1..n : ~Good(i)}
<1>n. Shape(nodes) /\ n \in Nat /\ Nodes = 1..n
  BY ShapeIs DEF Nodes, Trim
<1>v. \A i \in Nodes : HasVisibleTests[i] <=> IF nodes[i].kind = "Test" THEN status[i] \notin hidden
                                              ELSE \E j \in ChildrenIn(nodes, i) : HasVisibleTests[j]
  BY <1>n, VisibleIs
<1>u. /\ \A i \in Leaves : Under(i) = {i}
      /\ \A i \in Nodes \ Leaves : \A j : j \in Under(i) <=> \E c \in ChildrenIn(nodes, i) : j \in Under(c)
  BY UnderHolds
<1> HIDE DEF n
<1>1. bad = {}
  <2> SUFFICES ASSUME bad # {}
               PROVE  FALSE
    OBVIOUS
  <2>1. PICK i \in bad : \A k \in bad : k <= i
    <3>1. bad \subseteq 1..n
      OBVIOUS
    <3> HIDE DEF bad
    <3> QED
      BY <1>n, <3>1, Greatest
  <2>2. i \in Nodes /\ i \in Nat /\ ~Good(i)
    BY <1>n
  <2>3. \A c \in ChildrenIn(nodes, i) : Good(c)
    <3> SUFFICES ASSUME NEW c \in ChildrenIn(nodes, i)
                 PROVE  Good(c)
      OBVIOUS
    <3>1. c \in Nodes /\ c \in Nat /\ c > i
      BY <1>n, <2>2, ShapeIs DEF ChildrenIn, Nodes
    <3>2. c \in 1..n /\ ~(c <= i)
      BY <1>n, <2>2, <3>1
    <3> QED
      BY <2>1, <3>2
  <2>4. CASE i \in Leaves
    <3>1. nodes[i].kind = "Test"
      BY <2>4 DEF Leaves
    <3> QED
      BY <1>u, <1>v, <2>2, <2>4, <3>1
  <2>5. CASE i \notin Leaves
    <3>1. nodes[i].kind # "Test"
      BY <2>2, <2>5 DEF Leaves
    <3>2. HasVisibleTests[i] <=> \E c \in ChildrenIn(nodes, i) : HasVisibleTests[c]
      BY <1>v, <2>2, <3>1, Zenon
    <3>3. \A j : j \in Under(i) <=> \E c \in ChildrenIn(nodes, i) : j \in Under(c)
      BY <1>u, <2>2, <2>5
    <3>4. \A c \in ChildrenIn(nodes, i) : HasVisibleTests[c] <=> \E j \in Under(c) : status[j] \notin hidden
      BY <2>3
    <3>5. HasVisibleTests[i] <=> \E j \in Under(i) : status[j] \notin hidden
      BY <3>2, <3>3, <3>4, Zenon
    <3> QED
      BY <2>2, <3>5
  <2> QED
    BY <2>4, <2>5
<1> QED
  BY <1>1, <1>n

LEMMA RowsShow ==
  ASSUME Trim
  PROVE  RowsShowTheFiltered
<1> DEFINE n == Len(nodes)
           Good(i) == \A j \in Leaves : IsVisible(j, RowsFrom[i]) <=>
                        j \in Under(i) /\ status[j] \notin hidden /\ Over[j] \ Over[i] \subseteq expanded
           bad == {i \in 1..n : ~Good(i)}
<1>n. Shape(nodes) /\ n \in Nat /\ Nodes = 1..n
  BY ShapeIs DEF Nodes, Trim
<1>r. \A i \in Nodes : \A x : IsVisible(x, RowsFrom[i]) <=>
        /\ i = Root \/ HasVisibleTests[i]
        /\ x = i \/ (i \in expanded /\ \E j \in ChildrenIn(nodes, i) : IsVisible(x, RowsFrom[j]))
  <2>1. \A i \in Nat : RowsFrom[i] = RowsAt(nodes, expanded, HasVisibleTests, RowsFrom, i)
    BY <1>n, RowsAre
  <2>2. \A i \in DOMAIN nodes : RowsUnder(nodes, expanded, HasVisibleTests, RowsFrom, i)
    BY <1>n, <2>1, RowsHold
  <2> QED
    BY <2>2, Zenon DEF RowsUnder, Nodes
<1>v. \A i \in Nodes : HasVisibleTests[i] <=> \E j \in Under(i) : status[j] \notin hidden
  BY VisibleMeans
<1>u. /\ \A i \in Leaves : Under(i) = {i} /\ ChildrenIn(nodes, i) = {}
      /\ \A i \in Nodes \ Leaves : \A j : j \in Under(i) <=> \E c \in ChildrenIn(nodes, i) : j \in Under(c)
      /\ Under(Root) = Leaves /\ Root \in Nodes \ Leaves
  BY UnderHolds DEF Trim
<1>o. /\ \A i \in Nodes : \A c \in ChildrenIn(nodes, i) : c \in Nodes /\ Over[c] = {i} \union Over[i]
      /\ Over[Root] = {}
      /\ \A i \in Nodes : i \notin Over[i]
  <2>1. \A i \in Nodes : Over[i] \subseteq 1..(i - 1) /\ i \in Nat
    BY <1>n, OverHolds
  <2>2. \A i \in Nodes : i \notin Over[i]
    BY <2>1
  <2> QED
    BY <1>n, <2>2, OverHolds
<1> HIDE DEF n
<1>1. bad = {}
  <2> SUFFICES ASSUME bad # {}
               PROVE  FALSE
    OBVIOUS
  <2>1. PICK i \in bad : \A k \in bad : k <= i
    <3>1. bad \subseteq 1..n
      OBVIOUS
    <3> HIDE DEF bad
    <3> QED
      BY <1>n, <3>1, Greatest
  <2>2. i \in Nodes /\ i \in Nat /\ ~Good(i)
    BY <1>n
  <2>3. \A c \in ChildrenIn(nodes, i) : Good(c)
    <3> SUFFICES ASSUME NEW c \in ChildrenIn(nodes, i)
                 PROVE  Good(c)
      OBVIOUS
    <3>1. c \in Nodes /\ c \in Nat /\ c > i
      BY <1>n, <2>2, ShapeIs DEF ChildrenIn, Nodes
    <3>2. c \in 1..n /\ ~(c <= i)
      BY <1>n, <2>2, <3>1
    <3> QED
      BY <2>1, <3>2
  <2>4. PICK j \in Leaves : ~(IsVisible(j, RowsFrom[i]) <=>
                    j \in Under(i) /\ status[j] \notin hidden /\ Over[j] \ Over[i] \subseteq expanded)
    BY <2>2, Zenon
  <2>5. CASE i \in Leaves
    <3>1. IsVisible(j, RowsFrom[i]) <=> HasVisibleTests[i] /\ j = i
      <4>1. IsVisible(j, RowsFrom[i]) <=>
              /\ i = Root \/ HasVisibleTests[i]
              /\ j = i \/ (i \in expanded /\ \E k \in ChildrenIn(nodes, i) : IsVisible(j, RowsFrom[k]))
        BY <1>r, <2>2, Zenon
      <4>2. ChildrenIn(nodes, i) = {} /\ i # Root
        BY <1>u, <2>5
      <4> QED
        BY <4>1, <4>2, Zenon
    <3>2. HasVisibleTests[i] <=> status[i] \notin hidden
      BY <1>u, <1>v, <2>2, <2>5
    <3>3. j \in Under(i) <=> j = i
      BY <1>u, <2>5
    <3> QED
      BY <2>4, <3>1, <3>2, <3>3
  <2>6. CASE i \notin Leaves
    <3>1. \A c \in ChildrenIn(nodes, i) : IsVisible(j, RowsFrom[c]) <=>
            j \in Under(c) /\ status[j] \notin hidden /\ Over[j] \ Over[c] \subseteq expanded
      BY <2>3, Zenon
    <3>2. \A c \in ChildrenIn(nodes, i) : Over[c] = {i} \union Over[i]
      BY <1>o, <2>2
    <3>3. j \in Under(i) <=> \E c \in ChildrenIn(nodes, i) : j \in Under(c)
      BY <1>u, <2>2, <2>6
    <3>4. (\E c \in ChildrenIn(nodes, i) : IsVisible(j, RowsFrom[c]))
            <=> j \in Under(i) /\ status[j] \notin hidden /\ Over[j] \ ({i} \union Over[i]) \subseteq expanded
      BY <3>1, <3>2, <3>3, Zenon
    <3>5. j # i
      BY <2>6
    <3>6. j \in Under(i) => i \in Over[j]
      BY <3>5 DEF Under
    <3>7. i \in Over[j] => (Over[j] \ Over[i] \subseteq expanded
                              <=> i \in expanded /\ Over[j] \ ({i} \union Over[i]) \subseteq expanded)
      BY <1>o, <2>2
    <3>8. j \in Under(i) /\ status[j] \notin hidden => i = Root \/ HasVisibleTests[i]
      BY <1>v, <2>2
    <3>9. IsVisible(j, RowsFrom[i]) <=>
            /\ i = Root \/ HasVisibleTests[i]
            /\ i \in expanded /\ \E c \in ChildrenIn(nodes, i) : IsVisible(j, RowsFrom[c])
      BY <1>r, <2>2, <3>5, Zenon
    <3> QED
      BY <2>4, <3>4, <3>6, <3>7, <3>8, <3>9, Zenon
  <2> QED
    BY <2>5, <2>6
<1>2. Good(Root)
  BY <1>1, <1>n, <1>u
<1>3. \A i \in Leaves : Over[i] \ Over[Root] = Over[i] /\ i \in Under(Root)
  BY <1>o, <1>u
<1>4. \A i \in Leaves : IsVisible(i, VisibleRows) <=> status[i] \notin hidden /\ Over[i] \subseteq expanded
  <2> SUFFICES ASSUME NEW i \in Leaves
               PROVE  IsVisible(i, RowsFrom[Root]) <=> status[i] \notin hidden /\ Over[i] \subseteq expanded
    BY DEF VisibleRows
  <2>1. IsVisible(i, RowsFrom[Root]) <=>
          i \in Under(Root) /\ status[i] \notin hidden /\ Over[i] \ Over[Root] \subseteq expanded
    BY <1>2, Zenon
  <2> QED
    BY <1>3, <2>1, Zenon
<1> QED
  BY <1>4, Zenon DEF RowsShowTheFiltered

-----------------------------------------------------------------------------
(* Where a status stands in the order of merge_status.                     *)
Urgency(x) ==
  CASE x = "Running" -> 1 [] x = "Failed" -> 2 [] x = "Pending" -> 3
    [] x = "Skipped" -> 4 [] x = "Ignored" -> 5 [] x = "Passed" -> 6

(* merge_status gives the status that stands first.                        *)
LEMMA MergeIs ==
  ASSUME NEW S, S \subseteq Statuses, S # {}
  PROVE  MergeStatus(S) \in S /\ \A y \in S : Urgency(MergeStatus(S)) <= Urgency(y)
<1> DEFINE P == StatusPriority
           K == {k \in DOMAIN P : P[k] \in S}
<1>1. /\ DOMAIN P = 1..6
      /\ P[1] = "Running" /\ P[2] = "Failed" /\ P[3] = "Pending" /\ P[4] = "Skipped"
      /\ P[5] = "Ignored" /\ P[6] = "Passed"
  BY DEF StatusPriority
<1>2. MergeStatus(S) = P[Min(K)]
  BY DEF MergeStatus
<1> HIDE DEF P
<1>3. \A x \in Statuses : Urgency(x) \in 1..6 /\ P[Urgency(x)] = x
  BY <1>1 DEF Statuses, Urgency
<1>4. \A k \in 1..6 : Urgency(P[k]) = k
  <2> SUFFICES ASSUME NEW k \in 1..6
               PROVE  Urgency(P[k]) = k
    OBVIOUS
  <2>1. k = 1 \/ k = 2 \/ k = 3 \/ k = 4 \/ k = 5 \/ k = 6
    OBVIOUS
  <2> QED
    BY <1>1, <2>1 DEF Urgency
<1>5. K \subseteq Nat /\ K # {}
  BY <1>1, <1>3
<1>6. Min(K) \in K /\ \A k \in K : Min(K) <= k
  <2> HIDE DEF K
  <2> QED
    BY <1>5, MinIs
<1>7. \A y \in S : Urgency(y) \in K
  BY <1>1, <1>3
<1>8. Min(K) \in 1..6 /\ P[Min(K)] \in S
  BY <1>1, <1>6
<1>9. Urgency(MergeStatus(S)) = Min(K)
  BY <1>2, <1>4, <1>8
<1> HIDE DEF K
<1> QED
  BY <1>2, <1>6, <1>7, <1>8, <1>9

LEMMA PlacesDiffer ==
  /\ \A x \in Statuses : Urgency(x) \in 1..6
  /\ \A x, y \in Statuses : Urgency(x) <= Urgency(y) /\ Urgency(y) <= Urgency(x) => x = y
BY DEF Statuses, Urgency

StatusesUnder(i) == {status[j] : j \in Under(i)}

(* Every node but an empty workspace has the first of the statuses of the  *)
(* tests under it.                                                         *)
LEMMA StatusMeans ==
  ASSUME Trim, status \in [Leaves -> Statuses]
  PROVE  \A i \in Nodes : StatusesUnder(i) \subseteq Statuses
                          /\ (StatusesUnder(i) # {} => StatusOf[i] = MergeStatus(StatusesUnder(i)))
                          /\ (StatusesUnder(i) = {} => i = Root /\ StatusOf[i] = "Pending")
<1> DEFINE n == Len(nodes)
           B(i) == StatusesUnder(i)
           Good(i) == (B(i) # {} => StatusOf[i] = MergeStatus(B(i))) /\ (B(i) = {} => StatusOf[i] = "Pending")
           bad == {i \in 1..n : ~Good(i)}
<1>n. Shape(nodes) /\ n \in Nat /\ Nodes = 1..n
  BY ShapeIs DEF Nodes, Trim
<1>s. \A i \in Nodes : StatusOf[i] = IF nodes[i].kind = "Test" THEN status[i]
                                     ELSE MergeStatus({StatusOf[j] : j \in ChildrenIn(nodes, i)})
  BY <1>n, StatusIs
<1>u. /\ \A i \in Leaves : Under(i) = {i}
      /\ \A i \in Nodes \ Leaves : \A j : j \in Under(i) <=> \E c \in ChildrenIn(nodes, i) : j \in Under(c)
      /\ \A i \in Nodes \ {Root} : Under(i) # {}
  BY UnderHolds
<1>b. \A i : B(i) \subseteq Statuses
  BY DEF StatusesUnder, Under
<1>m. \A i, y : y \in B(i) <=> \E j \in Under(i) : y = status[j]
  BY DEF StatusesUnder
<1>e. \A i \in Nodes : B(i) = {} => i = Root
  BY <1>u DEF StatusesUnder
<1> HIDE DEF n
<1>1. bad = {}
  <2> SUFFICES ASSUME bad # {}
               PROVE  FALSE
    OBVIOUS
  <2>1. PICK i \in bad : \A k \in bad : k <= i
    <3>1. bad \subseteq 1..n
      OBVIOUS
    <3> HIDE DEF bad
    <3> QED
      BY <1>n, <3>1, Greatest
  <2>2. i \in Nodes /\ i \in Nat /\ ~Good(i)
    BY <1>n
  <2>3. \A c \in ChildrenIn(nodes, i) : Good(c) /\ c \in Nodes /\ B(c) # {}
    <3> SUFFICES ASSUME NEW c \in ChildrenIn(nodes, i)
                 PROVE  Good(c) /\ c \in Nodes /\ B(c) # {}
      OBVIOUS
    <3>1. c \in Nodes /\ c \in Nat /\ c > i
      BY <1>n, <2>2, ShapeIs DEF ChildrenIn, Nodes
    <3>2. c \in 1..n /\ ~(c <= i) /\ c # Root
      BY <1>n, <2>2, <3>1 DEF Root
    <3> QED
      BY <1>e, <2>1, <3>1, <3>2
  <2> HIDE DEF bad
  <2>4. CASE i \in Leaves
    <3>1. B(i) = {status[i]} /\ StatusOf[i] = status[i]
      <4>1. nodes[i].kind = "Test"
        BY <2>4 DEF Leaves
      <4>2. StatusOf[i] = status[i]
        BY <1>s, <2>2, <4>1
      <4>3. Under(i) = {i}
        BY <1>u, <2>4
      <4>4. {status[j] : j \in Under(i)} = {status[i]}
        BY <4>3
      <4> QED
        BY <4>2, <4>4 DEF StatusesUnder
    <3>2. MergeStatus({status[i]}) \in {status[i]}
      <4>1. {status[i]} \subseteq Statuses
        BY <2>4
      <4> QED
        BY <4>1, MergeIs
    <3> QED
      BY <2>2, <3>1, <3>2
  <2>5. CASE i \notin Leaves
    <3> DEFINE C == {StatusOf[j] : j \in ChildrenIn(nodes, i)}
    <3>1. StatusOf[i] = MergeStatus(C)
      <4>1. nodes[i].kind # "Test"
        BY <2>2, <2>5 DEF Leaves
      <4> QED
        BY <1>s, <2>2, <4>1
    <3>2. \A y : y \in B(i) <=> \E c \in ChildrenIn(nodes, i) : y \in B(c)
      <4>1. \A j : j \in Under(i) <=> \E c \in ChildrenIn(nodes, i) : j \in Under(c)
        BY <1>u, <2>2, <2>5
      <4> HIDE DEF B
      <4>2. ASSUME NEW y, y \in B(i)
            PROVE  \E c \in ChildrenIn(nodes, i) : y \in B(c)
        <5>1. PICK j \in Under(i) : y = status[j]
          BY <1>m, <4>2
        <5>2. PICK c \in ChildrenIn(nodes, i) : j \in Under(c)
          BY <4>1
        <5>3. y \in B(c)
          BY <1>m, <5>1, <5>2
        <5> QED
          BY <5>3
      <4>3. ASSUME NEW y, NEW c \in ChildrenIn(nodes, i), y \in B(c)
            PROVE  y \in B(i)
        <5>1. PICK j \in Under(c) : y = status[j]
          BY <1>m, <4>3
        <5> QED
          BY <1>m, <4>1, <5>1
      <4> QED
        BY <4>2, <4>3
    <3>3. \A c \in ChildrenIn(nodes, i) :
            /\ StatusOf[c] \in B(c) /\ StatusOf[c] \in C
            /\ \A y \in B(c) : Urgency(StatusOf[c]) <= Urgency(y)
      <4> SUFFICES ASSUME NEW c \in ChildrenIn(nodes, i)
                   PROVE  /\ StatusOf[c] \in B(c) /\ StatusOf[c] \in C
                          /\ \A y \in B(c) : Urgency(StatusOf[c]) <= Urgency(y)
        OBVIOUS
      <4>1. StatusOf[c] = MergeStatus(B(c)) /\ B(c) # {} /\ B(c) \subseteq Statuses
        BY <1>b, <2>3
      <4> QED
        BY <4>1, MergeIs
    <3>4. CASE ChildrenIn(nodes, i) = {}
      <4>1. B(i) = {} /\ C = {}
        BY <3>2, <3>4
      <4>2. StatusOf[i] = "Pending"
        BY <3>1, <4>1 DEF MergeStatus
      <4> QED
        BY <2>2, <4>1, <4>2
    <3>5. CASE ChildrenIn(nodes, i) # {}
      <4>1. \A x \in C : \E c \in ChildrenIn(nodes, i) : x = StatusOf[c]
        OBVIOUS
      <4> HIDE DEF C
      <4>2. C # {} /\ C \subseteq B(i) /\ C \subseteq Statuses /\ B(i) # {}
        BY <1>b, <3>2, <3>3, <3>5, <4>1
      <4> DEFINE m == MergeStatus(C)
                 k == MergeStatus(B(i))
      <4>3. m \in C /\ \A y \in C : Urgency(m) <= Urgency(y)
        BY <4>2, MergeIs
      <4>4. k \in B(i) /\ \A y \in B(i) : Urgency(k) <= Urgency(y)
        BY <1>b, <4>2, MergeIs
      <4> HIDE DEF m, k
      <4>5. Urgency(k) <= Urgency(m)
        BY <4>2, <4>3, <4>4
      <4>6. PICK c \in ChildrenIn(nodes, i) : k \in B(c)
        BY <3>2, <4>4
      <4>7. Urgency(m) <= Urgency(StatusOf[c]) /\ Urgency(StatusOf[c]) <= Urgency(k)
        BY <3>3, <4>3, <4>6
      <4>8. m \in Statuses /\ k \in Statuses /\ StatusOf[c] \in Statuses
        BY <1>b, <3>3, <4>2, <4>3, <4>4
      <4>9. Urgency(m) \in 1..6 /\ Urgency(k) \in 1..6 /\ Urgency(StatusOf[c]) \in 1..6
        BY <4>8, PlacesDiffer
      <4>10. Urgency(m) <= Urgency(k)
        BY <4>7, <4>9
      <4>11. m = k
        BY <4>5, <4>8, <4>10, PlacesDiffer
      <4> QED
        BY <2>2, <3>1, <4>2, <4>11 DEF m, k
    <3> QED
      BY <3>4, <3>5
  <2> QED
    BY <2>4, <2>5
<1>2. \A i \in Nodes : Good(i)
  BY <1>1, <1>n
<1> QED
  BY <1>2, <1>b, <1>e

LEMMA BranchesTell ==
  ASSUME Trim, status \in [Leaves -> Statuses]
  PROVE  BranchesTellTheirTests
<1> SUFFICES ASSUME NEW i \in Nodes \ Leaves
             PROVE  LET below == {status[j] : j \in Under(i)}
                    IN /\ "Running" \in below => StatusOf[i] = "Running"
                       /\ "Failed" \in below /\ "Running" \notin below => StatusOf[i] = "Failed"
                       /\ below = {"Passed"} <=> StatusOf[i] = "Passed"
  BY DEF BranchesTellTheirTests
<1> DEFINE B == StatusesUnder(i)
           s == StatusOf[i]
<1>1. B = {status[j] : j \in Under(i)}
  BY DEF StatusesUnder
<1>2. /\ B \subseteq Statuses /\ (B # {} => s = MergeStatus(B)) /\ (B = {} => s = "Pending")
  BY StatusMeans
<1> HIDE DEF B, s
<1>3. B # {} => s \in B /\ \A y \in B : Urgency(s) <= Urgency(y)
  BY <1>2, MergeIs
<1>4. "Running" \in B => s = "Running"
  <2> SUFFICES ASSUME "Running" \in B
               PROVE  s = "Running"
    OBVIOUS
  <2>1. s \in Statuses /\ Urgency(s) <= 1
    BY <1>2, <1>3 DEF Urgency
  <2> QED
    BY <2>1 DEF Statuses, Urgency
<1>5. "Failed" \in B /\ "Running" \notin B => s = "Failed"
  <2> SUFFICES ASSUME "Failed" \in B, "Running" \notin B
               PROVE  s = "Failed"
    OBVIOUS
  <2>1. s \in Statuses /\ s # "Running" /\ Urgency(s) <= 2
    BY <1>2, <1>3 DEF Urgency
  <2> QED
    BY <2>1 DEF Statuses, Urgency
<1>6. B = {"Passed"} <=> s = "Passed"
  <2>1. B = {"Passed"} => s = "Passed"
    BY <1>3
  <2>2. ASSUME s = "Passed"
        PROVE  B = {"Passed"}
    <3>1. B # {} /\ s \in B
      BY <1>2, <1>3, <2>2
    <3>2. \A y \in B : y \in Statuses /\ 6 <= Urgency(y)
      BY <1>2, <1>3, <2>2, <3>1 DEF Urgency
    <3>3. \A y \in B : y = "Passed"
      BY <3>2 DEF Statuses, Urgency
    <3> QED
      BY <2>2, <3>1, <3>3
  <2> QED
    BY <2>1, <2>2
<1> QED
  BY <1>1, <1>4, <1>5, <1>6 DEF s

-----------------------------------------------------------------------------
(* What the labels on the way to a test are.                               *)
LEMMA PlaceHas ==
  ASSUME NEW t \in TestId
  PROVE  /\ Len(Levels(t)) = Offset(t) + Len(t.module) /\ Len(t.module) \in Nat /\ Offset(t) \in {1, 2}
         /\ Place(t)[1] = t.package
         /\ t.kind = "test" => Place(t)[2] = t.binary
         /\ \A e \in 1..(Len(t.module) + 1) : Place(t)[Offset(t) + e] = Append(t.module, t.name)[e]
<1>1. /\ Len(Levels(t)) = Offset(t) + Len(t.module) /\ Len(t.module) \in Nat /\ Offset(t) \in {1, 2}
      /\ Levels(t)[1] = Level(t.package, "Package", <<>>)
      /\ t.kind = "test" => Len(Levels(t)) >= 2 /\ Levels(t)[2] = Level(t.binary, "Binary", <<>>)
      /\ \A k \in 1..Len(t.module) :
           Levels(t)[Offset(t) + k] = Level(t.module[k], "Module", SubSeq(t.module, 1, k))
  BY LevelsAre DEF Offset
<1>2. /\ \A k \in 1..Len(Levels(t)) : Place(t)[k] = Levels(t)[k].label
      /\ Place(t)[Len(Levels(t)) + 1] = t.name
  BY PlaceIs
<1>3. \A l, k, p : Level(l, k, p).label = l
  BY DEF Level
<1>4. Place(t)[1] = t.package
  BY <1>1, <1>2, <1>3
<1>5. t.kind = "test" => Place(t)[2] = t.binary
  BY <1>1, <1>2, <1>3
<1>6. ASSUME NEW e \in 1..(Len(t.module) + 1)
      PROVE  Place(t)[Offset(t) + e] = Append(t.module, t.name)[e]
  <2>0. t.module \in Seq(STRING)
    BY DEF TestId
  <2>1. CASE e = Len(t.module) + 1
    <3>1. Offset(t) + e = Len(Levels(t)) + 1
      BY <1>1, <2>1
    <3>2. Append(t.module, t.name)[e] = t.name
      BY <2>0, <2>1
    <3> QED
      BY <1>2, <3>1, <3>2
  <2>2. CASE e # Len(t.module) + 1
    <3>1. e \in 1..Len(t.module) /\ Offset(t) + e \in 1..Len(Levels(t))
      BY <1>1, <2>2
    <3>2. Append(t.module, t.name)[e] = t.module[e]
      BY <2>0, <3>1
    <3>3. Levels(t)[Offset(t) + e] = Level(t.module[e], "Module", SubSeq(t.module, 1, e))
      BY <1>1, <3>1
    <3>4. Levels(t)[Offset(t) + e].label = t.module[e]
      <4>1. Level(t.module[e], "Module", SubSeq(t.module, 1, e)).label = t.module[e]
        BY <1>3, Zenon
      <4> QED
        BY <3>3, <4>1, Zenon
    <3> QED
      BY <1>2, <3>1, <3>2, <3>4
  <2> QED
    BY <2>1, <2>2
<1> QED
  BY <1>1, <1>4, <1>5, <1>6

(* The branches over a node: one of each rank above its own, each agreeing *)
(* with it so far.                                                         *)
Ancestry(j) ==
  /\ \A i \in Over[j] \ {Root} :
       /\ i \in Nodes /\ Rank(nodes[i]) < Rank(nodes[j]) /\ nodes[i].kind # "Test"
       /\ Agree(nodes[i].test, nodes[j].test, Rank(nodes[i]))
  /\ \A r \in Nat \ {0} : r < Rank(nodes[j]) =>
       \E i \in Over[j] \ {Root} : Rank(nodes[i]) = r

LEMMA AncestryHolds ==
  ASSUME NEW T, T \subseteq TestId, Planted(nodes, T)
  PROVE  \A j \in Nodes : Ancestry(j)
<1> DEFINE n == Len(nodes)
           bad == {j \in 1..n : ~Ancestry(j)}
<1>p. Shape(nodes) /\ Linked(nodes, T, T)
  BY DEF Planted
<1>n. n \in Nat /\ Nodes = 1..n
  BY <1>p, ShapeIs DEF Nodes
<1>o. \A i \in Nodes : Over[i] = IF i = Root THEN {} ELSE {nodes[i].parent} \union Over[nodes[i].parent]
  BY <1>p, OverIs
<1>r. /\ Rank(nodes[1]) = 0
      /\ \A i \in 1..n : Rank(nodes[i]) \in Nat /\ (Rank(nodes[i]) = 0 => i = 1)
  BY <1>p, <1>n, RankIs DEF Nodes
<1>l. \A i \in 2..n : LinkedAt(nodes, T, T, i) /\ nodes[i].parent \in 1..n /\ nodes[i].parent < i
  BY <1>p, RankIs DEF Linked
<1> HIDE DEF n
<1>1. bad = {}
  <2> SUFFICES ASSUME bad # {}
               PROVE  FALSE
    OBVIOUS
  <2>1. PICK j \in bad : \A k \in bad : j <= k
    <3>1. bad \subseteq Nat
      BY <1>n
    <3> HIDE DEF bad
    <3> QED
      BY <3>1, Smallest
  <2>2. j \in Nodes /\ ~Ancestry(j) /\ j \in 1..n /\ j \in Nat
    BY <1>n
  <2>3. CASE j = Root
    <3>1. Over[j] = {} /\ Rank(nodes[j]) = 0
      BY <1>o, <1>r, <2>2, <2>3 DEF Root
    <3>2. \A r \in Nat \ {0} : ~(r < Rank(nodes[j]))
      BY <3>1
    <3> QED
      BY <2>2, <3>1, <3>2 DEF Ancestry
  <2>4. CASE j # Root
    <3> DEFINE p == nodes[j].parent
    <3>0. j \in 2..n
      BY <1>n, <2>2, <2>4 DEF Root
    <3>1. p \in 1..n /\ p < j /\ LinkedAt(nodes, T, T, j) /\ Over[j] = {p} \union Over[p]
      BY <1>l, <1>o, <2>2, <2>4, <3>0
    <3>2. Ancestry(p)
      <4>1. p \notin bad
        BY <1>n, <2>1, <2>2, <3>1
      <4> QED
        BY <3>1, <4>1
    <3>3. /\ nodes[p].kind # "Test" /\ Rank(nodes[j]) = Rank(nodes[p]) + 1 /\ Rank(nodes[p]) \in Nat
          /\ p # 1 => Agree(nodes[p].test, nodes[j].test, Rank(nodes[p]))
          /\ p \in Nodes
      BY <1>n, <1>r, <3>1 DEF LinkedAt
    <3> HIDE DEF p
    <3>4. ASSUME NEW i \in Over[j] \ {Root}
          PROVE  /\ i \in Nodes /\ Rank(nodes[i]) < Rank(nodes[j]) /\ nodes[i].kind # "Test"
                 /\ Agree(nodes[i].test, nodes[j].test, Rank(nodes[i]))
      <4>1. CASE i = p
        <5>1. p # 1
          BY <3>4, <4>1 DEF Root
        <5>2. Rank(nodes[p]) < Rank(nodes[j])
          BY <3>3
        <5> QED
          BY <3>3, <4>1, <5>1, <5>2
      <4>2. CASE i # p
        <5>1. i \in Over[p] \ {Root} /\ p # Root
          BY <1>o, <3>1, <3>3, <4>2
        <5>2. /\ i \in Nodes /\ Rank(nodes[i]) < Rank(nodes[p]) /\ nodes[i].kind # "Test"
              /\ Agree(nodes[i].test, nodes[p].test, Rank(nodes[i]))
          BY <3>2, <5>1 DEF Ancestry
        <5>3. Rank(nodes[i]) \in Nat
          BY <1>n, <1>r, <5>2
        <5>4. 1..Rank(nodes[i]) \subseteq 1..Rank(nodes[p])
          BY <3>3, <5>2, <5>3
        <5>5. Agree(nodes[p].test, nodes[j].test, Rank(nodes[i]))
          BY <3>3, <5>1, <5>4 DEF Agree, Root
        <5>6. Agree(nodes[i].test, nodes[j].test, Rank(nodes[i]))
          BY <5>2, <5>5, Zenon DEF Agree
        <5>7. Rank(nodes[i]) < Rank(nodes[j])
          BY <3>3, <5>2, <5>3
        <5> QED
          BY <5>2, <5>6, <5>7
      <4> QED
        BY <4>1, <4>2
    <3>5. ASSUME NEW r \in Nat \ {0}, r < Rank(nodes[j])
          PROVE  \E i \in Over[j] \ {Root} : Rank(nodes[i]) = r
      <4>1. CASE r = Rank(nodes[p])
        <5>1. p # Root
          BY <1>r, <4>1 DEF Root
        <5> QED
          BY <3>1, <4>1, <5>1
      <4>2. CASE r # Rank(nodes[p])
        <5>1. r < Rank(nodes[p])
          BY <3>3, <3>5, <4>2
        <5> QED
          BY <3>1, <3>2, <5>1 DEF Ancestry
      <4> QED
        BY <4>1, <4>2
    <3>6. Ancestry(j)
      BY <3>4, <3>5 DEF Ancestry
    <3> QED
      BY <2>2, <3>6
  <2> QED
    BY <2>3, <2>4
<1> QED
  BY <1>1, <1>n

(* A test is under the branch of its place.                                *)
LEMMA UnderIs ==
  ASSUME NEW T, T \subseteq TestId, Planted(nodes, T),
         NEW i \in Nodes \ {Root}, nodes[i].kind # "Test", NEW j \in Leaves
  PROVE  /\ j \in Under(i) <=>
              /\ Rank(nodes[i]) <= Len(Levels(nodes[j].test))
              /\ Agree(nodes[i].test, nodes[j].test, Rank(nodes[i]))
         /\ nodes[i].test \in T /\ nodes[j].test \in T /\ MadeOf(nodes[i], nodes[i].test) /\ nodes[i] \in Node
         /\ Rank(nodes[i]) \in Nat \ {0}
<1>p. Shape(nodes) /\ Linked(nodes, T, T) /\ Unique(nodes)
  BY DEF Planted
<1>n. Len(nodes) \in Nat /\ Nodes = 1..Len(nodes) /\ nodes[1].kind # "Test"
  BY <1>p, ShapeIs DEF Nodes, Shape
<1>1. i \in 2..Len(nodes)
  BY <1>n DEF Root
<1>2. j \in 2..Len(nodes) /\ j \in Nodes /\ nodes[j].kind = "Test" /\ j # i
  BY <1>n DEF Leaves
<1>3. /\ nodes[i].test \in T /\ nodes[j].test \in T /\ MadeOf(nodes[i], nodes[i].test) /\ nodes[i] \in Node
      /\ Rank(nodes[i]) \in Nat \ {0}
  BY <1>p, <1>1, <1>2, RankIs DEF Linked, LinkedAt
<1>4. Rank(nodes[j]) = Len(Levels(nodes[j].test)) + 1 /\ Len(Levels(nodes[j].test)) \in Nat
  BY <1>2, <1>3, LevelsAre DEF Rank
<1>5. j \in Under(i) <=> i \in Over[j]
  BY <1>2 DEF Under
<1>6. Ancestry(j)
  BY <1>2, AncestryHolds
<1>7. ASSUME i \in Over[j]
      PROVE  Rank(nodes[i]) <= Len(Levels(nodes[j].test)) /\ Agree(nodes[i].test, nodes[j].test, Rank(nodes[i]))
  <2>1. Rank(nodes[i]) < Rank(nodes[j]) /\ Agree(nodes[i].test, nodes[j].test, Rank(nodes[i]))
    BY <1>6, <1>7 DEF Ancestry
  <2> QED
    BY <1>3, <1>4, <2>1
<1>8. ASSUME Rank(nodes[i]) <= Len(Levels(nodes[j].test)), Agree(nodes[i].test, nodes[j].test, Rank(nodes[i]))
      PROVE  i \in Over[j]
  <2>1. Rank(nodes[i]) < Rank(nodes[j])
    BY <1>3, <1>4, <1>8
  <2>2. PICK a \in Over[j] \ {Root} : Rank(nodes[a]) = Rank(nodes[i])
    BY <1>3, <1>6, <2>1 DEF Ancestry
  <2>3. a \in Nodes /\ nodes[a].kind # "Test" /\ Agree(nodes[a].test, nodes[j].test, Rank(nodes[a]))
    BY <1>6, <2>2 DEF Ancestry
  <2>4. Agree(nodes[i].test, nodes[a].test, Rank(nodes[i]))
    BY <1>8, <2>2, <2>3, Zenon DEF Agree
  <2>5. Same(nodes[i], nodes[a]) /\ a \in 2..Len(nodes)
    BY <1>n, <2>2, <2>3, <2>4 DEF Same, Root
  <2>6. a = i
    BY <1>p, <1>1, <2>5 DEF Unique
  <2> QED
    BY <2>2, <2>6
<1> QED
  BY <1>3, <1>5, <1>7, <1>8

(* What the tests of a discovery have to be to be told apart.              *)
Distinct(T) == \A t, u \in T : t # u => ~IsPrefix(Place(t), Place(u))

LEMMA ScopeOfPackage ==
  ASSUME NEW t \in TestId, NEW u \in TestId
  PROVE  Agree(u, t, 1) /\ 1 <= Len(Levels(t)) <=> t.package = u.package
<1>1. Place(t)[1] = t.package /\ Place(u)[1] = u.package /\ 1 <= Len(Levels(t))
  BY PlaceHas, LevelsAre
<1>2. Agree(u, t, 1) <=> Place(u)[1] = Place(t)[1]
  BY DEF Agree
<1> QED
  BY <1>1, <1>2

LEMMA ScopeOfBinary ==
  ASSUME NEW t \in TestId, NEW u \in TestId, u.kind = "test", SameTarget(t, u)
  PROVE  Agree(u, t, 2) /\ 2 <= Len(Levels(t))
<1>1. Agree(u, t, 2) <=> Place(u)[1] = Place(t)[1] /\ Place(u)[2] = Place(t)[2]
  <2>1. 1..2 = {1, 2}
    OBVIOUS
  <2> QED
    BY <2>1 DEF Agree
<1>2. t.kind = "test" /\ t.package = u.package /\ t.binary = u.binary
  BY DEF SameTarget
<1> QED
  BY <1>1, <1>2, PlaceHas, LevelsAre

LEMMA ScopeOfModule ==
  ASSUME NEW T, T \subseteq TestId, Distinct(T), NEW t \in T, NEW u \in T,
         NEW m \in 1..Len(u.module), SameTarget(t, u)
  PROVE  Agree(u, t, Offset(u) + m) /\ Offset(u) + m <= Len(Levels(t))
           <=> IsPrefix(SubSeq(u.module, 1, m), Append(t.module, t.name))
<1> DEFINE path == SubSeq(u.module, 1, m)
           all == Append(t.module, t.name)
<1>t. /\ t \in TestId /\ t.module \in Seq(STRING) /\ Len(t.module) \in Nat /\ Offset(t) \in {1, 2}
      /\ Len(Levels(t)) = Offset(t) + Len(t.module)
      /\ Place(t)[1] = t.package /\ (t.kind = "test" => Place(t)[2] = t.binary)
      /\ \A e \in 1..(Len(t.module) + 1) : Place(t)[Offset(t) + e] = all[e]
  BY PlaceHas DEF TestId
<1>u. /\ u \in TestId /\ u.module \in Seq(STRING) /\ Len(u.module) \in Nat /\ Offset(u) \in {1, 2}
      /\ Len(Levels(u)) = Offset(u) + Len(u.module)
      /\ Place(u)[1] = u.package /\ (u.kind = "test" => Place(u)[2] = u.binary)
      /\ \A e \in 1..(Len(u.module) + 1) : Place(u)[Offset(u) + e] = Append(u.module, u.name)[e]
  BY PlaceHas DEF TestId
<1>a. /\ all \in Seq(STRING) /\ Len(all) = Len(t.module) + 1
      /\ \A e \in 1..Len(t.module) : all[e] = t.module[e]
  <2>1. t.name \in STRING
    BY <1>t DEF TestId
  <2> QED
    BY <1>t, <2>1
<1>b. /\ path \in Seq(STRING) /\ Len(path) = m /\ m \in Nat /\ m >= 1 /\ m <= Len(u.module)
      /\ \A e \in 1..m : path[e] = u.module[e]
  BY <1>u
<1>c. \A e \in 1..m : Place(u)[Offset(u) + e] = path[e]
  <2>1. \A e \in 1..m : e \in 1..Len(u.module) /\ Append(u.module, u.name)[e] = u.module[e]
    BY <1>u, <1>b
  <2>2. \A e \in 1..m : e \in 1..(Len(u.module) + 1)
    BY <1>u, <1>b
  <2> QED
    BY <1>u, <1>b, <2>1, <2>2
<1>p. IsPrefix(path, all) <=> m <= Len(all) /\ \A e \in 1..m : path[e] = all[e]
  <2> HIDE DEF path, all
  <2>1. path \in Seq(STRING) /\ all \in Seq(STRING) /\ Len(path) = m
    BY <1>a, <1>b
  <2>2. IsPrefix(path, all) <=> Len(path) <= Len(all) /\ \A e \in 1..Len(path) : path[e] = all[e]
    BY <2>1, PrefixMeans
  <2> QED
    BY <2>1, <2>2
<1> HIDE DEF path, all
<1>1. ASSUME Agree(u, t, Offset(u) + m), Offset(u) + m <= Len(Levels(t))
      PROVE  IsPrefix(path, all)
  <2>2. Offset(t) = Offset(u)
    BY DEF SameTarget, Offset
  <2>3. m <= Len(t.module)
    BY <1>1, <1>t, <1>u, <1>b, <2>2
  <2>4. ASSUME NEW e \in 1..m
        PROVE  path[e] = all[e]
    <3>1. Offset(u) + e \in 1..(Offset(u) + m) /\ e \in 1..(Len(t.module) + 1)
      BY <1>t, <1>u, <1>b, <2>3
    <3>2. Place(u)[Offset(u) + e] = Place(t)[Offset(u) + e]
      BY <1>1, <3>1 DEF Agree
    <3> QED
      BY <1>t, <1>c, <2>2, <3>1, <3>2
  <2>5. m <= Len(all)
    BY <1>t, <1>a, <1>b, <2>3
  <2> QED
    BY <1>p, <2>4, <2>5
<1>2. ASSUME IsPrefix(path, all)
      PROVE  Agree(u, t, Offset(u) + m) /\ Offset(u) + m <= Len(Levels(t))
  <2>1. m <= Len(all) /\ \A e \in 1..m : path[e] = all[e]
    BY <1>2, <1>p
  <2>2. Offset(t) = Offset(u) /\ t.package = u.package /\ t.binary = u.binary /\ t.kind = u.kind
    BY DEF SameTarget, Offset
  <2>3. Agree(u, t, Offset(u) + m)
    <3> SUFFICES ASSUME NEW e \in 1..(Offset(u) + m)
                 PROVE  Place(u)[e] = Place(t)[e]
      BY DEF Agree
    <3>1. CASE e = 1
      BY <1>t, <1>u, <2>2, <3>1
    <3>2. CASE e = 2 /\ u.kind = "test"
      BY <1>t, <1>u, <2>2, <3>2
    <3>3. CASE e > Offset(u)
      <4> DEFINE d == e - Offset(u)
      <4>1. d \in 1..m /\ Offset(u) + d = e /\ d \in 1..(Len(t.module) + 1)
        BY <1>t, <1>u, <1>a, <1>b, <2>1, <3>3
      <4>2. Place(u)[Offset(u) + d] = path[d] /\ path[d] = all[d] /\ Place(t)[Offset(t) + d] = all[d]
        BY <1>t, <1>c, <2>1, <4>1
      <4> QED
        BY <2>2, <4>1, <4>2
    <3>4. e = 1 \/ (e = 2 /\ u.kind = "test") \/ e > Offset(u)
      BY <1>u, <1>b DEF Offset
    <3> QED
      BY <3>1, <3>2, <3>3, <3>4
  <2>4. m # Len(t.module) + 1
    <3> SUFFICES ASSUME m = Len(t.module) + 1
                 PROVE  FALSE
      OBVIOUS
    <3>1. Offset(u) + m = Len(Levels(t)) + 1 /\ Len(Levels(t)) < Len(Levels(u))
      BY <1>t, <1>u, <1>b, <2>2
    <3>2. Agree(t, u, Len(Levels(t)) + 1)
      BY <2>3, <3>1, AgreeFacts
    <3>3. IsPrefix(Place(t), Place(u))
      BY <1>t, <1>u, <3>1, <3>2, PrefixIs
    <3>4. t # u
      BY <1>t, <1>u, <3>1
    <3> QED
      BY <3>3, <3>4 DEF Distinct
  <2>5. Offset(u) + m <= Len(Levels(t))
    BY <1>t, <1>u, <1>a, <1>b, <2>1, <2>2, <2>4
  <2> QED
    BY <2>3, <2>5
<1> QED
  BY <1>1, <1>2 DEF path, all

LEMMA BranchIs ==
  ASSUME NEW u \in TestId, NEW n, MadeOf(n, u), n.kind # "Test"
  PROVE  \/ n.kind = "Package" /\ Rank(n) = 1
         \/ n.kind = "Binary" /\ Rank(n) = 2 /\ u.kind = "test"
         \/ n.kind = "Module" /\ \E m \in 1..Len(u.module) :
              n.path = SubSeq(u.module, 1, m) /\ Rank(n) = Offset(u) + m
<1>1. PICK k \in 1..Len(Levels(u)) : [label |-> n.label, kind |-> n.kind, path |-> n.path] = Levels(u)[k]
  BY DEF MadeOf
<1>2. n.test = u /\ n.kind = Levels(u)[k].kind /\ n.path = Levels(u)[k].path
  BY <1>1 DEF MadeOf
<1>3. Rank(n) = k
  BY <1>2, RankOfLevel
<1>4. /\ Len(Levels(u)) = Offset(u) + Len(u.module) /\ Len(u.module) \in Nat /\ Offset(u) \in {1, 2}
      /\ Levels(u)[1] = Level(u.package, "Package", <<>>)
      /\ u.kind = "test" => Levels(u)[2] = Level(u.binary, "Binary", <<>>)
      /\ \A j \in 1..Len(u.module) :
           Levels(u)[Offset(u) + j] = Level(u.module[j], "Module", SubSeq(u.module, 1, j))
  BY LevelsAre DEF Offset
<1>5. \A l, c, p : Level(l, c, p).kind = c /\ Level(l, c, p).path = p
  BY DEF Level
<1>6. CASE k = 1
  BY <1>2, <1>3, <1>4, <1>5, <1>6
<1>7. CASE k = 2 /\ u.kind = "test"
  BY <1>2, <1>3, <1>4, <1>5, <1>7
<1>8. CASE k > Offset(u)
  <2> DEFINE m == k - Offset(u)
  <2>1. m \in 1..Len(u.module) /\ Offset(u) + m = k
    BY <1>4, <1>8
  <2> HIDE DEF m
  <2>2. Levels(u)[k] = Level(u.module[m], "Module", SubSeq(u.module, 1, m))
    BY <1>4, <2>1
  <2>3. n.kind = "Module" /\ n.path = SubSeq(u.module, 1, m)
    <3>1. /\ Level(u.module[m], "Module", SubSeq(u.module, 1, m)).kind = "Module"
          /\ Level(u.module[m], "Module", SubSeq(u.module, 1, m)).path = SubSeq(u.module, 1, m)
      <4> DEFINE nm == u.module[m]
                 pa == SubSeq(u.module, 1, m)
      <4> HIDE DEF nm, pa
      <4>1. Level(nm, "Module", pa).kind = "Module" /\ Level(nm, "Module", pa).path = pa
        BY DEF Level
      <4> QED
        BY <4>1, Zenon DEF nm, pa
    <3> QED
      BY <1>2, <2>2, <3>1, Zenon
  <2> QED
    BY <1>3, <2>1, <2>3
<1>9. k = 1 \/ (k = 2 /\ u.kind = "test") \/ k > Offset(u)
  BY <1>4 DEF Offset
<1> QED
  BY <1>6, <1>7, <1>8, <1>9

LEMMA LeafScope ==
  ASSUME NEW t \in TestId, NEW u \in TestId, SameTarget(t, u), t.module = u.module, t.name = u.name
  PROVE  IsPrefix(Place(t), Place(u))
<1>1. t.package = u.package /\ t.binary = u.binary /\ t.kind = u.kind
  BY DEF SameTarget
<1>2. Levels(t) = Levels(u)
  BY <1>1 DEF Levels
<1>3. Place(t) = Place(u)
  BY <1>2 DEF Place
<1> QED
  BY <1>3, PlaceIs, LevelsAre DEF IsPrefix

LEMMA ScopeHolds ==
  ASSUME NEW T, T \subseteq TestId, Planted(nodes, T), Distinct(T)
  PROVE  ScopeIsSubtree
<1>p. Shape(nodes) /\ Linked(nodes, T, T) /\ Unique(nodes) /\ Trim
  BY PlantedTrim DEF Planted
<1>n. Len(nodes) \in Nat /\ Nodes = 1..Len(nodes) /\ nodes[1].kind = "Workspace"
  BY <1>p, ShapeIs DEF Nodes, Shape
<1>u. (\A i \in Leaves : Under(i) = {i}) /\ Under(Root) = Leaves /\ \A i : Under(i) \subseteq Leaves
  BY <1>p, UnderHolds DEF Under
<1>l. \A j \in Leaves : j \in 2..Len(nodes) /\ nodes[j].test \in T /\ nodes[j].kind = "Test"
  <2> SUFFICES ASSUME NEW j \in Leaves
               PROVE  j \in 2..Len(nodes) /\ nodes[j].test \in T /\ nodes[j].kind = "Test"
    OBVIOUS
  <2>1. j \in 2..Len(nodes) /\ nodes[j].kind = "Test"
    BY <1>n DEF Leaves
  <2> QED
    BY <1>p, <2>1 DEF Linked, LinkedAt
<1>1. ASSUME NEW i \in Nodes, NEW j \in Leaves
      PROVE  InScope(i, nodes[j].test) <=>
               /\ j \in Under(i)
               /\ nodes[i].kind \in {"Binary", "Module"} => SameTarget(nodes[j].test, nodes[i].test)
  <2> DEFINE t == nodes[j].test
             u == nodes[i].test
  <2>1. CASE i = Root
    BY <1>n, <1>u, <2>1 DEF Root, InScope
  <2>2. CASE i \in Leaves
    <3>1. nodes[i].kind = "Test" /\ u \in T /\ t \in T /\ i \in 2..Len(nodes) /\ j \in 2..Len(nodes) /\ nodes[j].kind = "Test"
      BY <1>l, <2>2
    <3>2. InScope(i, t) <=> SameTarget(t, u) /\ t.module = u.module /\ t.name = u.name
      BY <3>1 DEF InScope
    <3>3. InScope(i, t) => t = u
      BY <3>1, <3>2, LeafScope DEF Distinct
    <3>4. t = u => InScope(i, t)
      BY <3>2 DEF SameTarget
    <3>5. t = u <=> i = j
      BY <1>p, <3>1 DEF Unique
    <3> QED
      <4>1. Under(i) = {i} /\ nodes[i].kind \notin {"Binary", "Module"}
        BY <1>u, <2>2, <3>1
      <4>2. InScope(i, t) <=> j = i
        BY <3>3, <3>4, <3>5
      <4> QED
        BY <4>1, <4>2
  <2>3. CASE i # Root /\ i \notin Leaves
    <3>1. nodes[i].kind # "Test" /\ i \in Nodes \ {Root}
      BY <2>3 DEF Leaves
    <3>2. /\ j \in Under(i) <=> Rank(nodes[i]) <= Len(Levels(t)) /\ Agree(u, t, Rank(nodes[i]))
          /\ u \in T /\ t \in T /\ MadeOf(nodes[i], u)
      BY <3>1, UnderIs
    <3> HIDE DEF t, u
    <3>3. CASE nodes[i].kind = "Package" /\ Rank(nodes[i]) = 1
      <4>1. InScope(i, t) <=> t.package = u.package
        BY <3>3 DEF InScope, u
      <4> QED
        BY <3>2, <3>3, <4>1, ScopeOfPackage DEF t
    <3>4. CASE nodes[i].kind = "Binary" /\ Rank(nodes[i]) = 2 /\ u.kind = "test"
      <4>1. InScope(i, t) <=> SameTarget(t, u)
        BY <3>4 DEF InScope, u
      <4>2. SameTarget(t, u) => j \in Under(i)
        BY <3>2, <3>4, ScopeOfBinary
      <4> QED
        BY <3>4, <4>1, <4>2 DEF t, u
    <3>5. CASE nodes[i].kind = "Module" /\ \E m \in 1..Len(u.module) :
                 nodes[i].path = SubSeq(u.module, 1, m) /\ Rank(nodes[i]) = Offset(u) + m
      <4>1. PICK m \in 1..Len(u.module) :
                   nodes[i].path = SubSeq(u.module, 1, m) /\ Rank(nodes[i]) = Offset(u) + m
        BY <3>5
      <4>2. InScope(i, t) <=> SameTarget(t, u) /\ IsPrefix(nodes[i].path, Append(t.module, t.name))
        BY <3>5 DEF InScope, u
      <4>3. SameTarget(t, u) =>
              (j \in Under(i) <=> IsPrefix(nodes[i].path, Append(t.module, t.name)))
        BY <3>2, <4>1, ScopeOfModule
      <4> QED
        BY <3>5, <4>2, <4>3 DEF t, u
    <3> QED
      BY <3>1, <3>2, <3>3, <3>4, <3>5, BranchIs
  <2> QED
    BY <2>1, <2>2, <2>3
<1> QED
  BY <1>1, <1>u DEF ScopeIsSubtree

-----------------------------------------------------------------------------
(* The inductive invariant: the tree is one of the discovered tests.       *)
TreeIInv ==
  /\ \E tests \in Discoveries : nodes = FromTests(tests)
  /\ status \in [Leaves -> Statuses]
  /\ expanded \subseteq Nodes /\ hidden \subseteq FilterKeys
  /\ selected \in Nodes /\ scope \in Nodes \union {0}

LEMMA ShapeOfInv ==
  ASSUME TreeIInv
  PROVE  Shape(nodes) /\ TreeTypeOK
<1>1. Shape(nodes)
  BY TreeAssumption, FromTestsShape DEF TreeIInv
<1>2. \A i \in Nodes \ {Root} : nodes[i].parent \in 1..(i - 1)
  <2>1. Nodes = 1..Len(nodes) /\ Len(nodes) \in Nat
    BY <1>1, ShapeIs DEF Nodes
  <2>2. \A i \in Nodes \ {Root} : i \in 2..Len(nodes)
    BY <2>1 DEF Root
  <2> QED
    BY <1>1, <2>2 DEF Shape
<1> QED
  BY <1>1, <1>2 DEF TreeIInv, TreeTypeOK

LEMMA PlantedOfInv ==
  ASSUME TreeIInv, TestsApart
  PROVE  \E T : T \subseteq TestId /\ Planted(nodes, T) /\ Distinct(T)
<1>1. PICK tests \in Discoveries : nodes = FromTests(tests)
  BY DEF TreeIInv
<1>2. tests \in Seq(TestId)
  BY TreeAssumption
<1> DEFINE T == {tests[k] : k \in DOMAIN tests}
<1>3. \A k, l \in DOMAIN tests : k # l => ~IsPrefix(Place(tests[k]), Place(tests[l]))
  BY DEF TestsApart
<1>4. Planted(nodes, T)
  BY <1>1, <1>2, <1>3, FromTestsPlanted
<1>5. T \subseteq TestId
  BY <1>2
<1>6. Distinct(T)
  BY <1>3 DEF Distinct
<1> QED
  BY <1>4, <1>5, <1>6

(* The rows of a tree, its statuses, what is open and what is hidden.      *)
RowsOf(tree, st, ex, hid) ==
  LET vis == CHOOSE f : f = VisibleStage(tree, st, hid, f)
  IN CHOOSE f : f = RowsStage(tree, ex, vis, f)

LEMMA RowsAgain ==
  /\ RowsFrom = RowsOf(nodes, status, expanded, hidden)
  /\ RowsFrom' = RowsOf(nodes', status', expanded', hidden')
<1>1. RowsFrom = RowsOf(nodes, status, expanded, hidden)
  BY DEF RowsFrom, RowsOf, RowsStage, RowsAt, Below, BelowStage, BelowAt, Shown,
         HasVisibleTests, VisibleStage, VisibleAt
<1>2. RowsFrom' = RowsOf(nodes', status', expanded', hidden')
  BY DEF RowsFrom, RowsOf, RowsStage, RowsAt, Below, BelowStage, BelowAt, Shown,
         HasVisibleTests, VisibleStage, VisibleAt
<1> QED
  BY <1>1, <1>2

LEMMA VisibleRowsAre ==
  ASSUME Shape(nodes)
  PROVE  /\ VisibleRows \in Seq(Nodes) /\ Len(VisibleRows) \in Nat \ {0} /\ VisibleRows[1] = Root
         /\ DOMAIN VisibleRows = 1..Len(VisibleRows) /\ 1 \in DOMAIN VisibleRows
         /\ \A k \in DOMAIN VisibleRows : VisibleRows[k] \in Nodes
<1>1. \A i \in Nat : RowsFrom[i] = RowsAt(nodes, expanded, HasVisibleTests, RowsFrom, i)
  BY RowsAre
<1>2. RowsFrom[Root] \in Seq(DOMAIN nodes) /\ Len(RowsFrom[Root]) >= 1 /\ RowsFrom[Root][1] = Root
  <2>1. /\ \A i \in DOMAIN nodes : RowsFrom[i] \in Seq(DOMAIN nodes)
                                    /\ RowsUnder(nodes, expanded, HasVisibleTests, RowsFrom, i)
        /\ Len(RowsFrom[Root]) >= 1 /\ RowsFrom[Root][1] = Root /\ Root \in DOMAIN nodes
    BY <1>1, RowsHold, Zenon
  <2> QED
    BY <2>1
<1>3. VisibleRows \in Seq(Nodes) /\ Len(VisibleRows) >= 1 /\ VisibleRows[1] = Root
  BY <1>2 DEF VisibleRows, Nodes
<1> QED
  BY <1>3

LEMMA VisibleRowsNext ==
  ASSUME Shape(nodes')
  PROVE  /\ VisibleRows' \in Seq(Nodes') /\ Len(VisibleRows') \in Nat \ {0} /\ VisibleRows'[1] = Root
         /\ IsVisible(Root, VisibleRows') /\ Root \in Nodes'
<1>1. \A i \in Nat : RowsFrom'[i] = RowsAt(nodes', expanded', HasVisibleTests', RowsFrom', i)
  BY RowsAreNext
<1>2. /\ RowsFrom'[Root] \in Seq(DOMAIN nodes') /\ Len(RowsFrom'[Root]) >= 1 /\ RowsFrom'[Root][1] = Root
      /\ Root \in DOMAIN nodes'
  <2>1. /\ \A i \in DOMAIN nodes' : RowsFrom'[i] \in Seq(DOMAIN nodes')
                                     /\ RowsUnder(nodes', expanded', HasVisibleTests', RowsFrom', i)
        /\ Len(RowsFrom'[Root]) >= 1 /\ RowsFrom'[Root][1] = Root /\ Root \in DOMAIN nodes'
    BY <1>1, RowsHold, Zenon
  <2> QED
    BY <2>1
<1>3. VisibleRows' \in Seq(Nodes') /\ Len(VisibleRows') >= 1 /\ VisibleRows'[1] = Root /\ Root \in Nodes'
  BY <1>2 DEF VisibleRows, Nodes
<1>4. 1 \in DOMAIN VisibleRows'
  BY <1>3
<1>5. IsVisible(Root, VisibleRows')
  BY <1>3, <1>4, Zenon DEF IsVisible
<1> QED
  BY <1>3, <1>5

LEMMA SelectedIndexIs ==
  ASSUME Shape(nodes)
  PROVE  SelectedIndex(VisibleRows) \in DOMAIN VisibleRows
<1>1. CASE IsVisible(selected, VisibleRows)
  <2>1. \E k \in DOMAIN VisibleRows : VisibleRows[k] = selected
    BY <1>1 DEF IsVisible
  <2>2. (CHOOSE k \in DOMAIN VisibleRows : VisibleRows[k] = selected) \in DOMAIN VisibleRows
    BY <2>1, Zenon
  <2> QED
    BY <1>1, <2>2, Zenon DEF SelectedIndex
<1>2. CASE ~IsVisible(selected, VisibleRows)
  BY <1>2, VisibleRowsAre DEF SelectedIndex
<1> QED
  BY <1>1, <1>2

-----------------------------------------------------------------------------
(* What every step does: it keeps the invariant, and the selected row on   *)
(* the screen unless a status changes.                                     *)
Keeps ==
  /\ TreeIInv'
  /\ status' = status /\ IsVisible(selected, VisibleRows) => IsVisible(selected', VisibleRows')

(* A step to a row.                                                        *)
LEMMA StepToRow ==
  ASSUME TreeIInv, NEW k \in DOMAIN VisibleRows, selected' = VisibleRows[k],
         UNCHANGED <<nodes, status, expanded, hidden, scope>>
  PROVE  Keeps
<1>1. VisibleRows' = VisibleRows
  BY RowsAgain DEF VisibleRows
<1>2. IsVisible(selected', VisibleRows')
  BY <1>1, Zenon DEF IsVisible
<1>3. selected' \in Nodes
  BY ShapeOfInv, VisibleRowsAre
<1>4. TreeIInv'
  BY <1>3 DEF TreeIInv, Leaves, Nodes
<1> QED
  BY <1>2, <1>4 DEF Keeps

(* A step that changes the rows and hands the selection on.                *)
LEMMA StepOfRows ==
  ASSUME TreeIInv, NEW node \in Nodes, ClampSelection(node), UNCHANGED <<nodes, status, scope>>,
         expanded' \subseteq Nodes, hidden' \subseteq FilterKeys
  PROVE  Keeps
<1>1. Shape(nodes') /\ Nodes' = Nodes
  BY ShapeOfInv DEF Nodes
<1>2. IsVisible(Root, VisibleRows') /\ VisibleRows'[1] = Root /\ Root \in Nodes
  BY <1>1, VisibleRowsNext
<1>3. selected' = IF IsVisible(node, VisibleRows') THEN node ELSE VisibleRows'[1]
  BY DEF ClampSelection
<1>4. IsVisible(selected', VisibleRows') /\ selected' \in Nodes
  BY <1>2, <1>3
<1>5. TreeIInv'
  BY <1>4 DEF TreeIInv, Leaves, Nodes
<1> QED
  BY <1>4, <1>5 DEF Keeps

(* A step of a run.                                                        *)
LEMMA StepOfRun ==
  ASSUME TreeIInv, UNCHANGED <<nodes, expanded, hidden, selected>>,
         status' \in [Leaves -> Statuses], scope' \in Nodes \union {0}
  PROVE  Keeps
<1>1. TreeIInv'
  BY DEF TreeIInv, Leaves, Nodes
<1>2. status' = status => VisibleRows' = VisibleRows
  BY RowsAgain DEF VisibleRows
<1>3. selected' = selected
  OBVIOUS
<1>4. status' = status /\ IsVisible(selected, VisibleRows) => IsVisible(selected', VisibleRows')
  BY <1>2, <1>3, Zenon
<1> QED
  BY <1>1, <1>4 DEF Keeps

LEMMA LoadKeeps ==
  ASSUME TreeIInv, Refresh
  PROVE  Keeps
<1>1. PICK tests \in Discoveries : Load(tests)
  BY DEF Refresh
<1>2. scope' = scope /\ hidden' = hidden /\ scope = 0
  BY DEF Refresh
<1>3. /\ nodes' = FromTests(tests) /\ expanded' = {Root} /\ selected' = Root
      /\ status' = [i \in {j \in DOMAIN nodes' : nodes'[j].kind = "Test"} |->
                      IF nodes'[i].test.ignored THEN "Ignored" ELSE "Pending"]
  BY <1>1 DEF Load
<1>4. Shape(nodes')
  BY <1>3, TreeAssumption, FromTestsShape
<1>5. IsVisible(Root, VisibleRows') /\ Root \in Nodes'
  BY <1>4, VisibleRowsNext
<1>6. status' \in [Leaves' -> Statuses]
  <2>1. Leaves' = {j \in DOMAIN nodes' : nodes'[j].kind = "Test"}
    BY DEF Leaves, Nodes
  <2> QED
    BY <1>3, <2>1 DEF Statuses
<1>7. TreeIInv'
  BY <1>2, <1>3, <1>5, <1>6 DEF TreeIInv
<1> QED
  BY <1>3, <1>5, <1>7 DEF Keeps

(* The index that a key moves to is one of the rows.                       *)
LEMMA MovesAreRows ==
  ASSUME NEW k \in Nat, NEW last \in Nat, NEW d \in Nat, 1 <= k, k <= last
  PROVE  /\ Min({k + d, last}) \in 1..last
         /\ Max({k - 1, 1}) \in 1..last
         /\ (IF k > d THEN k - d ELSE 1) \in 1..last
<1>1. Min({k + d, last}) \in {k + d, last} /\ Min({k + d, last}) <= last /\ Min({k + d, last}) <= k + d
  <2>1. {k + d, last} \subseteq Nat
    OBVIOUS
  <2> QED
    BY <2>1, MinIs
<1>2. Max({k - 1, 1}) \in {k - 1, 1} /\ 1 <= Max({k - 1, 1})
  <2>1. \E x \in {k - 1, 1} : \A y \in {k - 1, 1} : x >= y
    OBVIOUS
  <2>2. Max({k - 1, 1}) \in {k - 1, 1} /\ \A y \in {k - 1, 1} : Max({k - 1, 1}) >= y
    BY <2>1, Zenon DEF Max
  <2> QED
    BY <2>2
<1>3. Min({k + d, last}) \in 1..last
  BY <1>1
<1>4. Max({k - 1, 1}) \in 1..last
  BY <1>2
<1> QED
  BY <1>3, <1>4

LEMMA PageIs == Max({PageSize, 1}) \in Nat
<1>1. PageSize \in Nat
  BY TreeAssumption
<1>2. \E x \in {PageSize, 1} : \A y \in {PageSize, 1} : x >= y
  BY <1>1
<1>3. Max({PageSize, 1}) \in {PageSize, 1}
  BY <1>2, Zenon DEF Max
<1> QED
  BY <1>1, <1>3

LEMMA SelectKeeps ==
  ASSUME TreeIInv,
         \/ SelectNext \/ SelectPrevious \/ SelectFirst \/ SelectLast
         \/ SelectNextPage \/ SelectPreviousPage
  PROVE  Keeps
<1> DEFINE rows == VisibleRows
           k == SelectedIndex(rows)
           last == Len(rows)
<1>1. k \in 1..last /\ last \in Nat /\ DOMAIN rows = 1..last /\ k \in Nat /\ 1 <= k /\ k <= last
  BY ShapeOfInv, SelectedIndexIs, VisibleRowsAre
<1> DEFINE page == Max({PageSize, 1})
<1>p. page \in Nat
  BY PageIs
<1>2. \E m \in 1..last : selected' = rows[m] /\ UNCHANGED <<nodes, status, expanded, hidden, scope>>
  <2>1. CASE SelectNext
    <3>1. selected' = rows[Min({k + 1, last})] /\ UNCHANGED <<nodes, status, expanded, hidden, scope>>
      BY <2>1 DEF SelectNext, SelectRow
    <3> HIDE DEF rows, k, last, page
    <3>2. Min({k + 1, last}) \in 1..last
      BY <1>1, MovesAreRows
    <3> QED
      BY <3>1, <3>2
  <2>2. CASE SelectPrevious
    <3>1. selected' = rows[Max({k - 1, 1})] /\ UNCHANGED <<nodes, status, expanded, hidden, scope>>
      BY <2>2 DEF SelectPrevious, SelectRow
    <3> HIDE DEF rows, k, last, page
    <3>2. Max({k - 1, 1}) \in 1..last
      BY <1>1, MovesAreRows
    <3> QED
      BY <3>1, <3>2
  <2>3. CASE SelectFirst
    <3>1. selected' = rows[1] /\ UNCHANGED <<nodes, status, expanded, hidden, scope>>
      BY <2>3 DEF SelectFirst, SelectRow
    <3> HIDE DEF rows, k, last, page
    <3> QED
      BY <1>1, <3>1
  <2>4. CASE SelectLast
    <3>1. selected' = rows[last] /\ UNCHANGED <<nodes, status, expanded, hidden, scope>>
      BY <2>4 DEF SelectLast, SelectRow
    <3> HIDE DEF rows, k, last, page
    <3> QED
      BY <1>1, <3>1
  <2>5. CASE SelectNextPage
    <3>1. selected' = rows[Min({k + page, last})] /\ UNCHANGED <<nodes, status, expanded, hidden, scope>>
      BY <2>5 DEF SelectNextPage, SelectRow
    <3> HIDE DEF rows, k, last, page
    <3>2. Min({k + page, last}) \in 1..last
      BY <1>1, <1>p, MovesAreRows
    <3> QED
      BY <3>1, <3>2
  <2>6. CASE SelectPreviousPage
    <3>1. /\ selected' = rows[IF k > page THEN k - page ELSE 1]
          /\ UNCHANGED <<nodes, status, expanded, hidden, scope>>
      BY <2>6 DEF SelectPreviousPage, SelectRow
    <3> HIDE DEF rows, k, last, page
    <3>2. (IF k > page THEN k - page ELSE 1) \in 1..last
      BY <1>1, <1>p, MovesAreRows
    <3> QED
      BY <3>1, <3>2
  <2> QED
    BY <2>1, <2>2, <2>3, <2>4, <2>5, <2>6
<1> QED
  BY <1>1, <1>2, StepToRow

LEMMA SelectFailedKeeps ==
  ASSUME TreeIInv, SelectNextFailed \/ SelectPreviousFailed
  PROVE  Keeps
<1> DEFINE rows == VisibleRows
           at == SelectedIndex(rows)
           failed == FailedRows(rows)
<1>1. Len(rows) \in Nat /\ DOMAIN rows = 1..Len(rows) /\ failed \subseteq 1..Len(rows)
  BY ShapeOfInv, VisibleRowsAre DEF FailedRows
<1>2. \A S : S \subseteq failed /\ S # {} => Min(S) \in failed /\ Max(S) \in failed
  <2> SUFFICES ASSUME NEW S, S \subseteq failed, S # {}
               PROVE  Min(S) \in failed /\ Max(S) \in failed
    OBVIOUS
  <2>1. S \subseteq 1..Len(rows) /\ S \subseteq Nat
    BY <1>1
  <2> QED
    BY <1>1, <2>1, MinIs, MaxIs
<1>3. \E m \in failed : selected' = rows[m] /\ UNCHANGED <<nodes, status, expanded, hidden, scope>>
  <2>1. CASE SelectNextFailed
    <3> DEFINE later == {k \in failed : k > at}
    <3>1. /\ failed # {} /\ UNCHANGED <<nodes, status, expanded, hidden, scope>>
          /\ selected' = rows[IF later # {} THEN Min(later) ELSE Min(failed)]
      BY <2>1 DEF SelectNextFailed
    <3>2. later \subseteq failed
      OBVIOUS
    <3> HIDE DEF later, failed, rows
    <3> QED
      BY <1>2, <3>1, <3>2
  <2>2. CASE SelectPreviousFailed
    <3> DEFINE others == failed \ {at}
               earlier == {k \in others : k < at}
    <3>1. /\ others # {} /\ UNCHANGED <<nodes, status, expanded, hidden, scope>>
          /\ selected' = rows[IF earlier # {} THEN Max(earlier) ELSE Max(others)]
      BY <2>2 DEF SelectPreviousFailed
    <3>2. earlier \subseteq failed /\ others \subseteq failed
      OBVIOUS
    <3> HIDE DEF others, earlier, failed, rows
    <3> QED
      BY <1>2, <3>1, <3>2
  <2> QED
    BY <2>1, <2>2
<1>4. failed \subseteq DOMAIN rows
  BY <1>1
<1> QED
  BY <1>3, <1>4, StepToRow

LEMMA OpenKeeps ==
  ASSUME TreeIInv, Toggle \/ Expand
  PROVE  Keeps
<1>1. expanded \subseteq Nodes /\ selected \in Nodes /\ hidden \subseteq FilterKeys
  BY DEF TreeIInv
<1>2. UNCHANGED <<nodes, status, hidden, scope>> /\ ClampSelection(selected) /\ expanded' \subseteq Nodes
  BY <1>1 DEF Toggle, Expand
<1> QED
  BY <1>1, <1>2, StepOfRows

LEMMA CollapseKeeps ==
  ASSUME TreeIInv, Collapse
  PROVE  Keeps
<1> DEFINE rows == VisibleRows
           at == SelectedIndex(rows)
           over == {k \in 1..(at - 1) : Depth[rows[k]] < Depth[rows[at]]}
           open == rows[at] \in expanded /\ ChildrenIn(nodes, rows[at]) # {}
           target == IF open THEN rows[at] ELSE rows[Max(over)]
<1>1. /\ open \/ over # {}
      /\ expanded' = expanded \ {target} /\ UNCHANGED <<nodes, status, hidden, scope>>
      /\ ClampSelection(target)
  BY DEF Collapse
<1>2. at \in DOMAIN rows /\ Len(rows) \in Nat /\ DOMAIN rows = 1..Len(rows) /\ \A k \in DOMAIN rows : rows[k] \in Nodes
  BY ShapeOfInv, SelectedIndexIs, VisibleRowsAre
<1>3. over # {} => Max(over) \in 1..(at - 1)
  <2>1. over \subseteq 1..(at - 1) /\ at - 1 \in Nat
    BY <1>2
  <2> HIDE DEF over
  <2> QED
    BY <2>1, MaxIs
<1>4. target \in Nodes
  <2>1. CASE open
    BY <1>2, <2>1
  <2>2. CASE ~open
    <3>1. Max(over) \in 1..(at - 1)
      BY <1>1, <1>3, <2>2
    <3> HIDE DEF over, rows, at
    <3>2. Max(over) \in DOMAIN rows
      BY <1>2, <3>1
    <3> QED
      BY <1>2, <2>2, <3>2
  <2> QED
    BY <2>1, <2>2
<1> HIDE DEF target
<1>5. expanded' \subseteq Nodes /\ hidden' \subseteq FilterKeys
  BY <1>1 DEF TreeIInv
<1> QED
  BY <1>1, <1>4, <1>5, StepOfRows

LEMMA FilterKeeps ==
  ASSUME TreeIInv, NEW key \in FilterKeys, ToggleViewFilter(key)
  PROVE  Keeps
<1>1. UNCHANGED <<nodes, status, expanded, scope>> /\ ClampSelection(selected)
  BY DEF ToggleViewFilter
<1>2. hidden' \subseteq FilterKeys /\ expanded' \subseteq Nodes /\ selected \in Nodes
  BY <1>1 DEF ToggleViewFilter, TreeIInv
<1> QED
  BY <1>1, <1>2, StepOfRows

LEMMA RunKeeps ==
  ASSUME TreeIInv, RunStep
  PROVE  Keeps
<1>1. /\ status \in [Leaves -> Statuses] /\ selected \in Nodes /\ scope \in Nodes \union {0}
      /\ {"Running", "Failed", "Pending", "Skipped", "Ignored", "Passed"} \subseteq Statuses
  BY DEF TreeIInv, Statuses
<1>2. /\ UNCHANGED <<nodes, expanded, hidden, selected>>
      /\ status' \in [Leaves -> Statuses] /\ scope' \in Nodes \union {0}
  <2>1. CASE RunScope
    <3>1. /\ UNCHANGED <<nodes, expanded, hidden, selected>> /\ scope' = selected
          /\ status' = [i \in Leaves |-> IF nodes[i].test.ignored THEN "Ignored"
                                         ELSE IF InScope(selected, nodes[i].test) THEN "Pending"
                                         ELSE "Skipped"]
      BY <2>1 DEF RunScope
    <3>2. status' \in [Leaves -> Statuses]
      BY <1>1, <3>1
    <3> QED
      BY <1>1, <3>1, <3>2
  <2>2. CASE RunEnds
    <3>1. UNCHANGED <<nodes, expanded, hidden, selected>> /\ scope' = 0
      BY <2>2 DEF RunEnds
    <3>2. \/ status' = [i \in Leaves |-> IF status[i] = "Running" THEN "Pending" ELSE status[i]]
          \/ status' = [i \in Leaves |-> IF status[i] \in {"Pending", "Running"}
                                            /\ InScope(scope, nodes[i].test)
                                         THEN "Skipped" ELSE status[i]]
      BY <2>2 DEF RunEnds
    <3>3. status' \in [Leaves -> Statuses]
      BY <1>1, <3>2
    <3> QED
      BY <3>1, <3>3
  <2>3. ASSUME NEW i \in Leaves, StartTest(i)
        PROVE  /\ UNCHANGED <<nodes, expanded, hidden, selected>>
               /\ status' \in [Leaves -> Statuses] /\ scope' \in Nodes \union {0}
    BY <1>1, <2>3 DEF StartTest
  <2>4. ASSUME NEW i \in Leaves, NEW result \in {"Passed", "Failed"}, FinishTest(i, result)
        PROVE  /\ UNCHANGED <<nodes, expanded, hidden, selected>>
               /\ status' \in [Leaves -> Statuses] /\ scope' \in Nodes \union {0}
    <3>1. result \in Statuses
      BY <1>1
    <3> QED
      BY <1>1, <2>4, <3>1 DEF FinishTest
  <2> QED
    BY <2>1, <2>2, <2>3, <2>4 DEF RunStep
<1> QED
  BY <1>2, StepOfRun

LEMMA TreeStep ==
  ASSUME TreeIInv, [TreeNext]_treeVars
  PROVE  Keeps
<1>1. CASE Refresh
  BY <1>1, LoadKeeps
<1>2. CASE UserStep
  BY <1>2, SelectKeeps, SelectFailedKeeps, OpenKeeps, CollapseKeeps, FilterKeeps DEF UserStep
<1>3. CASE RunStep
  BY <1>3, RunKeeps
<1>4. CASE UNCHANGED treeVars
  <2>1. status \in [Leaves -> Statuses] /\ scope \in Nodes \union {0}
    BY DEF TreeIInv
  <2> QED
    BY <1>4, <2>1, StepOfRun DEF treeVars
<1> QED
  BY <1>1, <1>2, <1>3, <1>4 DEF TreeNext

LEMMA TreeStart ==
  ASSUME TreeInit
  PROVE  TreeIInv /\ IsVisible(selected, VisibleRows)
<1>1. PICK tests \in Discoveries :
        /\ nodes = FromTests(tests)
        /\ status = [i \in Leaves |-> IF nodes[i].test.ignored THEN "Ignored" ELSE "Pending"]
        /\ expanded = {Root} /\ hidden = {} /\ selected = Root /\ scope = 0
  BY DEF TreeInit
<1>2. Shape(nodes)
  BY <1>1, TreeAssumption, FromTestsShape
<1>3. Root \in Nodes
  BY <1>2, ShapeIs DEF Root, Nodes
<1>4. status \in [Leaves -> Statuses]
  BY <1>1 DEF Statuses
<1>5. IsVisible(Root, VisibleRows)
  <2>1. VisibleRows[1] = Root /\ 1 \in DOMAIN VisibleRows
    BY <1>2, VisibleRowsAre
  <2> QED
    BY <2>1, Zenon DEF IsVisible
<1> QED
  BY <1>1, <1>3, <1>4, <1>5 DEF TreeIInv

LEMMA TreeInvariant == TreeSpec => []TreeIInv
<1>1. TreeInit => TreeIInv
  BY TreeStart
<1>2. TreeIInv /\ [TreeNext]_treeVars => TreeIInv'
  BY TreeStep DEF Keeps
<1> QED
  BY <1>1, <1>2, PTL DEF TreeSpec

(* Whatever a discovery finds, the nodes of the tree are in an order in    *)
(* which every node comes after the branch that holds it, every test has a *)
(* status, and what is open, selected and run is in the tree, though a     *)
(* refresh replaces them all (from_tests, refresh_from_tests,              *)
(* clamp_selection).                                                       *)
THEOREM TreeTypeCorrect == TreeSpec => []TreeTypeOK
<1>1. TreeIInv => TreeTypeOK
  BY ShapeOfInv
<1> QED
  BY <1>1, TreeInvariant, PTL

(* Of every list of tests in which none bears the name of another or of a  *)
(* branch, whatever is open and hidden and whatever a run has done to      *)
(* them: the rows are those tests that the filter shows under open         *)
(* branches, and every branch tells what happened to the tests under it    *)
(* (insert_test, collect_visible, node_has_visible_tests, merge_status).   *)
THEOREM TreeHolds ==
  ASSUME TestsApart
  PROVE  TreeSpec => []TreeInv
<1>1. TreeIInv => TreeInv
  <2> SUFFICES ASSUME TreeIInv
               PROVE  TreeInv
    OBVIOUS
  <2>1. PICK T : T \subseteq TestId /\ Planted(nodes, T)
    BY PlantedOfInv
  <2>2. Trim
    BY <2>1, PlantedTrim
  <2>3. status \in [Leaves -> Statuses]
    BY DEF TreeIInv
  <2> QED
    BY <2>2, <2>3, ShapeOfInv, RowsShow, BranchesTell DEF TreeInv
<1> QED
  BY <1>1, TreeInvariant, PTL

(* What the run key runs from a row is what is listed under it, and where  *)
(* a module and a target of one name have become one branch, that part of  *)
(* it that is of the target of the test that made the branch: RunScope     *)
(* finds the tests by target and name, the tree by the labels under which  *)
(* insert_test has put them (selected_scope, RunScope::matches_test).      *)
THEOREM ScopeIsTheSubtree ==
  ASSUME TestsApart
  PROVE  TreeSpec => []ScopeIsSubtree
<1>1. TreeIInv => ScopeIsSubtree
  BY PlantedOfInv, ScopeHolds
<1> QED
  BY <1>1, TreeInvariant, PTL

(* Of any tests: no key and no refresh leaves the selection on a row that  *)
(* is not shown; only a result that arrives can hide it (clamp_selection,  *)
(* toggle_selected, collapse_selected_or_parent, set_view_filter).         *)
THEOREM SelectionStays == TreeSpec => OnlyResultsHideSelection
<1>1. TreeIInv /\ [TreeNext]_treeVars =>
        [IsVisible(selected, VisibleRows) /\ ~IsVisible(selected', VisibleRows') => status' # status]_treeVars
  BY TreeStep DEF Keeps
<1> QED
  BY <1>1, TreeInvariant, PTL DEF TreeSpec, OnlyResultsHideSelection
=============================================================================
