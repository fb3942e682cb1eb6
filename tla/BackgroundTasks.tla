--------------------------- MODULE BackgroundTasks ---------------------------
(***************************************************************************)
(* What runs beside the UI loop apart from tests and xtasks: the scans of  *)
(* the target directory and cargo clean (module DiskUsage), and the stack  *)
(* samples (module StackSample).  Both are tasks that wait for a blocking  *)
(* thread and answer through the queue; neither reads the state of the     *)
(* other, so each is checked in every state of its own while the other     *)
(* rests.  Source: runner.rs.                                              *)
(***************************************************************************)
EXTENDS DiskUsage

CONSTANTS Processes, Roots, ParentOf, GroupOf, Tests, TestOf, MaxSampled, Nobody, MaxSamples

VARIABLES stage, tracker, alive, gone, pane, samplers, answers

Sample == INSTANCE StackSample

ASSUME BackgroundAssumption == Sample!SampleAssumption

diskVars == <<loop, appVars, control, scanVars, dropVars, cleanVars, queue, told>>
stackVars == <<stage, tracker, alive, gone, pane, samplers, answers>>
backgroundVars == <<diskVars, stackVars>>

-----------------------------------------------------------------------------
BackgroundInit == Init /\ Sample!SampleInit

\* The scan of the start has ended and no other has begun.
DiskRests ==
  /\ loop = "run" /\ requestId = 1 /\ cleanId = 0
  /\ completed /\ snapshot # None
  /\ UNCHANGED diskVars

\* No run has begun.
SampleRests == Sample!SampleInit /\ UNCHANGED stackVars

BackgroundNext ==
  \/ SampleRests /\ Next
  \/ DiskRests /\ Sample!SampleNext

(* The runtime polls every task and runs every blocking thread, a walk of  *)
(* a directory, ps and sample end, the UI loop takes what is in the queue  *)
(* - of either part, as long as the other rests.  Nothing is               *)
(* assumed of the user, of cargo and of the processes of the tests.        *)
BackgroundFairness ==
  /\ WF_backgroundVars(SampleRests /\ HandleUsage)
  /\ WF_backgroundVars(SampleRests /\ HandleClean)
  /\ WF_backgroundVars(SampleRests /\ SendClean)
  /\ WF_backgroundVars(SampleRests /\ Exit)
  /\ \A id \in 1..(MaxScans + MaxCleans) :
       /\ WF_backgroundVars(SampleRests /\ id \in Scans /\ (StartWalk(id) \/ Walk(id)))
       /\ WF_backgroundVars(SampleRests /\ id \in Scans /\ (SendUsage(id) \/ EndTask(id)))
  /\ WF_backgroundVars(DiskRests /\ Sample!FinishSample)
  /\ WF_backgroundVars(DiskRests /\ Sample!Exit)
  /\ \A k \in 1..MaxSamples :
       WF_backgroundVars(DiskRests /\ k \in DOMAIN samplers /\ Sample!Work(k))

BackgroundSpec ==
  BackgroundInit /\ [][BackgroundNext]_backgroundVars /\ BackgroundFairness

-----------------------------------------------------------------------------
(* However samples are asked for, closed and reopened, and whatever exits  *)
(* meanwhile, the report shown is of the test it names and says truly what *)
(* it left out, and the pane waits for one answer that comes.              *)
ReportIsTrue == Sample!SampleTypeOK /\ Sample!OneIsUnderWay /\ Sample!ReportIsTrue

(* A stack sample concludes, or the program ends: the next one can be      *)
(* asked for.                                                              *)
SampleConcludes == Sample!SampleConcludes
=============================================================================
