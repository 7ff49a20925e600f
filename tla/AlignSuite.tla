----------------------------- MODULE AlignSuite ------------------------------
(***************************************************************************)
(* The tasks of an alignment, each on a small instance that the            *)
(* configuration gives. A behaviour is of one of them, `subject`, and      *)
(* leaves the others where they start. They are not composed: each has     *)
(* variables of its own. A behaviour of the measurement is named by the    *)
(* mode its tasks are started in.                                          *)
(***************************************************************************)
EXTENDS AlignRestore, MeasureRun, DelayLine, ChainSolve, LevelSolver

VARIABLE subject

restoreVars == <<vars, crossed>>
suiteVars   == <<subject, restoreVars, measureVars, delayLineVars, solveVars, levelVars>>

\* The constants are as the components assume them.
ASSUME AlignInstances ==
  SessionConstants /\ MeasureConstants /\ LineConstants /\ ChainConstants /\ LevelConstants

SomeOf(S) == CHOOSE x \in S : TRUE

\* Of the components that are not the subject, any one start: nothing reads it.
Unused ==
  /\ subject # "delay"  => format = SomeOf(Formats)
  /\ subject # "levels" => mode = "parallel" /\ fixed = {}

SuiteInit ==
  /\ subject \in {"restore", "delay", "knobs", "levels"} \cup Modes
  /\ Unused
  /\ RestoreInit /\ MeasureInit /\ SolveInit /\ DelayLineInit
  /\ LevelInit /\ (subject # "levels" => level[1] = MaxLevel)

Of(s) ==
  /\ subject = s /\ UNCHANGED subject
  /\ s # "restore" => UNCHANGED restoreVars
  /\ s \notin Modes => UNCHANGED measureVars
  /\ s # "delay"   => UNCHANGED delayLineVars
  /\ s # "knobs"   => UNCHANGED solveVars
  /\ s # "levels"  => UNCHANGED levelVars

\* the tasks that are started are of one mode
StartedIn(m) == \A r \in Runs : run'[r].pc = "checked" => run'[r].mode = m

SuiteNext ==
  \/ Of("restore") /\ RestoreNext
  \/ \E m \in Modes : Of(m) /\ MeasureNext /\ StartedIn(m)
  \/ Of("delay") /\ DelayLineNext
  \/ Of("knobs") /\ SolveNext
  \/ Of("levels") /\ LevelNext

SuiteSpec == SuiteInit /\ [][SuiteNext]_suiteVars

=============================================================================
