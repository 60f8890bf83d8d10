-------------------------------- MODULE Mining --------------------------------
(***************************************************************************)
(* run_mining (main.rs) picks one algorithm by its name and runs it in the *)
(* context: EFIM and its relatives, TwoPhase, or one of the tree miners.   *)
(* What they all promise is stated once, for whichever runs.               *)
(***************************************************************************)
EXTENDS ProjectionMiner, VerticalMiner, TreeMiner

vars == <<searchVars, treeVars>>

\* What an algorithm does not use is as it was.
Init ==
  \/ EfimInit /\ NoTree
  \/ TwoPhaseInit /\ NoTree
  \/ TreeInit /\ NoStack

Terminated == phase = "done" /\ UNCHANGED vars

Next ==
  \/ Projects /\ EfimNext /\ UNCHANGED treeVars
  \/ Intersects /\ TwoPhaseNext /\ UNCHANGED treeVars
  \/ GrowsTrees /\ TreeNext /\ UNCHANGED stack
  \/ Terminated

Spec == Init /\ [][Next]_vars

\* Some thread that can go on does: less than the operating system promises.  This is
\* WF_vars(Next) with "the run is over" for "no step is enabled", which is the same as
\* long as there is no deadlock, and spares TLC the ENABLED.
Fair == <>[](phase = "done") \/ []<><<TRUE>>_vars

FairSpec == Spec /\ Fair

-----------------------------------------------------------------------------
(* The safety properties of a run are with what they are about: those of   *)
(* any run in MiningContext, the others in the module of its algorithm     *)

\* The run ends, also when calls of the pool fail: no task, extension or tree is started
\* again, and no thread waits for what never comes.
Ends == <>(phase = "done")
=============================================================================
