----------------------------- MODULE TaskSearch -----------------------------
(***************************************************************************)
(* The depth-first searches that run as tasks of execute_tasks: each       *)
(* thread has a task or none, and a stack of calls.                        *)
(***************************************************************************)
EXTENDS MiningContext

VARIABLE stack   \* of each thread: a frame for each call, of mine_efim or of dfs

searchVars == <<contextVars, stack>>

NoStack == stack = [w \in Threads |-> <<>>]

StartSearch(algorithms) == Start(algorithms) /\ NoStack

Top(w) == stack[w][1]
Busy(w) == stack[w] # <<>>
=============================================================================
