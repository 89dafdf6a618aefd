------------------------------ MODULE MCTasks ------------------------------
(* Small instances of the task engine and of the scheduler's hints for     *)
(* TLC.  The two share no variable, so each is run beside the other's      *)
(* initial state, in which nothing of the task engine is under way.  At    *)
(* most the first row is claimed when the scheduler starts.                *)
EXTENDS TaskRuns, HintScan

VARIABLE part   \* whose steps this behaviour takes

MCInit ==
    /\ part \in {"tasks", "hints"}
    /\ TaskInit /\ ScanInit
    /\ \A r \in DueRow : state[r] = "running" => part = "hints" /\ at[r] = 1

MCNext ==
    \/ part = "tasks" /\ TaskNext /\ UNCHANGED <<part, scanVars>>
    \/ part = "hints" /\ ScanNext /\ UNCHANGED <<part, taskVars>>

MCSpec ==
    /\ MCInit /\ [][MCNext]_<<part, taskVars, scanVars>>
    /\ TaskFair
    /\ WF_scanVars(part = "hints" /\ ScanStep) /\ ClockFair
=============================================================================
