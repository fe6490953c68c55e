--------------------------- MODULE WorkflowReplay ---------------------------
(***************************************************************************)
(* WorkflowRuntime with a history variable: the row that replaying the     *)
(* persisted events of the execution through its definition produces.  An  *)
(* event stores the name, the task key, the error or the reason of the     *)
(* signal it came from, so the signal can be replayed from it.             *)
(***************************************************************************)
EXTENDS WorkflowRuntime

VARIABLE replayed

replayVars == <<vars, replayed>>

ReplayInit ==
    /\ Init
    /\ replayed = [valid |-> TRUE, execution |-> InitialExecution]

(* What one more event makes of the replay: a signal that the replayed row  *)
(* does not accept makes the log impossible to replay.                      *)
Replay(signal) ==
    IF replayed.valid /\ Accepts(replayed.execution, signal)
    THEN [replayed EXCEPT !.execution = ExecutionFromTransition(@, signal)]
    ELSE [replayed EXCEPT !.valid = FALSE]

ReplayNext ==
    /\ Next
    /\ replayed' = IF events' = events THEN replayed
                   ELSE Replay(calls[CHOOSE p \in Processes :
                            calls[p].phase = "commit" /\ calls'[p].phase /= "commit"].signal)

ReplaySpec == ReplayInit /\ [][ReplayNext]_replayVars

ReplayFairSpec == ReplaySpec /\ Fairness

(* The event log of an execution can be replayed through its definition and *)
(* gives the row that is stored.                                            *)
LogReplays == replayed.valid /\ replayed.execution = execution
=============================================================================
