--------------------------- MODULE AtomicWorkflow ---------------------------
(***************************************************************************)
(* What the engine promises of one execution: a signal is applied in one   *)
(* step, to the row as it is, and leaves one event at the end of the log.  *)
(* The four round trips of WorkflowRuntime keep this promise as long as    *)
(* only one process at a time has a signal for the execution.              *)
(***************************************************************************)
EXTENDS WorkflowDefinitions

VARIABLES
    row,        \* the execution
    log         \* its events, in the order of their sequence numbers

Init ==
    /\ row = InitialExecution
    /\ log = <<Event("created", NoKey, "plain")>>

Apply(signal) ==
    /\ Accepts(row, signal)
    /\ row' = ExecutionFromTransition(row, signal)
    /\ log' = Append(log, PersistedEvent(row, signal))

Next == \E signal \in Signals : Apply(signal)

Spec == Init /\ [][Next]_<<row, log>>
=============================================================================
