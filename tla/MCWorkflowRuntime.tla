------------------------- MODULE MCWorkflowRuntime -------------------------
(* Small instances of WorkflowRuntime: requests are interchangeable, and so *)
(* are workers.                                                             *)
EXTENDS WorkflowRuntime, TLC

Interchangeable == Permutations(Clients) \cup Permutations(Workers)
=============================================================================
