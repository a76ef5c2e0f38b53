--------------------------- MODULE MCWorkflowRun ---------------------------
(* Small instances of WorkflowRun. *)
EXTENDS WorkflowRun, TLC
CONSTANTS p1, p2, p3

Symmetry == Permutations(Threads)
=============================================================================
