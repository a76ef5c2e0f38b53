------------------------------ MODULE MCEngine ------------------------------
(***************************************************************************)
(* The run itself and the research history behind its tasks, side by side: *)
(* `part' says which of them a behaviour is of.                            *)
(***************************************************************************)
EXTENDS WorkflowRun, MCResearch, GoalGraph

CONSTANTS p1, p2, p3
VARIABLE part

EngineInit == /\ part \in {"run", "research"}
              /\ Init /\ ResearchInit
              /\ part # "run" => run.state = "assemble" /\ run.meta.mode = "full"
EngineNext ==
  /\ \/ part = "run" /\ Next /\ UNCHANGED researchVars
     \/ part = "research" /\ ResearchNext /\ UNCHANGED vars
  /\ UNCHANGED part
EngineSpec == EngineInit /\ [][EngineNext]_<<part, vars, researchVars>>

Symmetry == Permutations(Threads)
=============================================================================
