---------------------------- MODULE MCFinished ----------------------------
(***************************************************************************)
(* What happens on every poll of a run that is done, side by side: its     *)
(* result is promoted to the registry and its proof is delivered to the    *)
(* workspace.  The two share no state: `part' says which a behaviour is of.*)
(***************************************************************************)
EXTENDS MCClaimRegistry, Export

CONSTANTS r1, r2, v1, v2, path
VARIABLE part

\* Two runs that were asked to write their proofs to the same path.
MCVerified == r1 :> v1 @@ r2 :> v2
MCExportPath == r1 :> path @@ r2 :> path

\* Handlers are alike, and so are the runs, each with its own proof.
FinishedSymmetry == Symmetry \cup {r1 :> r2 @@ r2 :> r1 @@ v1 :> v2 @@ v2 :> v1}

FinishedInit == /\ part \in {"promotion", "delivery"} /\ Init /\ ExportInit
                /\ part = "promotion" => file[path] = NoText
FinishedNext == /\ \/ part = "promotion" /\ Next /\ UNCHANGED exportVars
                   \/ part = "delivery" /\ ExportNext /\ UNCHANGED vars
                /\ UNCHANGED part
FinishedSpec == FinishedInit /\ [][FinishedNext]_<<part, vars, exportVars>>
=============================================================================
