----------------------------- MODULE MCResearch -----------------------------
(***************************************************************************)
(* Small decompositions, screening reports and branch reports for Research. *)
(***************************************************************************)
EXTENDS Research, TLC

GoalOn(needs, critical) == [needs |-> needs, critical |-> critical]
Finding(status, method, obstruction) ==
  [status |-> status, method |-> method, obstruction |-> obstruction]
Report(status, proved, unproved, obstructed) ==
  [status |-> status, proved |-> proved, unproved |-> unproved, obstructed |-> obstructed]

\* A chain of three claims beside a plan of one; and a cycle, to be refused.
MCProposals ==
  { << <<GoalOn({}, FALSE), GoalOn({1}, TRUE), GoalOn({2}, TRUE)>>, <<GoalOn({}, FALSE)>> >>,
    << <<GoalOn({2}, FALSE), GoalOn({3}, TRUE), GoalOn({1}, TRUE)>>, <<GoalOn({}, FALSE)>> >> }

SolvedGoal == Finding("solved", "direct", "none")
PartialGoal == Finding("partial", "reduction", "none")
StuckGoal == Finding("stuck", "direct", "missing_reference")

\* Whole reports, and a report that covers a part.
MCScreenings ==
  { <<1, 1>> :> a @@ <<1, 2>> :> b @@ <<1, 3>> :> c @@ <<2, 1>> :> StuckGoal :
      a \in {SolvedGoal, StuckGoal}, b \in {SolvedGoal, StuckGoal}, c \in {SolvedGoal, PartialGoal} }
  \cup { <<1, 1>> :> StuckGoal @@ <<2, 1>> :> PartialGoal }

MCBranchReports ==
  { Report("solved", {}, {}, {}), Report("failed", {}, {}, {}), Report("failed", {}, {}, {1}),
    Report("partial", {2}, {3}, {}) }

\* A failed path that names nothing, and one that names a node there never was.
MCFreeFailures == {{}, {<<9, 9, 9>>}}
=============================================================================
