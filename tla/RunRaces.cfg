\* Run: two pollers, from assembly to the final proof and through a round of
\* branches.  Research: one round of plans.
CONSTANTS
  Threads = {t1, t2}
  p1 = p1
  p2 = p2
  p3 = p3
  Proofs = {p1, p2}
  Clean = {p1, p2}
  Cited = {p1}
  BranchCount = 2
  Starts = {"assemble", "branch_prepare"}
  MaxEpoch = 8
  MaxRounds = 1
  MaxDomains = 5
  None = None
  Proposals <- MCProposals
  Screenings <- MCScreenings
  BranchReports <- MCBranchReports
  FreeFailures <- MCFreeFailures
  MaxResearchRounds = 1
  MaxNotes = 1
SPECIFICATION EngineSpec
SYMMETRY Symmetry
INVARIANTS FinalIsSound AdviceIsSound
PROPERTIES OnlyAllowedTransitions RefutationStands
CHECK_DEADLOCK FALSE
