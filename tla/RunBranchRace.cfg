\* A handler that is slow to mark a branch as running.
CONSTANTS
  Threads = {t1, t2}
  p1 = p1
  p2 = p2
  p3 = p3
  Proofs = {p1}
  Clean = {p1}
  Cited = {}
  BranchCount = 2
  Starts = {"branch_prepare"}
  MaxEpoch = 8
  MaxRounds = 1
  MaxDomains = 3
  None = None
SPECIFICATION Spec
INVARIANTS JoinSeesAllSealed
CHECK_DEADLOCK FALSE
