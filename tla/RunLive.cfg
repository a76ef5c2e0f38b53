\* A whole run with one poller at a time, fair polling.
CONSTANTS
  Threads = {t1}
  p1 = p1
  p2 = p2
  p3 = p3
  Proofs = {p1, p3}
  Clean = {p1}
  Cited = {p1}
  BranchCount = 2
  Starts = {"assess"}
  MaxEpoch = 10
  MaxRounds = 1
  MaxDomains = 8
  None = None
SPECIFICATION FairSpec
INVARIANTS GateAndJoinHold
PROPERTIES SolvedBranchIsUsed MechanicalAdvances TaskAvailable
CHECK_DEADLOCK FALSE
