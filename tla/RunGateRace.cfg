\* A text that does not pass the gate, and a handler that is slow in it.
CONSTANTS
  Threads = {t1, t2}
  p1 = p1
  p2 = p2
  p3 = p3
  Proofs = {p1, p2}
  Clean = {p2}
  Cited = {}
  BranchCount = 1
  Starts = {"assemble"}
  MaxEpoch = 9
  MaxRounds = 0
  MaxDomains = 4
  None = None
SPECIFICATION Spec
SYMMETRY Symmetry
INVARIANTS FinalWasGated
CHECK_DEADLOCK FALSE
