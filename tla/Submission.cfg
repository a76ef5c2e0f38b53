\* Two handlers, two capabilities, three request bodies, one epoch to leave.
CONSTANTS
  Threads = {t1, t2}
  Caps = {c1, c2}
  p1 = p1
  p2 = p2
  Payloads = {p1, p2}
  Requests <- MCRequests
  MaxWrites = 2
  MaxEpoch = 1
  None = None
SPECIFICATION Spec
SYMMETRY Symmetry
INVARIANTS PendingIsCurrent EffectOnce ReceiptCountExact
           AppliedMeansMoved ProductOnce InterruptedIsRecoverable
PROPERTIES SettledIsFinal EffectsInOwnEpoch LedgerSpec
CHECK_DEADLOCK FALSE
