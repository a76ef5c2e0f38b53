\* Two handlers poll one finished run.
CONSTANTS
  Threads = {t1, t2}
  Claims = {a}
  Runs = {r1}
  Proofs = {p}
  Hypotheses = {}
  MaxRevisions = 1
  None = None
SPECIFICATION Spec
PROPERTIES OutcomeIsFinal
CHECK_DEADLOCK FALSE
