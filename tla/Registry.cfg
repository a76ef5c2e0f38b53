\* Two handlers poll two runs on one claim, facts are revoked, a hypothesis may enter.
\* Deliveries: two handlers for two runs with the same path, disturbed twice.
CONSTANTS
  Threads = {t1, t2}
  Claims = {a}
  Runs = {r1, r2}
  Proofs = {p}
  Hypotheses = {h}
  MaxRevisions = 3
  None = None
  Handlers = {t1, t2}
  r1 = r1
  r2 = r2
  v1 = v1
  v2 = v2
  Texts = {v1, v2}
  path = path
  MaxEvents = 2
  NoText = NoText
  ExportRuns = {r1, r2}
  Paths = {path}
  Verified <- MCVerified
  ExportPath <- MCExportPath
SPECIFICATION FinishedSpec
SYMMETRY FinishedSymmetry
INVARIANTS PromotionIsSound FactsHold VerifiedIsUnconditional ExportsAreSafe PollDelivers
CHECK_DEADLOCK FALSE
