\* Two runs with the same proof of one claim, polled fairly.
CONSTANTS
  Threads = {t1}
  Claims = {a}
  Runs = {r1, r2}
  Proofs = {p}
  Hypotheses = {}
  MaxRevisions = 2
  None = None
SPECIFICATION FairSpec
PROPERTIES PromotionSettles
CHECK_DEADLOCK FALSE
