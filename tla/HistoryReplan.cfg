\* Two rounds of plans; the only records that name nodes are those the code
\* checks against the active plans when it accepts them.
CONSTANTS
  Proposals <- MCProposals
  Screenings <- MCScreenings
  BranchReports <- MCBranchReports
  FreeFailures = {}
  MaxResearchRounds = 2
  MaxNotes = 0
SPECIFICATION ResearchSpec
INVARIANTS HistoryStaysReadable
CHECK_DEADLOCK FALSE
