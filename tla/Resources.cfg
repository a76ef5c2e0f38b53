\* Writes: three calls over two files, a table for one key, four disturbances
\* (calls, writes of others, failing system calls, restarts).  Text: files of up
\* to five bytes and up to four lines with any ends, up to three edits and two hunks.
\* Barriers: two branches, one round.
CONSTANTS
  c1 = c1
  c2 = c2
  c3 = c3
  CallOrder <- MCCallOrder
  p1 = p1
  p2 = p2
  k1 = k1
  Paths = {p1, p2}
  PathOrder <- MCPathOrder
  Requests <- MCRequests
  Keys = {k1}
  PresentAtStart <- MCPresent
  NoKey = NoKey
  Capacity = 1
  MaxEvents = 4
  Texts <- MCTexts
  PageBytes = {1, 2, 3, 4}
  PageLines = {1, 2}
  Rewrites = 1
  Words = {"", "a", "b", "y", "z"}
  NoWord = ""
  EditTexts <- MCEditTexts
  EditLists <- MCEditLists
  PatchTexts <- MCPatchTexts
  PatchHunks <- MCPatchHunks
  BranchNumbers = {1, 2}
  BarrierRounds = 1
SPECIFICATION ResourcesSpec
INVARIANTS FilesAreSafe ReplayIsEvidence PagesAreTheFile TextIsExact BarriersHold
PROPERTIES UncertainNeverRepeated
CHECK_DEADLOCK FALSE
