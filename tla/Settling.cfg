\* Creation: three handlers that may die at any step, two different requests
\* under one key, two input files.  Commands: two request threads of one
\* command.  Submissions: two handlers that may die at any step, one capability.
CONSTANTS
  Handlers = {h1, h2}
  Caps = {c1}
  p1 = p1
  Payloads = {p1}
  Writes <- MCShortRequests
  MaxWrites = 1
  MaxEpoch = 1
  None = None
  Ids = {1}
  RequestThreads = {1, 2}
  MaxRequests = 2
  MaxActive = 1
  MaxRetained = 1
  Threads = {t1, t2, t3}
  Requests = {q1, q2}
  Runs = {r1, r2}
  LastFile = 2
SPECIFICATION SettlingSpec
INVARIANTS CreationIsSound
PROPERTIES PendingSettles EveryCommandEnds CreationSettles
CHECK_DEADLOCK FALSE
