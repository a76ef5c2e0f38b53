\* Commands: two, one allowed to run and one kept, two request threads.  Output:
\* a head of two bytes, a tail of three, nine bytes in all.  OAuth: two clients,
\* one authorization, two exchanging threads, two bases, a clock of three ticks.
CONSTANTS
  Ids = {1, 2}
  RequestThreads = {t1, t2}
  MaxRequests = 3
  MaxActive = 1
  MaxRetained = 1
  HeadLimit = 2
  TailLimit = 3
  PageLimit = 2
  MaxChunk = 4
  MaxBytes = 9
  ClientLimit = 2
  Bases = {"b1", "b2"}
  Redirects = {r1}
  Verifiers = {v1, v2}
  AuthMethods = {"none", "client_secret_post"}
  SentResources <- MCSentResources
  Exchangers = {t1, t2}
  CodeLife = 1
  TokenLife = 0
  MaxGrants = 1
  MaxNow = 2
  GatewayRequests <- MCGatewayRequests
SPECIFICATION ServerSpec
SYMMETRY Symmetry
INVARIANTS LiveIsActive ReportedOnce OutputAccounted CodeSpentOnce AcceptedUnderGrant RefusedMeansNotRun
PROPERTIES TerminalFactsStable
CHECK_DEADLOCK FALSE
