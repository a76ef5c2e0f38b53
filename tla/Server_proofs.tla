--------------------------- MODULE Server_proofs ---------------------------
(***************************************************************************)
(* What holds of the output of a command, of the OAuth exchange and of one *)
(* request to the gateway, for every value of the constants.  The three    *)
(* share no state.                                                         *)
(***************************************************************************)
EXTENDS CommandOutput, Access, Gateway, TLAPS

----------------------------------------------------------------------------
(* The buffers of one stream.                                              *)

\* The head is full before anything is dropped, and all that paging ever
\* skipped lies between the head and the tail.
OutputInv ==
  /\ OutputTypeOK
  /\ buf.head = Lesser(HeadLimit, buf.total) /\ buf.start <= buf.total
  /\ skipped \subseteq Positions(buf.head, buf.start)
  /\ OutputAccounted

LEMMA OutputStarts == OutputInit => OutputInv
  BY OutputLimits DEF OutputInit, OutputInv, OutputTypeOK, OutputAccounted, Lesser, Positions, Retained

\* Appending moves the tail's start forward, and the head's end only while
\* nothing has been dropped.
LEMMA AppendKeeps ==
  ASSUME OutputInv, NEW n \in 1..MaxChunk, AppendChunk(n)
  PROVE  OutputInv'
<1> USE OutputLimits
<1>1. /\ buf'.head \in 0..HeadLimit /\ buf'.head = Lesser(HeadLimit, buf'.total)
      /\ buf'.total \in 0..MaxBytes /\ buf'.total >= buf.total
      /\ buf'.start \in 0..MaxBytes /\ buf'.start <= buf'.total /\ buf'.start >= buf.start
      /\ buf' = [head |-> buf'.head, start |-> buf'.start, total |-> buf'.total]
  BY DEF OutputInv, OutputTypeOK, AppendChunk, Lesser, Trimmed
<1>2. skipped' \subseteq Positions(buf'.head, buf'.start)
  BY <1>1 DEF OutputInv, OutputTypeOK, AppendChunk, Lesser, Positions
<1>3. OutputTypeOK'
  BY <1>1 DEF OutputInv, OutputTypeOK, AppendChunk
<1>4. OutputAccounted'
  <2>1. skipped' \cap Retained' = {}
    BY <1>1, <1>2 DEF Retained, Positions, OutputInv, OutputTypeOK, AppendChunk
  <2> QED
    BY <1>1, <2>1 DEF OutputInv, OutputTypeOK, OutputAccounted, AppendChunk, Positions
<1> QED BY <1>1, <1>2, <1>3, <1>4 DEF OutputInv

LEMMA SnapshotKeeps ==
  ASSUME OutputInv, Snapshot
  PROVE  OutputInv'
<1> USE OutputLimits
<1>1. polled' \cup missed' = Positions(0, cursor') /\ polled' \cap missed' = {}
  BY DEF OutputInv, OutputTypeOK, OutputAccounted, Snapshot, Positions, Greater
<1> QED
  BY <1>1 DEF OutputInv, OutputTypeOK, OutputAccounted, Snapshot, Positions, Retained

\* A page lies within one buffer, and starts at the offset asked for unless
\* neither buffer has it.
LEMMA PageWithin ==
  ASSUME OutputInv, offset < buf.total
  PROVE  LET page == Page(offset)
         IN /\ page.at \in offset..buf.total /\ page.next \in page.at..buf.total
            /\ Positions(page.at, page.next) \subseteq Retained
            /\ Positions(offset, page.at) \subseteq Positions(buf.head, buf.start)
  BY OutputLimits DEF OutputInv, OutputTypeOK, Page, Positions, Retained, Lesser

LEMMA ReadKeeps ==
  ASSUME OutputInv, ReadPage
  PROVE  OutputInv'
<1> USE OutputLimits
<1> DEFINE page == Page(offset)
<1>1. /\ page.at \in offset..buf.total /\ page.next \in page.at..buf.total
      /\ Positions(page.at, page.next) \subseteq Retained
      /\ Positions(offset, page.at) \subseteq Positions(buf.head, buf.start)
  BY PageWithin DEF ReadPage
<1>2. /\ paged' = paged \cup Positions(page.at, page.next)
      /\ skipped' = skipped \cup Positions(offset, page.at)
      /\ offset' = page.next /\ buf' = buf /\ cursor' = cursor
      /\ polled' = polled /\ missed' = missed
  BY <1>1 DEF ReadPage
<1> HIDE DEF page
<1>3. paged' \cup skipped' = Positions(0, offset') /\ paged' \cap skipped' = {}
  BY <1>1, <1>2 DEF OutputInv, OutputTypeOK, OutputAccounted, Positions
<1>4. skipped' \subseteq Positions(buf'.head, buf'.start)
  BY <1>1, <1>2 DEF OutputInv
<1>5. skipped' \cap Retained' = {}
  BY <1>2, <1>4 DEF OutputInv, OutputTypeOK, Positions, Retained
<1> QED
  BY <1>1, <1>2, <1>3, <1>4, <1>5 DEF OutputInv, OutputTypeOK, OutputAccounted

\* Polling and paging account for every byte of a stream exactly once, however
\* appends, polls and pages interleave and whatever the limits are.
THEOREM Accounted == OutputSpec => []OutputAccounted
<1>1. OutputInv /\ [OutputNext]_outputVars => OutputInv'
  <2> SUFFICES ASSUME OutputInv, [OutputNext]_outputVars PROVE OutputInv'
    OBVIOUS
  <2>1. CASE UNCHANGED outputVars
    BY <2>1 DEF outputVars, OutputInv, OutputTypeOK, OutputAccounted, Positions, Retained
  <2> QED BY <2>1, AppendKeeps, SnapshotKeeps, ReadKeeps DEF OutputNext
<1>2. OutputInv => OutputAccounted
  BY DEF OutputInv
<1> QED BY OutputStarts, <1>1, <1>2, PTL DEF OutputSpec

----------------------------------------------------------------------------
(* One request.                                                            *)

\* What the reply that is about to be sent says of the tool, and what the headers
\* of a request whose tool ran say of its body.
Tells(answer, ran, r) ==
  /\ answer.kind \in {"error", "http"} => ~ ran
  /\ answer.kind = "result" /\ r.method = "tools/call" => ran
  /\ ran /\ r.id # "absent" => answer.kind = "result" /\ answer.id = r.id
Named(ran, r) ==
  ran /\ Modern(r) => r.nameHeader = r.tool /\ r.versionHeader = "modern"

\* Nothing has run before the dispatch, and a request that came through the
\* checks of the headers has headers that agree with its body.
GatewayInv ==
  /\ gwStage \in {"idle", "received", "screened", "replying", "answered"}
  /\ gwStage # "idle" => gwRequest \in GatewayRequests
  /\ gwStage \notin {"replying", "answered"} => gwRan = FALSE
  /\ gwStage = "screened" => MirrorError(gwRequest) = 0
  /\ gwStage = "replying" => Tells(gwAnswer, gwRan, gwRequest) /\ Named(gwRan, gwRequest)
  /\ RefusedMeansNotRun

\* A modern request whose headers pass names its tool in them.
LEMMA MirroredCall ==
  ASSUME NEW r \in GatewayRequests, MirrorError(r) = 0, Modern(r), r.method = "tools/call"
  PROVE  r.nameHeader = r.tool /\ r.versionHeader = "modern"
<1>1. ContextError(r) = 0
  BY DEF MirrorError, EnvelopeError
<1>2. Mirrors(r)
  BY <1>1 DEF MirrorError, EnvelopeError, HeaderMismatch
<1>3. r.meta = "modern"
  BY <1>1, GatewayAssumption DEF ContextError, UnsupportedVersion, Modern
<1> QED BY <1>2, <1>3 DEF Mirrors, NamesBody

\* A tool that runs is the one the headers of a modern request name.
LEMMA RunsNamed ==
  ASSUME NEW r \in GatewayRequests, MirrorError(r) = 0, ToolRuns(r)
  PROVE  Named(TRUE, r)
BY MirroredCall DEF ToolRuns, Named

LEMMA CheckKeeps ==
  ASSUME GatewayInv, CheckRequest
  PROVE  GatewayInv'
<1>1. /\ gwRequest \in GatewayRequests /\ gwRequest' = gwRequest
      /\ gwRan = FALSE /\ gwRan' = FALSE
  BY DEF GatewayInv, CheckRequest
<1>2. \/ gwStage' = "replying" /\ gwAnswer'.kind \in {"http", "error"}
      \/ gwStage' = "screened" /\ MirrorError(gwRequest) = 0
  BY <1>1, GatewayAssumption
     DEF CheckRequest, Reply, HttpAnswer, HandleError, ErrorAnswer
<1>3. CASE gwStage' = "replying" /\ gwAnswer'.kind \in {"http", "error"}
  BY <1>1, <1>3 DEF GatewayInv, RefusedMeansNotRun, Tells, Named
<1>4. CASE gwStage' = "screened" /\ MirrorError(gwRequest) = 0
  BY <1>1, <1>4 DEF GatewayInv, RefusedMeansNotRun
<1> QED BY <1>2, <1>3, <1>4

LEMMA DispatchKeeps ==
  ASSUME GatewayInv, Dispatch
  PROVE  GatewayInv'
<1> DEFINE r == gwRequest
           e == DispatchError(r)
<1>1. /\ r \in GatewayRequests /\ gwRequest' = r /\ MirrorError(r) = 0
      /\ gwStage' = "replying" /\ gwRan' = ToolRuns(r)
  BY DEF GatewayInv, Dispatch, Reply
<1>2. Tells(gwAnswer', gwRan', r)
  <2>1. CASE e # 0
    BY <1>1, <2>1
       DEF Dispatch, Reply, Dispatched, ErrorAnswer, Accepted202, ToolRuns, Tells
  <2>2. CASE e = 0 /\ r.method \in Notices
    BY <1>1, <2>2 DEF Dispatch, Reply, Accepted202, ToolRuns, Tells, Notices
  <2>3. CASE e = 0 /\ r.method \notin Notices
    BY <1>1, <2>3
       DEF Dispatch, Reply, Dispatched, ResultAnswer, Accepted202, ToolRuns, Tells
  <2> QED BY <2>1, <2>2, <2>3
<1>3. Named(gwRan', r)
  BY <1>1, RunsNamed DEF Named
<1> HIDE DEF r, e
<1> QED BY <1>1, <1>2, <1>3 DEF r, GatewayInv, RefusedMeansNotRun

LEMMA SendKeeps ==
  ASSUME GatewayInv, Send
  PROVE  GatewayInv'
<1>1. /\ gwRequest \in GatewayRequests /\ gwRequest' = gwRequest /\ gwRan' = gwRan
      /\ gwStage' = "answered"
      /\ Tells(gwAnswer, gwRan, gwRequest) /\ Named(gwRan, gwRequest)
  BY DEF GatewayInv, Send
<1>2. gwAnswer' = gwAnswer \/ gwAnswer' \in Unhandled
  BY DEF Send, Unhandled
<1>3. gwAnswer' \in Unhandled => gwAnswer'.kind # "result"
  BY DEF Unhandled, HttpAnswer, NoAnswer
<1> HIDE DEF Unhandled
<1> QED BY <1>1, <1>2, <1>3 DEF GatewayInv, RefusedMeansNotRun, Tells, Named

LEMMA BreakDownKeeps ==
  ASSUME GatewayInv, BreakDown
  PROVE  GatewayInv'
<1>1. /\ gwRequest \in GatewayRequests /\ gwRequest' = gwRequest
      /\ gwStage' = "answered" /\ gwAnswer' \in Unhandled
  BY DEF GatewayInv, BreakDown
<1>2. gwAnswer'.kind # "result"
  BY <1>1 DEF Unhandled, HttpAnswer, NoAnswer
<1>3. Named(gwRan', gwRequest)
  <2>1. CASE gwStage = "received"
    BY <2>1 DEF GatewayInv, BreakDown, Named
  <2>2. CASE gwStage = "screened" /\ ToolRuns(gwRequest)
    BY <2>2, RunsNamed DEF GatewayInv, Named
  <2> QED BY <2>1, <2>2 DEF BreakDown
<1> HIDE DEF Unhandled
<1> QED BY <1>1, <1>2, <1>3 DEF GatewayInv, RefusedMeansNotRun, Named

\* Whatever is sent and whatever fails: an answer that refuses the request means
\* that the tool did not run, the result of a tool means that it did, one that
\* ran is answered to whoever asked or with the answers that tell nothing, and
\* it is the one the headers name.
THEOREM AnswersTell == GatewaySpec => []RefusedMeansNotRun
<1>1. GatewayInit => GatewayInv
  BY DEF GatewayInit, GatewayInv, RefusedMeansNotRun
<1>2. GatewayInv /\ [GatewayNext]_gatewayVars => GatewayInv'
  <2> SUFFICES ASSUME GatewayInv, [GatewayNext]_gatewayVars PROVE GatewayInv'
    OBVIOUS
  <2>1. CASE UNCHANGED gatewayVars
    BY <2>1 DEF gatewayVars, GatewayInv, RefusedMeansNotRun
  <2>2. ASSUME gwStage = "idle", NEW r \in GatewayRequests, Receive(r) PROVE GatewayInv'
    BY <2>2 DEF Receive, GatewayInv, RefusedMeansNotRun
  <2> QED BY <2>1, <2>2, CheckKeeps, DispatchKeeps, SendKeeps, BreakDownKeeps DEF GatewayNext
<1>3. GatewayInv => RefusedMeansNotRun
  BY DEF GatewayInv
<1> QED BY <1>1, <1>2, <1>3, PTL DEF GatewaySpec

----------------------------------------------------------------------------
(* Authorization codes and tokens.                                         *)

ResourceForms == SentResources \cup (Bases \X {"origin", "mcp"})
Grants == [client : Nat, redirect : Redirects, verifier : Verifiers, resource : ResourceForms,
           expires : Nat, base : Bases]
Exchanges == [stage : {"consume", "check"}, code : Nat, client : Nat, redirect : Redirects,
              verifier : Verifiers, resource : ResourceForms, base : Bases]
Registered == [method : AuthMethods, redirects : SUBSET Redirects]
Granted == DOMAIN acGrants

AccessTypes ==
  /\ acGrants \in Seq(Grants) /\ acCodes \subseteq Granted /\ acNow \in Nat
  /\ acWork \in [Exchangers -> Exchanges \cup {NoWork}]
  /\ acClients \in Seq(Registered)

\* What was authorized is of the base it was authorized under.
GrantsBound == \A c \in Granted : Matches(acGrants[c].base, acGrants[c].resource)

\* An exchange is about a code that was given out.
WorkGranted == \A t \in Exchangers : acWork[t].stage # "idle" => acWork[t].code \in Granted

\* A token says what its grant says, and was issued before the code's time was up.
Follows(token) ==
  /\ token.code \in Granted
  /\ LET grant == acGrants[token.code]
     IN /\ token.client = grant.client /\ token.aud = grant.resource
        /\ Matches(token.iss, token.aud)
        /\ token.exp \in Nat /\ token.exp <= grant.expires + TokenLife

\* A code is in the store, in one exchange past its transaction, or spent.
InStoreIsUnspent ==
  \A c \in acCodes : /\ \A t \in Exchangers : acWork[t].stage = "check" => acWork[t].code # c
                     /\ \A token \in acTokens : token.code # c
TakenIsUnspent ==
  \A t \in Exchangers : acWork[t].stage = "check" =>
     \A token \in acTokens : token.code # acWork[t].code

CallGranted == \A call \in acCalls : call.code \in Granted

AccessInv ==
  /\ AccessTypes /\ GrantsBound /\ WorkGranted
  /\ \A token \in acTokens : Follows(token)
  /\ InStoreIsUnspent /\ TakenIsUnspent
  /\ CodeSpentOnce /\ CallGranted /\ AcceptedUnderGrant

LEMMA AccessStarts == AccessInit => AccessInv
  BY AccessAssumption DEF AccessInit, AccessInv, AccessTypes, GrantsBound, WorkGranted, Granted, InStoreIsUnspent,
     TakenIsUnspent, CodeSpentOnce, CallGranted, AcceptedUnderGrant, NoWork

\* A new authorization leaves the earlier ones, and what follows from them, as they were.
LEMMA AuthorizeKeeps ==
  ASSUME AccessInv, NEW client \in 1 .. ClientLimit, NEW redirect \in Redirects,
         NEW verifier \in Verifiers, NEW sent \in SentResources, NEW base \in Bases,
         Authorize(client, redirect, verifier, sent, base)
  PROVE  AccessInv'
<1> DEFINE resource == Normalized(sent, base)
           granted == [client |-> client, redirect |-> redirect, verifier |-> verifier,
                       resource |-> resource, expires |-> acNow + CodeLife, base |-> base]
           new == Len(acGrants) + 1
<1>1. resource \in ResourceForms /\ Matches(base, resource)
  BY DEF Normalized, ResourceForms, Authorize, Requestable
<1>2. granted \in Grants
  BY <1>1, AccessAssumption DEF Grants, AccessInv, AccessTypes
<1>3. /\ acGrants' = Append(acGrants, granted)
      /\ acCodes' \subseteq acCodes \cup {new} /\ acWork' = acWork /\ acTokens' = acTokens
      /\ acCalls' = acCalls /\ acNow' = acNow /\ acClients' = acClients
  BY DEF Authorize, SaveCode
<1>4. granted.base = base /\ granted.resource = resource
  OBVIOUS
<1> HIDE DEF granted
<1>5. /\ acGrants' \in Seq(Grants) /\ Granted' = Granted \cup {new} /\ new \notin Granted
      /\ acGrants'[new] = granted /\ \A c \in Granted : acGrants'[c] = acGrants[c]
  BY <1>2, <1>3 DEF AccessInv, AccessTypes, Granted
<1> HIDE DEF resource, new
<1>6. AccessTypes'
  BY <1>3, <1>5 DEF AccessInv, AccessTypes
<1>7. GrantsBound' /\ WorkGranted' /\ CallGranted'
  BY <1>1, <1>3, <1>4, <1>5 DEF AccessInv, GrantsBound, WorkGranted, CallGranted
<1>8. \A token \in acTokens' : Follows(token)'
  BY <1>3, <1>5 DEF AccessInv, Follows
<1>9. InStoreIsUnspent' /\ TakenIsUnspent' /\ CodeSpentOnce'
  BY <1>3, <1>5 DEF AccessInv, InStoreIsUnspent, TakenIsUnspent, CodeSpentOnce, WorkGranted, Follows
<1>10. AcceptedUnderGrant'
  BY <1>3, <1>5 DEF AccessInv, CallGranted, AcceptedUnderGrant
<1> QED BY <1>6, <1>7, <1>8, <1>9, <1>10 DEF AccessInv

\* Steps after which the authorizations and the calls are what they were.
LEMMA GrantsStay ==
  ASSUME AccessInv, UNCHANGED <<acGrants, acCalls>>, acNow' \in Nat
  PROVE  /\ GrantsBound' /\ CallGranted' /\ AcceptedUnderGrant' /\ Granted' = Granted
         /\ \A token : Follows(token) => Follows(token)'
  BY DEF AccessInv, GrantsBound, CallGranted, AcceptedUnderGrant, Granted, Follows

LEMMA PresentKeeps ==
  ASSUME AccessInv, NEW t \in Exchangers, NEW code \in Granted, NEW client \in DOMAIN acClients,
         NEW method \in AuthMethods, NEW redirect \in Redirects, NEW verifier \in Verifiers,
         NEW sent \in SentResources, NEW base \in Bases,
         Present(t, code, client, method, redirect, verifier, sent, base)
  PROVE  AccessInv'
<1> DEFINE held == [stage |-> "consume", code |-> code, client |-> client, redirect |-> redirect,
                    verifier |-> verifier, resource |-> Normalized(sent, base), base |-> base]
<1>1. /\ acWork' = [acWork EXCEPT ![t] = held]
      /\ UNCHANGED <<acGrants, acCalls, acNow, acCodes, acTokens, acClients>>
  BY DEF Present
<1>2. held \in Exchanges
  <2>1. client \in Nat /\ code \in Nat
    BY DEF AccessInv, AccessTypes, Granted
  <2> QED BY <2>1 DEF Exchanges, Normalized, ResourceForms, AccessInv, AccessTypes, Granted
<1>3. held.stage = "consume" /\ held.code = code
  OBVIOUS
<1> HIDE DEF held
<1>4. AccessTypes'
  BY <1>1, <1>2 DEF AccessInv, AccessTypes, Granted
<1>5. \A u \in Exchangers : acWork'[u] = IF u = t THEN held ELSE acWork[u]
  BY <1>1 DEF AccessInv, AccessTypes
<1>6. WorkGranted' /\ InStoreIsUnspent' /\ TakenIsUnspent' /\ CodeSpentOnce'
  BY <1>1, <1>3, <1>5 DEF AccessInv, WorkGranted, InStoreIsUnspent, TakenIsUnspent, CodeSpentOnce, Granted
<1>7. acNow' \in Nat
  BY <1>4 DEF AccessTypes
<1> QED BY <1>1, <1>4, <1>6, <1>7, GrantsStay DEF AccessInv

LEMMA ConsumeKeeps ==
  ASSUME AccessInv, NEW t \in Exchangers, Consume(t)
  PROVE  AccessInv'
<1>1. /\ acCodes' = acCodes \ {acWork[t].code}
      /\ UNCHANGED <<acGrants, acCalls, acNow, acTokens, acClients>>
  BY DEF Consume, TakeCode, TakesCode
<1>2. acWork[t] \in Exchanges /\ acWork[t].stage = "consume"
  BY DEF AccessInv, AccessTypes, Consume, NoWork
<1>3. PICK w : /\ w \in Exchanges \cup {NoWork} /\ acWork' = [acWork EXCEPT ![t] = w]
               /\ w.stage # "idle" => w.code = acWork[t].code /\ w.code \in acCodes
               /\ w.stage \in {"idle", "check"}
  <2>1. CASE acWork[t].code \in acCodes
    <3>1. [acWork[t] EXCEPT !.stage = "check"] \in Exchanges
      BY <1>2 DEF Exchanges
    <3> QED BY <1>2, <2>1, <3>1 DEF Consume, Exchanges
  <2>2. CASE acWork[t].code \notin acCodes
    <3>1. NoWork \in Exchanges \cup {NoWork} /\ NoWork.stage = "idle"
      BY DEF NoWork
    <3> QED BY <2>2, <3>1 DEF Consume
  <2> QED BY <2>1, <2>2
<1>4. AccessTypes'
  BY <1>1, <1>3 DEF AccessInv, AccessTypes, Granted
<1>5. \A u \in Exchangers : acWork'[u] = IF u = t THEN w ELSE acWork[u]
  BY <1>3 DEF AccessInv, AccessTypes
<1>6. WorkGranted' /\ InStoreIsUnspent' /\ TakenIsUnspent' /\ CodeSpentOnce'
  BY <1>1, <1>2, <1>3, <1>5
     DEF AccessInv, WorkGranted, InStoreIsUnspent, TakenIsUnspent, CodeSpentOnce, Granted
<1>7. acNow' \in Nat
  BY <1>4 DEF AccessTypes
<1> QED BY <1>1, <1>4, <1>6, <1>7, GrantsStay DEF AccessInv

LEMMA IssueKeeps ==
  ASSUME AccessInv, NEW t \in Exchangers, Issue(t)
  PROVE  AccessInv'
<1> DEFINE w == acWork[t]
           grant == acGrants[w.code]
<1>1. w \in Exchanges /\ w.stage = "check" /\ w.code \in Granted
  BY DEF AccessInv, AccessTypes, Issue, NoWork, WorkGranted
<1>2. /\ acWork' = [acWork EXCEPT ![t] = NoWork]
      /\ UNCHANGED <<acGrants, acCalls, acNow, acCodes, acClients>>
  BY DEF Issue
<1>3. acTokens' = acTokens \/ (/\ acTokens' = acTokens \cup {NewToken(w)}
                               /\ grant.expires >= acNow /\ BoundTo(w, grant))
  BY DEF Issue
<1>4. AccessTypes'
  BY <1>2 DEF AccessInv, AccessTypes, Granted
<1>5. \A u \in Exchangers : acWork'[u] = IF u = t THEN NoWork ELSE acWork[u]
  BY <1>2 DEF AccessInv, AccessTypes
<1>6. WorkGranted'
  BY <1>2, <1>5 DEF AccessInv, WorkGranted, Granted, NoWork
<1>7. acNow' \in Nat
  BY <1>4 DEF AccessTypes
<1>8. CASE acTokens' = acTokens
  <2>1. InStoreIsUnspent' /\ TakenIsUnspent' /\ CodeSpentOnce'
    BY <1>2, <1>5, <1>8 DEF AccessInv, InStoreIsUnspent, TakenIsUnspent, CodeSpentOnce, NoWork
  <2> QED BY <1>2, <1>4, <1>6, <1>7, <1>8, <2>1, GrantsStay DEF AccessInv
<1>9. CASE /\ acTokens' = acTokens \cup {NewToken(w)}
           /\ grant.expires >= acNow /\ BoundTo(w, grant)
  <2>1. /\ NewToken(w).code = w.code /\ NewToken(w).client = w.client
        /\ NewToken(w).iss = w.base /\ NewToken(w).aud = w.resource
        /\ NewToken(w).exp = acNow + TokenLife
    BY DEF NewToken
  <2>2. grant \in Grants
    BY <1>1 DEF AccessInv, AccessTypes, Granted
  <2>3. Follows(NewToken(w))
    BY <1>1, <1>9, <2>1, <2>2, AccessAssumption DEF Follows, BoundTo, AccessInv, AccessTypes, Grants
  <2>5. InStoreIsUnspent' /\ TakenIsUnspent'
    BY <1>1, <1>2, <1>5, <1>9, <2>1 DEF AccessInv, InStoreIsUnspent, TakenIsUnspent, CodeSpentOnce, NoWork
  <2>6. CodeSpentOnce'
    BY <1>1, <1>2, <1>5, <1>9, <2>1 DEF AccessInv, TakenIsUnspent, CodeSpentOnce, NoWork
  <2>7. \A token \in acTokens' : Follows(token)'
    <3> SUFFICES ASSUME NEW token \in acTokens' PROVE Follows(token)'
      OBVIOUS
    <3>1. Follows(token)
      BY <1>9, <2>3 DEF AccessInv
    <3> QED BY <1>2, <1>7, <3>1, GrantsStay
  <2> QED BY <1>2, <1>4, <1>6, <1>7, <2>5, <2>6, <2>7, GrantsStay DEF AccessInv
<1> QED BY <1>3, <1>8, <1>9

\* The base a token is presented under is that of its audience, hence that of the grant.
LEMMA AcceptKeeps ==
  ASSUME AccessInv, NEW token \in acTokens, NEW base \in Bases, Accept(token, base)
  PROVE  AccessInv'
<1> DEFINE call == [code |-> token.code, client |-> token.client, base |-> base, at |-> acNow]
           grant == acGrants[token.code]
<1>1. /\ acCalls' = {call} /\ Matches(base, token.aud) /\ token.exp >= acNow
      /\ UNCHANGED <<acGrants, acCodes, acWork, acTokens, acNow, acClients>>
  BY DEF Accept
<1>2. Follows(token) /\ grant \in Grants /\ Matches(grant.base, grant.resource)
  BY DEF AccessInv, AccessTypes, GrantsBound, Follows, Granted
<1>3. grant.base = base
  BY <1>1, <1>2 DEF Follows, Matches
<1>4. acNow <= grant.expires + TokenLife
  BY <1>1, <1>2, AccessAssumption DEF Follows, Grants, AccessInv, AccessTypes
<1>5. AcceptedUnderGrant' /\ CallGranted'
  BY <1>1, <1>2, <1>3, <1>4 DEF AcceptedUnderGrant, CallGranted, Follows, Granted
<1> QED
  BY <1>1, <1>5 DEF AccessInv, AccessTypes, GrantsBound, WorkGranted, Follows, InStoreIsUnspent,
     TakenIsUnspent, CodeSpentOnce, Granted

LEMMA AccessKeeps == AccessInv /\ [AccessNext]_accessVars => AccessInv'
<1> SUFFICES ASSUME AccessInv, [AccessNext]_accessVars PROVE AccessInv'
  OBVIOUS
<1>1. CASE UNCHANGED accessVars
  BY <1>1 DEF accessVars, AccessInv, AccessTypes, GrantsBound, WorkGranted, Follows, InStoreIsUnspent,
     TakenIsUnspent, CodeSpentOnce, Granted, CallGranted, AcceptedUnderGrant
<1>2. ASSUME NEW method \in AuthMethods, NEW redirects \in SUBSET Redirects,
             Register(method, redirects)
      PROVE  AccessInv'
  BY <1>2 DEF Register, RegisterClient, Registered, AccessInv, AccessTypes, GrantsBound, WorkGranted, Follows, InStoreIsUnspent,
     TakenIsUnspent, CodeSpentOnce, Granted, CallGranted, AcceptedUnderGrant
<1>3. CASE Tick
  BY <1>3 DEF Tick, AccessInv, AccessTypes, GrantsBound, WorkGranted, Follows, InStoreIsUnspent,
     TakenIsUnspent, CodeSpentOnce, Granted, CallGranted, AcceptedUnderGrant
<1>4. CASE RestartServer
  BY <1>4 DEF RestartServer, NoWork, AccessInv, AccessTypes, GrantsBound, WorkGranted, Follows, InStoreIsUnspent,
     TakenIsUnspent, CodeSpentOnce, Granted, CallGranted, AcceptedUnderGrant
<1> QED
  BY <1>1, <1>2, <1>3, <1>4, AuthorizeKeeps, PresentKeeps, ConsumeKeeps, IssueKeeps, AcceptKeeps DEF AccessNext, Granted

\* However exchanges interleave or are cut off by restarts, a code yields at most one token.
THEOREM SpentOnce == AccessSpec => []CodeSpentOnce
<1>1. AccessInv => CodeSpentOnce
  BY DEF AccessInv
<1> QED BY AccessStarts, AccessKeeps, <1>1, PTL DEF AccessSpec

\* Every call let through is one the operator authorized that client for, under
\* that base and within the lives of code and token.
THEOREM UnderGrant == AccessSpec => []AcceptedUnderGrant
<1>1. AccessInv => AcceptedUnderGrant
  BY DEF AccessInv
<1> QED BY AccessStarts, AccessKeeps, <1>1, PTL DEF AccessSpec
=============================================================================
